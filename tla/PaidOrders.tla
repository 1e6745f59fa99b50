----------------------------- MODULE PaidOrders -----------------------------
(* Orders of paid subscriptions.  Orders paid inside Telegram are confirmed *)
(* by updates the bot fetches, which are delivered again until their offset *)
(* is stored; CryptoBot invoices are created at a remote service, whose     *)
(* answer may be lost, and confirmed by polling it.  Several refunds, the   *)
(* bot, the poll and the creation of invoices run concurrently on rows that *)
(* only conditional updates protect, and everything but the rows and the    *)
(* remote services is lost in a crash.  Every order is one of the same      *)
(* client for the same tariff and grants one unit of traffic.  Time is a    *)
(* choice: an order may be past its lifetime, a claim past its lease,       *)
(* whenever the code asks.                                                  *)
EXTENDS Integers, FiniteSets

CONSTANTS
  Telegram,        \* ids of orders paid in Telegram
  Stars,           \* those of them paid in Stars, which the bot can refund
  Crypto,          \* ids of orders paid by a CryptoBot invoice
  Refunders,       \* concurrent refund calls: an administrator, the bot
  None,
  BaseVolume,      \* the client's traffic quota before any purchase
  MaxUse,          \* bound: traffic the client uses
  MaxFaults        \* bound: crashes, failing writes, failing or lost remote calls

ASSUME OrdersAssumption ==
  Telegram \subseteq Nat /\ Crypto \subseteq Nat /\ Telegram \intersect Crypto = {} /\ Stars \subseteq Telegram
ASSUME BoundsAssumption == BaseVolume \in Nat /\ MaxUse \in Nat /\ MaxFaults \in Nat

VARIABLES
  order,           \* the rows
  client,          \* the client's quota and its usage counters
  maker,           \* per CryptoBot order: where its CreateOrder stands
  invoice,         \* CryptoBot's invoices of an order; a second one only if it created two
  charge,          \* Telegram's side of an order
  mailbox,         \* confirmations that Telegram still delivers
  bot,             \* the update loop
  poll,            \* the poll and the answers it works on
  cancel,          \* queued cancellations of superfluous invoices
  refund,          \* the refund calls
  revoked,         \* history: orders whose grant was rolled back
  uses,
  crowded,         \* the CryptoBot account holds more invoices than Reconcile lists
  faults

Orders == Telegram \union Crypto
Invoices == {1, 2}
Unresolved == {"invoice_creating", "recoverable"}
Granted == {"paid", "refund_pending"}
Statuses == {"pending", "failed", "expired", "refunded", "manual_review"} \union Unresolved \union Granted
OrderRows == [status : Statuses \union {None}, ref : Invoices \union {None}, claim : Refunders \union {None},
              revoke : BOOLEAN, window : Nat]
InvoiceStates == {None, "active", "paid", "terminal"}
MakerSteps == {"idle", "remote", "save", "uncertain"}
Charges == {"open", "charged", "returned"}
Bots == [at : {"idle", "handle"}, batch : SUBSET Telegram, fetched : SUBSET Telegram]
Refunds == [at : {"idle", "send", "finalize", "release"}, order : Stars \union {None}]
Clients == [volume : Nat, up : Nat, total : Nat]

ASSUME NoneAssumption ==
  /\ None \notin Refunders /\ None \notin Invoices
  /\ None \notin Statuses \union {"active", "terminal"}

rows == <<order, client, revoked>>
services == <<invoice, charge, mailbox>>
calls == <<maker, bot, poll, refund>>
outside == <<uses, crowded>>
vars == <<order, client, maker, invoice, charge, mailbox, bot, poll, cancel, refund, revoked, outside, faults>>

NoOrder == [status |-> None, ref |-> None, claim |-> None, revoke |-> FALSE, window |-> 0]
IdleBot == [at |-> "idle", batch |-> {}, fetched |-> {}]
NoAnswers == [o \in {} |-> None]
IdlePoll == [at |-> "idle", answers |-> NoAnswers]
IdleRefund == [at |-> "idle", order |-> None]

Init ==
  /\ order = [o \in Orders |-> NoOrder]
  /\ client = [volume |-> BaseVolume, up |-> 0, total |-> 0]
  /\ cancel = {} /\ revoked = {}
  /\ maker = [o \in Crypto |-> "idle"]
  /\ invoice = [o \in Crypto |-> [i \in Invoices |-> None]]
  /\ charge = [o \in Telegram |-> "open"] /\ mailbox = {}
  /\ bot = IdleBot /\ poll = IdlePoll
  /\ refund = [f \in Refunders |-> IdleRefund]
  /\ uses = 0 /\ crowded = FALSE /\ faults = 0

Fault == faults < MaxFaults /\ faults' = faults + 1
NoFault == UNCHANGED faults

(***************************************************************************)
(* The transactions on the rows.                                           *)
(***************************************************************************)
SetStatus(o, status) == order' = [order EXCEPT ![o].status = status]

(* BuildPaidClientUpdates: the quota grows and the usage so far is folded   *)
(* into the totals; the order remembers it.                                 *)
GrantTo(o, row) ==
  /\ order' = [order EXCEPT ![o] = [row EXCEPT !.status = "paid", !.window = client.up]]
  /\ client' = [volume |-> client.volume + 1, up |-> 0, total |-> client.total + client.up]
  /\ UNCHANGED revoked

(* Mutant: the status is read before the transaction and not asked in it. *)
ApplyAgain(o) == GrantTo(o, order[o])

(* ApplyPaidOrderGrant: only a pending order; otherwise nothing is done. *)
ApplyPaidOrder(o) ==
  IF order[o].status = "pending" THEN GrantTo(o, order[o]) ELSE UNCHANGED rows

(* BuildRefundClientUpdates: the newest paid order also gives the client    *)
(* back the usage window that it closed.                                    *)
Monus(a, b) == IF a > b THEN a - b ELSE 0

RevokeFrom(o) ==
  LET newer == {p \in Orders : p > o /\ order[p].status \in Granted}
  IN /\ client' = [volume |-> Monus(client.volume, 1),
                   up |-> IF newer = {} THEN order[o].window ELSE client.up,
                   total |-> Monus(client.total, order[o].window)]
     /\ revoked' = revoked \union {o}

(* finalizeRefundGrant. *)
FinalizeRefund(o, revoke) ==
  /\ order' = [order EXCEPT ![o].status = "refunded", ![o].claim = None]
  /\ IF revoke THEN RevokeFrom(o) ELSE UNCHANGED <<client, revoked>>

(***************************************************************************)
(* CreateOrder.  Ids are given in the order of the inserts.                *)
(***************************************************************************)
NextId(o) == order[o].status = None /\ \A p \in Orders : p < o => order[p].status # None

CreateTelegramOrder(o) ==
  /\ NextId(o)
  /\ \/ SetStatus(o, "pending") /\ NoFault
     \/ SetStatus(o, "failed") /\ Fault
  /\ UNCHANGED <<client, revoked, calls, services, cancel, outside>>

(* ActiveCryptoBotOrder and CreateInvoiceIntent: an order that is active or *)
(* under review is returned instead of a new one.                           *)
CreateInvoiceIntent(o) ==
  /\ NextId(o)
  /\ \A p \in Crypto : order[p].status \notin Unresolved \union {"pending", "manual_review"}
  /\ SetStatus(o, "invoice_creating") /\ maker' = [maker EXCEPT ![o] = "remote"]
  /\ UNCHANGED <<client, revoked, bot, poll, refund, services, cancel, outside, faults>>

(* The remote call: it is answered, or its outcome is unknown, with no      *)
(* invoice, one or two of them created.                                     *)
CreateInvoice(o) ==
  /\ maker[o] = "remote"
  /\ \/ /\ invoice' = [invoice EXCEPT ![o][1] = "active"]
        /\ maker' = [maker EXCEPT ![o] = "save"] /\ NoFault
     \/ /\ \E created \in {{}, {1}, {1, 2}} :
             invoice' = [invoice EXCEPT ![o] = [i \in Invoices |-> IF i \in created THEN "active" ELSE None]]
        /\ maker' = [maker EXCEPT ![o] = "uncertain"] /\ Fault
  /\ UNCHANGED <<rows, bot, poll, refund, charge, mailbox, cancel, outside>>

SaveInvoiceResult(o) ==
  /\ maker[o] = "save"
  /\ \/ /\ order[o].status \in {"pending", "invoice_creating"} /\ order[o].ref \in {None, 1}
        /\ order' = [order EXCEPT ![o].status = "pending", ![o].ref = 1]
        /\ maker' = [maker EXCEPT ![o] = "idle"] /\ NoFault
     \/ /\ ~(order[o].status \in {"pending", "invoice_creating"} /\ order[o].ref \in {None, 1})
        /\ UNCHANGED order /\ maker' = [maker EXCEPT ![o] = "uncertain"] /\ NoFault
     \/ UNCHANGED order /\ maker' = [maker EXCEPT ![o] = "uncertain"] /\ Fault
  /\ UNCHANGED <<client, revoked, bot, poll, refund, services, cancel, outside>>

MarkInvoiceRecoverable(o) ==
  /\ maker[o] = "uncertain"
  /\ IF order[o].status = "invoice_creating" THEN SetStatus(o, "recoverable") ELSE UNCHANGED order
  /\ maker' = [maker EXCEPT ![o] = "idle"]
  /\ UNCHANGED <<client, revoked, bot, poll, refund, services, cancel, outside, faults>>

(***************************************************************************)
(* The bot.                                                                *)
(***************************************************************************)
(* handlePreCheckout approves an order that is pending, and Telegram takes  *)
(* the money.  The confirmation comes later, when the order may be another. *)
PreCheckout(o) ==
  /\ charge[o] = "open" /\ order[o].status = "pending"
  /\ charge' = [charge EXCEPT ![o] = "charged"] /\ mailbox' = mailbox \union {o}
  /\ UNCHANGED <<rows, calls, invoice, cancel, outside, faults>>

FetchUpdates ==
  /\ bot.at = "idle" /\ mailbox # {}
  /\ bot' = [at |-> "handle", batch |-> mailbox, fetched |-> mailbox]
  /\ UNCHANGED <<rows, maker, poll, refund, services, cancel, outside, faults>>

(* A confirmation without a charge id is put under review, one that does    *)
(* not match its order fails it; an error is logged and the loop goes on.   *)
HandleSuccessfulPayment(o) ==
  /\ bot.at = "handle" /\ o \in bot.batch
  /\ bot' = [bot EXCEPT !.batch = @ \ {o}]
  /\ \/ ApplyPaidOrder(o) /\ NoFault
     \/ UNCHANGED rows /\ Fault
     \/ /\ order[o].status = "pending" /\ \E s \in {"failed", "manual_review"} : SetStatus(o, s)
        /\ Fault /\ UNCHANGED <<client, revoked>>
  /\ UNCHANGED <<maker, poll, refund, services, cancel, outside>>

StoreOffset ==
  /\ bot.at = "handle" /\ bot.batch = {}
  /\ bot' = IdleBot
  /\ \/ mailbox' = mailbox \ bot.fetched /\ NoFault
     \/ UNCHANGED mailbox /\ Fault
  /\ UNCHANGED <<rows, maker, poll, refund, invoice, charge, cancel, outside>>

(***************************************************************************)
(* The poll: answers for the pending invoices, then for the orders without *)
(* a reference, then the cancellations, then the local lifetimes.          *)
(***************************************************************************)
PollRest == UNCHANGED <<maker, bot, refund, charge, mailbox, outside>>

PollWork == {o \in Crypto : order[o].status = "pending" /\ order[o].ref # None}
ReconcileWork == {o \in Crypto : order[o].status \in Unresolved \/ (order[o].status = "pending" /\ order[o].ref = None)}

PollProvider ==
  /\ poll.at = "idle" /\ PollWork # {}
  /\ \/ poll' = [at |-> "poll", answers |-> [o \in PollWork |-> invoice[o][order[o].ref]]] /\ NoFault
     \/ poll' = [at |-> "poll", answers |-> NoAnswers] /\ Fault
  /\ PollRest /\ UNCHANGED <<rows, invoice, cancel>>

Answered(o) == poll' = [at |-> poll.at, answers |-> [p \in DOMAIN poll.answers \ {o} |-> poll.answers[p]]]

(* A paid invoice is applied, a terminal one expires an order past the      *)
(* grace, an answer that does not match is reviewed; a write may fail.      *)
ApplyPollAnswer(o) ==
  /\ poll.at = "poll" /\ o \in DOMAIN poll.answers /\ Answered(o)
  /\ \/ poll.answers[o] = "paid" /\ ApplyPaidOrder(o) /\ NoFault
     \/ /\ poll.answers[o] = "terminal" /\ NoFault /\ UNCHANGED <<client, revoked>>
        /\ (order[o].status = "pending" /\ SetStatus(o, "expired")) \/ UNCHANGED order
     \/ poll.answers[o] = "active" /\ NoFault /\ UNCHANGED rows
     \/ /\ Fault /\ UNCHANGED <<client, revoked>>
        /\ IF order[o].status \in Unresolved \union {"pending"} THEN SetStatus(o, "manual_review") ELSE UNCHANGED order
     \/ Fault /\ UNCHANGED rows
  /\ PollRest /\ UNCHANGED <<invoice, cancel>>

(* The orders are looked up in a listing of the account, of which no more   *)
(* than 20 pages are read: once it has more, no order is ever answered.     *)
(* Whoever uses the account fills it; only this step notices.               *)
Reconcile ==
  /\ \/ poll.at = "poll" /\ DOMAIN poll.answers = {}
     \/ poll.at = "idle" /\ PollWork = {}
  /\ \/ /\ crowded => ReconcileWork = {}
        /\ poll' = [at |-> "reconcile", answers |-> [o \in ReconcileWork |-> invoice[o]]]
        /\ NoFault /\ UNCHANGED crowded
     \/ /\ ReconcileWork # {} /\ crowded' = TRUE
        /\ poll' = [at |-> "reconcile", answers |-> NoAnswers] /\ NoFault
     \/ poll' = [at |-> "reconcile", answers |-> NoAnswers] /\ Fault /\ UNCHANGED crowded
  /\ UNCHANGED <<rows, maker, bot, refund, services, cancel, uses>>

(* Mutant: a recovered invoice is applied whether paid or not. *)
AdoptAndGrant(o, i, found) ==
  GrantTo(o, [order[o] EXCEPT !.status = "pending", !.ref = i]) /\ UNCHANGED cancel

(* RecoverProviderOrder: one transaction, on a row that is still without a  *)
(* reference.  Only a sole paid invoice, or a sole active one, is adopted;  *)
(* one that does not match its order puts it under review.                  *)
Adopt(o, i, found) ==
  LET row == [order[o] EXCEPT !.status = "pending", !.ref = i]
      active == {j \in Invoices : found[j] = "active"}
  IN IF found[i] = "paid"
     THEN GrantTo(o, row) /\ cancel' = cancel \union {<<o, j>> : j \in active}
     ELSE order' = [order EXCEPT ![o] = row] /\ UNCHANGED <<client, revoked, cancel>>

Recover(o, found) ==
  LET In(s) == {i \in Invoices : found[i] = s}
      Become(status) == SetStatus(o, status) /\ UNCHANGED <<client, revoked, cancel>>
  IN IF o \notin ReconcileWork THEN UNCHANGED <<rows, cancel>>
     ELSE \/ In("paid") = {} /\ In("active") = {}
             /\ \E s \in {"recoverable"} \union (IF In("terminal") = {} THEN {} ELSE {"expired"}) : Become(s)
          \/ Cardinality(In("paid")) > 1 /\ Become("manual_review")
          \/ In("paid") = {} /\ Cardinality(In("active")) > 1 /\ Become("manual_review")
          \/ \E i \in Invoices : In("paid") = {i} /\ Adopt(o, i, found)
          \/ \E i \in Invoices : In("paid") = {} /\ In("active") = {i} /\ Adopt(o, i, found)

RecoverProviderOrder(o) ==
  /\ poll.at = "reconcile" /\ o \in DOMAIN poll.answers /\ Answered(o)
  /\ \/ Recover(o, poll.answers[o]) /\ NoFault
     \/ /\ o \in ReconcileWork /\ SetStatus(o, "manual_review") /\ Fault
        /\ UNCHANGED <<client, revoked, cancel>>
     \/ UNCHANGED <<rows, cancel>> /\ Fault
  /\ PollRest /\ UNCHANGED invoice

(* An invoice that was paid meanwhile cannot be cancelled and stays queued. *)
CancelInvoice(c) ==
  LET o == c[1] i == c[2]
  IN /\ poll.at = "reconcile" /\ DOMAIN poll.answers = {} /\ c \in cancel /\ invoice[o][i] # "paid"
     /\ invoice' = [invoice EXCEPT ![o][i] = "terminal"]
     /\ \/ cancel' = cancel \ {c} /\ NoFault
        \/ UNCHANGED cancel /\ Fault
     /\ PollRest /\ UNCHANGED <<rows, poll>>

(* Mutant: CryptoBot's orders end with their local lifetime too. *)
ExpireAllOrders ==
  /\ poll.at = "reconcile" /\ DOMAIN poll.answers = {} /\ poll' = IdlePoll
  /\ \E stale \in SUBSET {o \in Orders : order[o].status = "pending"} :
       order' = [o \in Orders |-> IF o \in stale THEN [order[o] EXCEPT !.status = "expired"] ELSE order[o]]
  /\ PollRest /\ UNCHANGED <<client, revoked, invoice, cancel, faults>>

(* ExpireStaleOrders closes the poll; it leaves CryptoBot's orders alone. *)
ExpireStaleOrders ==
  /\ poll.at = "reconcile" /\ DOMAIN poll.answers = {} /\ poll' = IdlePoll
  /\ \E stale \in SUBSET {o \in Telegram : order[o].status = "pending"} :
       order' = [o \in Orders |-> IF o \in stale THEN [order[o] EXCEPT !.status = "expired"] ELSE order[o]]
  /\ PollRest /\ UNCHANGED <<client, revoked, invoice, cancel, faults>>

(***************************************************************************)
(* Refunds.                                                                *)
(***************************************************************************)
RefundRest == UNCHANGED <<maker, bot, poll, invoice, mailbox, cancel, outside>>
GotoRefund(f, o, at) == refund' = [refund EXCEPT ![f] = [at |-> at, order |-> o]]
EndRefund(f) == refund' = [refund EXCEPT ![f] = IdleRefund]
Claims(f, o) == order[o].status = "refund_pending" /\ order[o].claim = f

(* ClaimStarsRefund: the intent and its policy are the first call's; a      *)
(* later call takes over the claim if it was released or its lease is over, *)
(* and is refused otherwise.  What the call read of the row before is asked *)
(* again here.                                                              *)
ClaimStarsRefund(f, o, revoke) ==
  LET claim == [order[o] EXCEPT !.status = "refund_pending", !.claim = f]
  IN /\ refund[f] = IdleRefund /\ GotoRefund(f, o, "send")
     /\ \/ /\ order[o].status = "paid"
           /\ order' = [order EXCEPT ![o] = [claim EXCEPT !.revoke = revoke]]
        \/ /\ order[o].status = "refund_pending"
           /\ order' = [order EXCEPT ![o] = claim]
     /\ RefundRest /\ UNCHANGED <<client, revoked, charge, faults>>

(* Mutant: a failed call to Telegram is taken for a refund. *)
RefundAnyway(f) ==
  /\ refund[f].at = "send" /\ GotoRefund(f, refund[f].order, "finalize") /\ Fault
  /\ RefundRest /\ UNCHANGED <<rows, charge>>

(* Telegram returns the stars, or answers that it has already; it refuses;  *)
(* or its answer is lost.                                                   *)
RefundStarPayment(f) ==
  LET o == refund[f].order
      returned == [charge EXCEPT ![o] = "returned"]
  IN /\ refund[f].at = "send"
     /\ \/ charge' = returned /\ GotoRefund(f, o, "finalize") /\ NoFault
        \/ charge' \in {charge, returned} /\ GotoRefund(f, o, "release") /\ Fault
     /\ RefundRest /\ UNCHANGED rows

(* Mutant: the claim is not asked for again. *)
FinalizeUnclaimed(f) ==
  LET o == refund[f].order
  IN /\ refund[f].at = "finalize" /\ FinalizeRefund(o, order[o].revoke) /\ EndRefund(f)
     /\ RefundRest /\ UNCHANGED <<charge, faults>>

FinalizeClaimedRefund(f) ==
  LET o == refund[f].order
  IN /\ refund[f].at = "finalize"
     /\ \/ Claims(f, o) /\ FinalizeRefund(o, order[o].revoke) /\ EndRefund(f) /\ NoFault
        \/ ~Claims(f, o) /\ UNCHANGED rows /\ EndRefund(f) /\ NoFault
        \/ UNCHANGED rows /\ GotoRefund(f, o, "release") /\ Fault
     /\ RefundRest /\ UNCHANGED charge

ReleaseRefundClaim(f) ==
  LET o == refund[f].order
  IN /\ refund[f].at = "release" /\ EndRefund(f)
     /\ IF Claims(f, o) THEN order' = [order EXCEPT ![o].claim = None] ELSE UNCHANGED order
     /\ RefundRest /\ UNCHANGED <<client, revoked, charge, faults>>

(* Any other provider's money is returned outside the panel. *)
FinalizeLocalRefund(o, revoke) ==
  /\ order[o].status = "paid" /\ FinalizeRefund(o, revoke)
  /\ RefundRest /\ UNCHANGED <<refund, charge, faults>>

(***************************************************************************)
(* The world outside: payments, time, use of the subscription, crashes.    *)
(***************************************************************************)
(* A payer has the link of the saved reference; a reference that was lost   *)
(* may all the same be one that is paid.                                    *)
InvoiceIsPaid(o, i) ==
  /\ invoice[o][i] = "active"
  /\ order[o].ref = i \/ (order[o].ref = None /\ maker[o] = "idle")
  /\ invoice' = [invoice EXCEPT ![o][i] = "paid"]
  /\ UNCHANGED <<rows, calls, charge, mailbox, cancel, outside, faults>>

InvoiceEnds(o, i) ==
  /\ invoice[o][i] = "active" /\ invoice' = [invoice EXCEPT ![o][i] = "terminal"]
  /\ UNCHANGED <<rows, calls, charge, mailbox, cancel, outside, faults>>

Use ==
  /\ uses < MaxUse /\ uses' = uses + 1
  /\ client' = [client EXCEPT !.up = @ + 1]
  /\ UNCHANGED <<order, revoked, calls, services, cancel, crowded, faults>>

Crash ==
  /\ Fault
  /\ maker' = [o \in Crypto |-> "idle"] /\ bot' = IdleBot /\ poll' = IdlePoll
  /\ refund' = [f \in Refunders |-> IdleRefund]
  /\ UNCHANGED <<rows, services, cancel, outside>>

BotSteps == FetchUpdates \/ StoreOffset \/ \E o \in Telegram : HandleSuccessfulPayment(o)

PollSteps ==
  \/ PollProvider \/ Reconcile \/ ExpireStaleOrders
  \/ \E o \in Crypto : ApplyPollAnswer(o) \/ RecoverProviderOrder(o)
  \/ \E c \in cancel : CancelInvoice(c)

Next ==
  \/ \E o \in Telegram : CreateTelegramOrder(o) \/ PreCheckout(o)
  \/ \E o \in Crypto : CreateInvoiceIntent(o) \/ CreateInvoice(o) \/ SaveInvoiceResult(o) \/ MarkInvoiceRecoverable(o)
  \/ \E o \in Crypto, i \in Invoices : InvoiceIsPaid(o, i) \/ InvoiceEnds(o, i)
  \/ BotSteps \/ PollSteps
  \/ \E f \in Refunders : RefundStarPayment(f) \/ FinalizeClaimedRefund(f) \/ ReleaseRefundClaim(f)
  \/ \E f \in Refunders, o \in Stars, revoke \in BOOLEAN : ClaimStarsRefund(f, o, revoke)
  \/ \E o \in Orders \ Stars, revoke \in BOOLEAN : FinalizeLocalRefund(o, revoke)
  \/ Use \/ Crash

Spec == Init /\ [][Next]_vars

(* The poll is a cron job, and handles each answer it got. *)
FairSpec == Spec /\ WF_vars(PollSteps)

(***************************************************************************)
(* Properties.                                                             *)
(***************************************************************************)
(* Every row, counter and call is in a state the code can produce. *)
TypeOK ==
  /\ order \in [Orders -> OrderRows]
  /\ client \in Clients
  /\ maker \in [Crypto -> MakerSteps]
  /\ invoice \in [Crypto -> [Invoices -> InvoiceStates]]
  /\ charge \in [Telegram -> Charges]
  /\ mailbox \subseteq Telegram
  /\ bot \in Bots
  /\ poll.at \in {"idle", "poll", "reconcile"} /\ DOMAIN poll.answers \subseteq Crypto
  /\ \A o \in DOMAIN poll.answers :
       poll.answers[o] \in IF poll.at = "poll" THEN InvoiceStates ELSE [Invoices -> InvoiceStates]
  /\ cancel \subseteq Crypto \X Invoices
  /\ refund \in [Refunders -> Refunds]
  /\ revoked \subseteq Orders /\ uses \in Nat /\ crowded \in BOOLEAN /\ faults \in Nat

(* The client's quota and totals are those of its orders: no confirmation,  *)
(* recovery or refund that was repeated, raced or failed half-way counted   *)
(* twice or not at all.  The totals are the units of usage that the kept    *)
(* orders folded, one by one.                                               *)
BalanceMatchesOrders ==
  LET kept == {o \in Orders : order[o].status \in Granted \union {"refunded"}} \ revoked
      folded == UNION {{o} \X (1 .. order[o].window) : o \in kept}
  IN client.volume = BaseVolume + Cardinality(kept) /\ client.total = Cardinality(folded)

(* Nothing is granted without money, though the poll acts on answers that   *)
(* were given before the row changed.                                       *)
GrantIsPaidFor ==
  \A o \in Orders : order[o].status \in Granted \union {"refunded"} =>
    IF o \in Telegram THEN charge[o] \in {"charged", "returned"}
    ELSE order[o].ref # None /\ invoice[o][order[o].ref] = "paid"

(* A stars order is refunded only when the money was returned, and returned *)
(* money is never forgotten: the intent stays until the refund is recorded, *)
(* whoever takes over the claim.                                            *)
RefundReturnsMoney ==
  \A o \in Stars :
    /\ order[o].status = "refunded" => charge[o] = "returned"
    /\ charge[o] = "returned" => order[o].status \in {"refund_pending", "refunded"}

(* The rows implement the ledger. *)
Purchase(o) ==
  CASE order[o].status \in Granted -> "granted"
    [] order[o].status = "refunded" -> "returned"
    [] order[o].status \in {"failed", "expired", "manual_review"} -> "closed"
    [] OTHER -> "open"

Ledger == INSTANCE PaymentLedger
  WITH Purchases <- Orders, Opening <- BaseVolume,
       purchase <- [o \in Orders |-> Purchase(o)], balance <- client.volume

(* Concurrent confirmations, polls, recoveries and refunds together grant a *)
(* purchase at most once and take it back at most once.                     *)
LedgerSpec == Ledger!Spec

(* An invoice that is paid at CryptoBot leads to the grant or to a manual   *)
(* review, though its reference was lost, its answer was late or its order  *)
(* was past the grace; it never ends as an expired order.  Only an order    *)
(* whose reference was lost may wait for ever, if the account has grown     *)
(* past the 20 pages that are searched for it (cryptobot_recovery.go:100).  *)
PaidInvoiceSettles ==
  \A o \in Crypto : (\E i \in Invoices : invoice[o][i] = "paid")
    ~> \/ order[o].status \in Granted \union {"refunded", "manual_review"}
       \/ crowded /\ o \in ReconcileWork
=============================================================================
