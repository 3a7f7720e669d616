--------------------------------- MODULE Cards ---------------------------------
(***************************************************************************)
(* Card payments: the payment link, its confirmation, the charge to a      *)
(* saved card (payphone.service.ts) and what the platform owes the driver  *)
(* for them until it pays him out (wallet.service.ts, card_balance).       *)
(*                                                                         *)
(* Money is in cents.  Nothing here but the payout runs in a transaction:  *)
(* each step is one statement or one call to the gateway, and a call in    *)
(* flight is a slot of cardReq.  The gateway may charge and its answer be  *)
(* lost: axios throws and the call ends there, as it does when a statement *)
(* fails or the process stops.                                             *)
(***************************************************************************)
EXTENDS Integers, Sequences, SequencesExt

CONSTANTS
  Payees,        \* drivers
  CardTrips,     \* trips paid by card
  PayeeOf,       \* the driver of each trip
  Fare,          \* its fare and commission, known when it is completed
  Commission,
  CardReqs,      \* slots for calls in flight; one slot means no concurrency
  MaxCharges,    \* bound: charges the gateway makes for one trip
  MaxPayouts     \* bound: payouts to one driver

ASSUME CardAssumption ==
  /\ PayeeOf \in [CardTrips -> Payees]
  /\ Fare \in [CardTrips -> Nat \ {0}]
  /\ Commission \in [CardTrips -> Nat]
  /\ \A t \in CardTrips : Commission[t] <= Fare[t]
  /\ MaxCharges \in Nat /\ MaxPayouts \in Nat

VARIABLES
  payment,      \* trips: completed or not, payment_status, card_charged_amount
  link,         \* the gateway's page for the trip
  paid,         \* how the payments made on the trip's pages came out, each with its id
  charges,      \* charges the gateway made for the trip
  cardToken,    \* the client (one client) has a card saved
  cardBalance,  \* driver_wallets.card_balance
  cardBook,     \* wallet_transactions of kind CARD_EARNING and CARD_PAYOUT
  cardReq,      \* calls in flight
  cut           \* settlements that ended after the mark, before the balance was
                \* written ("unpaid") or between it and its entry ("unbooked")

gatewayVars == <<link, paid, charges, cardToken>>
payeeVars == <<cardBalance, cardBook, cut>>
cardVars == <<payment, gatewayVars, payeeVars, cardReq>>

Outcomes == {"approved", "declined"}

PaymentRow == [priced : BOOLEAN, status : {"pending", "completed", "failed"}, charged : Nat]
CardEntry == [kind : {"earning"}, trip : CardTrips, amount : Nat, before : Int, after : Int]
               \cup [kind : {"payout"}, amount : Int, before : Int, after : Int]
CardCall == {[op |-> "idle"]}
  \cup [op : {"link", "charge", "refused", "settle", "credit"}, trip : CardTrips]
  \cup [op : {"confirm"}, trip : CardTrips, paidFor : CardTrips, outcome : Outcomes]
  \cup [op : {"balance", "entry"}, trip : CardTrips, before : Int]

CardBegin(r, call) == cardReq[r].op = "idle" /\ cardReq' = [cardReq EXCEPT ![r] = call]
CardStep(r, call) == cardReq' = [cardReq EXCEPT ![r] = call]
CardEnd(r) == CardStep(r, [op |-> "idle"])
Share(t) == Fare[t] - Commission[t]

CardInit ==
  /\ payment = [t \in CardTrips |-> [priced |-> FALSE, status |-> "pending", charged |-> 0]]
  /\ link = [t \in CardTrips |-> "none"] /\ paid = [t \in CardTrips |-> {}]
  /\ charges = [t \in CardTrips |-> 0]
  /\ cardToken = FALSE
  /\ cardBalance = [d \in Payees |-> 0]
  /\ cardBook = [d \in Payees |-> <<>>]
  /\ cardReq = [r \in CardReqs |-> [op |-> "idle"]]
  /\ cut = [t \in CardTrips |-> "no"]

-----------------------------------------------------------------------------
(* Charging *)

\* Mutant: the fee is taken of the fare instead of the total.
CardAmountAdditive(fare) == (fare * 10575) \div 10000

(* computeCardAmounts: what to charge for the fare to be left after the
   gateway keeps 5.75 % of the total, rounded up to the cent. *)
CardAmount(fare) == (fare * 10000 + 9424) \div 9425

(* The gateway pays the platform the charge less its 5.75 %, to the cent. *)
Settled(amount) == (amount * 9425) \div 10000

\* completeTrip, as far as a card trip goes: the fare is final.
CompleteRide(r, t) ==
  /\ cardReq[r].op = "idle"
  /\ ~payment[t].priced
  /\ payment' = [payment EXCEPT ![t].priced = TRUE]
  /\ UNCHANGED <<gatewayVars, payeeVars, cardReq>>

StoreAmounts(t) == payment' = [payment EXCEPT ![t].charged = CardAmount(Fare[t])]

EstimateCardCharge(r, t) ==
  /\ cardReq[r].op = "idle"
  /\ payment[t].priced
  /\ StoreAmounts(t)
  /\ UNCHANGED <<gatewayVars, payeeVars, cardReq>>

CreateLink(r, t) ==
  /\ payment[t].status # "completed"
  /\ payment[t].priced
  /\ StoreAmounts(t)
  /\ CardBegin(r, [op |-> "link", trip |-> t])
  /\ UNCHANGED <<gatewayVars, payeeVars>>

\* The new link replaces the old one in the client's app.
LinkOpened(r) ==
  /\ cardReq[r].op = "link"
  /\ link' = [link EXCEPT ![cardReq[r].trip] = "open"]
  /\ CardEnd(r)
  /\ UNCHANGED <<payment, paid, charges, cardToken, payeeVars>>

\* A page serves for one payment.
PayLink(t) ==
  /\ link[t] = "open"
  /\ link' = [link EXCEPT ![t] = "none"]
  /\ \/ /\ charges[t] < MaxCharges
        /\ paid' = [paid EXCEPT ![t] = @ \cup {"approved"}]
        /\ charges' = [charges EXCEPT ![t] = @ + 1]
     \/ /\ paid' = [paid EXCEPT ![t] = @ \cup {"declined"}]
        /\ UNCHANGED charges
  /\ UNCHANGED <<payment, cardToken, payeeVars, cardReq>>

\* Mutant: a payment already completed is confirmed again.
ConfirmPaymentAgain(r, t, p, outcome) ==
  /\ outcome \in paid[p]
  /\ CardBegin(r, [op |-> "confirm", trip |-> t, paidFor |-> p, outcome |-> outcome])
  /\ UNCHANGED <<payment, gatewayVars, payeeVars>>

(* The app returns from a page of the gateway with the payment's id and names the
   trip.  The server does not ask which trip that payment was made for. *)
ConfirmPayment(r, t, p, outcome) ==
  /\ payment[t].status # "completed"
  /\ outcome \in paid[p]
  /\ CardBegin(r, [op |-> "confirm", trip |-> t, paidFor |-> p, outcome |-> outcome])
  /\ UNCHANGED <<payment, gatewayVars, payeeVars>>

(* The gateway tells what became of the payment; the card's token is kept
   either way if the app sent one. *)
ConfirmAnswer(r) ==
  LET call == cardReq[r] IN
  /\ call.op = "confirm"
  /\ cardToken' \in {cardToken, TRUE}
  /\ CardStep(r, [op |-> IF call.outcome = "approved" THEN "settle" ELSE "refused",
                  trip |-> call.trip])
  /\ UNCHANGED <<payment, link, paid, charges, payeeVars>>

ChargeWithToken(r, t) ==
  /\ payment[t].status # "completed"
  /\ payment[t].priced
  /\ cardToken
  /\ StoreAmounts(t)
  /\ CardBegin(r, [op |-> "charge", trip |-> t])
  /\ UNCHANGED <<gatewayVars, payeeVars>>

ChargeAnswer(r) ==
  LET t == cardReq[r].trip IN
  /\ cardReq[r].op = "charge"
  /\ \/ /\ charges[t] < MaxCharges
        /\ charges' = [charges EXCEPT ![t] = @ + 1]
        /\ CardStep(r, [op |-> "settle", trip |-> t])
     \/ /\ UNCHANGED charges
        /\ CardStep(r, [op |-> "refused", trip |-> t])
  /\ UNCHANGED <<payment, link, paid, cardToken, payeeVars>>

\* The answer does not come: whatever the gateway did, the call ends.
AnswerLost(r) ==
  /\ cardReq[r].op \in {"link", "confirm", "charge"}
  /\ IF cardReq[r].op = "charge" /\ charges[cardReq[r].trip] < MaxCharges
     THEN charges' \in {charges, [charges EXCEPT ![cardReq[r].trip] = @ + 1]}
     ELSE UNCHANGED charges
  /\ CardEnd(r)
  /\ UNCHANGED <<payment, link, paid, cardToken, payeeVars>>

-----------------------------------------------------------------------------
(* Settling: _settleCardPayment and creditCardEarning, then the payout *)

SettleRefused(r) ==
  /\ cardReq[r].op = "refused"
  /\ payment' = [payment EXCEPT ![cardReq[r].trip].status = "failed"]
  /\ CardEnd(r)
  /\ UNCHANGED <<gatewayVars, payeeVars>>

SettleApproved(r) ==
  /\ cardReq[r].op = "settle"
  /\ payment' = [payment EXCEPT ![cardReq[r].trip].status = "completed"]
  /\ IF Share(cardReq[r].trip) > 0 THEN CardStep(r, [cardReq[r] EXCEPT !.op = "credit"])
                                   ELSE CardEnd(r)
  /\ UNCHANGED <<gatewayVars, payeeVars>>

CreditRead(r) ==
  LET t == cardReq[r].trip IN
  /\ cardReq[r].op = "credit"
  /\ CardStep(r, [op |-> "balance", trip |-> t, before |-> cardBalance[PayeeOf[t]]])
  /\ UNCHANGED <<payment, gatewayVars, payeeVars>>

CreditWrite(r) ==
  LET t == cardReq[r].trip IN
  /\ cardReq[r].op = "balance"
  /\ cardBalance' = [cardBalance EXCEPT ![PayeeOf[t]] = cardReq[r].before + Share(t)]
  /\ CardStep(r, [cardReq[r] EXCEPT !.op = "entry"])
  /\ UNCHANGED <<payment, gatewayVars, cardBook, cut>>

CreditEntry(r) ==
  LET t == cardReq[r].trip
      entry == [kind |-> "earning", trip |-> t, amount |-> Share(t),
                before |-> cardReq[r].before, after |-> cardReq[r].before + Share(t)] IN
  /\ cardReq[r].op = "entry"
  /\ cardBook' = [cardBook EXCEPT ![PayeeOf[t]] = Append(@, entry)]
  /\ CardEnd(r)
  /\ UNCHANGED <<payment, gatewayVars, cardBalance, cut>>

(* The next statement of a settlement fails, the driver has no wallet, or the
   process stops.  Nothing resumes it: once the trip is marked, a retry ends at
   the check of ConfirmPayment. *)
SettlingCut(r) ==
  LET op == cardReq[r].op IN
  /\ op \in {"refused", "settle", "credit", "balance", "entry"}
  /\ cut' = IF op \in {"refused", "settle"} THEN cut
            ELSE [cut EXCEPT ![cardReq[r].trip] = IF op = "entry" THEN "unbooked" ELSE "unpaid"]
  /\ CardEnd(r)
  /\ UNCHANGED <<payment, gatewayVars, cardBalance, cardBook>>

\* The payouts of a book, by their places.
Payouts(book) == {i \in DOMAIN book : book[i].kind = "payout"}

(* payoutCardBalance: one transaction under the lock of the wallet. *)
PayoutCardBalance(r, d) ==
  /\ cardReq[r].op = "idle"
  /\ cardBalance[d] > 0
  /\ Cardinality(Payouts(cardBook[d])) < MaxPayouts
  /\ cardBalance' = [cardBalance EXCEPT ![d] = 0]
  /\ cardBook' = [cardBook EXCEPT ![d] = Append(@,
       [kind |-> "payout", amount |-> cardBalance[d], before |-> cardBalance[d], after |-> 0])]
  /\ UNCHANGED <<payment, gatewayVars, cut, cardReq>>

Settling(r) ==
  \/ SettleRefused(r) \/ SettleApproved(r)
  \/ CreditRead(r) \/ CreditWrite(r) \/ CreditEntry(r) \/ SettlingCut(r)

CardNext ==
  \/ \E r \in CardReqs :
       \/ \E t \in CardTrips : \/ CompleteRide(r, t) \/ EstimateCardCharge(r, t)
                               \/ CreateLink(r, t) \/ ChargeWithToken(r, t)
                               \/ \E p \in CardTrips, outcome \in Outcomes :
                                    ConfirmPayment(r, t, p, outcome)
       \/ LinkOpened(r) \/ ConfirmAnswer(r) \/ ChargeAnswer(r) \/ AnswerLost(r)
       \/ Settling(r)
       \/ \E d \in Payees : PayoutCardBalance(r, d)
  \/ \E t \in CardTrips : PayLink(t)

CardSpec == CardInit /\ [][CardNext]_cardVars

(* The client's app opens the page of one trip and confirms for that trip the
   payment the page came back with; the server relies on it. *)
PaysForItsTrip ==
  \A r \in CardReqs : cardReq[r].op = "confirm" => cardReq[r].paidFor = cardReq[r].trip

ReadCalls == {"balance", "entry"}
CreditCalls == {"credit", "balance", "entry"}
AnswerCalls == {"confirm", "charge", "refused", "settle"}
SettleCalls == AnswerCalls \cup CreditCalls

(* Calls that stay apart: no two settle one trip at once and, from its read of the
   wallet on, a credit meets no other of the same driver. *)
CardApart ==
  /\ \A r, s \in CardReqs :
       /\ cardReq[r].op \in SettleCalls /\ cardReq[s].op \in SettleCalls
       /\ cardReq[r].trip = cardReq[s].trip
       => r = s
  /\ \A r, s \in CardReqs :
       /\ cardReq[r].op \in ReadCalls /\ cardReq[s].op \in ReadCalls
       /\ PayeeOf[cardReq[r].trip] = PayeeOf[cardReq[s].trip]
       => r = s

\* Nor a payout of that driver, which is one step long.
PayoutApart ==
  \A r, s \in CardReqs, d \in Payees :
    PayoutCardBalance(r, d) /\ cardReq[s].op \in ReadCalls => PayeeOf[cardReq[s].trip] # d

CardApartSpec == CardInit /\ [][CardNext /\ CardApart' /\ PayoutApart]_cardVars

-----------------------------------------------------------------------------
(* Properties *)

(* Rows, wallets and calls stay within their columns. *)
CardTypeOK ==
  /\ payment \in [CardTrips -> PaymentRow]
  /\ link \in [CardTrips -> {"none", "open"}] /\ paid \in [CardTrips -> SUBSET Outcomes]
  /\ charges \in [CardTrips -> Nat]
  /\ cardToken \in BOOLEAN
  /\ cardBalance \in [Payees -> Int]
  /\ cardBook \in [Payees -> Seq(CardEntry)]
  /\ cardReq \in [CardReqs -> CardCall]
  /\ cut \in [CardTrips -> {"no", "unpaid", "unbooked"}]

\* The entries of a book that credit a trip, by their places.
Credits(book, t) == {i \in DOMAIN book : book[i].kind = "earning" /\ book[i].trip = t}

Earnings(t) == Credits(cardBook[PayeeOf[t]], t)

\* The balance that the first i entries of a book leave.
Carried(book, i) == IF i = 0 THEN 0 ELSE book[i].after

EntryAdds(e) == e.after = IF e.kind = "earning" THEN e.before + e.amount ELSE e.before - e.amount

EntriesChain(book) == \A i \in DOMAIN book : book[i].before = Carried(book, i - 1) /\ EntryAdds(book[i])

(* When no credit is in flight, a driver's book names every trip whose payment
   completed, once, and no other: a repeated confirmation must not credit him
   again (the comment at confirmPayment), nor a later refusal unmark what he was
   credited for.  A settlement cut short after the mark is never made up for.  The
   book carries every balance into the next entry and ends at his card balance,
   unless a cut parted a balance from its entry. *)
CardBooks ==
  (\A r \in CardReqs : cardReq[r].op \notin CreditCalls) =>
    /\ \A d \in Payees :
         (\A t \in CardTrips : PayeeOf[t] = d => cut[t] # "unbooked") =>
           EntriesChain(cardBook[d]) /\ cardBalance[d] = Carried(cardBook[d], Len(cardBook[d]))
    /\ \A t \in CardTrips :
         Share(t) > 0 =>
           IF payment[t].status = "completed" /\ cut[t] = "no"
           THEN \E i \in Earnings(t) : Earnings(t) = {i}
           ELSE Earnings(t) = {}

\* What each driver was paid out and what he is still owed.
PaidOut(book) == SumFunctionOnSet([i \in DOMAIN book |-> book[i].amount], Payouts(book))
PaidOrOwed == [d \in Payees |-> cardBalance[d] + PaidOut(cardBook[d])]

(* Whatever the drivers were paid or are owed for card trips, and the
   platform's own commission on them, has come in from the gateway, cut short or
   not, as long as payments are confirmed for the trips they were made for. *)
PlatformCovered ==
  LET credited == {t \in CardTrips : Earnings(t) # {}}
      received == [t \in CardTrips |-> charges[t] * Settled(payment[t].charged)]
  IN  SumFunctionOnSet(PaidOrOwed, Payees) + SumFunctionOnSet(Commission, credited)
        <= SumFunctionOnSet(received, CardTrips)
=============================================================================
