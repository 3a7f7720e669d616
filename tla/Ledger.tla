-------------------------------- MODULE Ledger --------------------------------
(***************************************************************************)
(* The money books: driver wallets and recharges (wallet.service.ts),      *)
(* cooperative accounts and settlements (accounting.service.ts), and the   *)
(* transaction of completeTrip (trips.service.ts) that posts to both.      *)
(*                                                                         *)
(* Amounts are integer cents.  Each book is the table of its entries in    *)
(* the order they were committed.  As in Trips, a call in flight is a slot *)
(* of req that remembers what it has read; FOR UPDATE on a wallet or an    *)
(* account is held from the locking read to the commit.                    *)
(***************************************************************************)
EXTENDS Integers, Sequences, FiniteSets, Functions

CONSTANTS
  Earners, Coops, Trips,
  Recharges, Settlements,   \* ids of rows not inserted yet
  Reqs,                     \* slots for calls in flight
  Nil,                      \* SQL NULL
  Fees, Amounts,            \* commissions and recharge amounts, in cents
  Rates,                    \* values of the platform's share, in percent
  MaxRetries,               \* transaction retries after a deadlock (6 in the code)
  MaxFaults                 \* bound on process crashes and failed statements

LedgerSteps == {"idle", "upload", "confirm", "credit", "reject",
          "complete", "share", "account", "commit",
          "sum", "insert", "close", "debit", "cancel"}
EntryKinds == {"recharge", "commission", "settlement"}

ASSUME NilAssumption ==
  Nil \notin Earners \cup Coops \cup Trips \cup Recharges \cup Settlements
ASSUME MoneyAssumption ==
  /\ Fees \subseteq Nat /\ Amounts \subseteq Nat \ {0}
  /\ Rates \subseteq 0..100
  /\ MaxRetries \in Nat /\ MaxFaults \in Nat

VARIABLES
  trip,        \* trips under way: who drives, for which cooperative, how it is paid
  recharge,    \* recharges table; status "none" is an id not inserted yet
  settlement,  \* cooperative_settlements table
  balance,     \* driver_wallets.balance
  book,        \* wallet_transactions of a driver
  coopAccount, \* cooperative_accounts: gross_balance, platform_due, net_balance
  coopBook,    \* coop_account_txs of a cooperative
  rate,        \* system_config: the platform's share of a commission
  req,         \* calls in flight
  faults       \* crashes and failed statements so far

walletTables == <<recharge, balance, book>>
coopTables == <<settlement, coopAccount, coopBook, rate>>
ledgerVars == <<trip, walletTables, coopTables, req, faults>>

-----------------------------------------------------------------------------
(* Rows and calls *)

TripRow == [status : {"in_progress", "completed"}, driver : Earners,
            coop : Coops \cup {Nil}, cash : BOOLEAN]
RechargeRow == [status : {"none", "pending", "confirmed", "rejected"},
                driver : Earners \cup {Nil}, amount : Nat]
SettlementRow == [status : {"none", "pending", "confirmed", "cancelled"},
                  coop : Coops \cup {Nil}, gross : Nat, fee : Int]
Account == [gross : Int, due : Int, net : Int]
Entry == [kind : EntryKinds, ref : Trips \cup Recharges \cup Settlements,
          amount : Int, before : Int, after : Int]
Call == [op : LedgerSteps, ref : Trips \cup Recharges \cup Settlements \cup {Nil},
         driver : Earners \cup {Nil}, coop : Coops \cup {Nil},
         amount : Nat, cut : Int, seen : Int, acct : Account, attempt : Nat]

NoRecharge == [status |-> "none", driver |-> Nil, amount |-> 0]
NoSettlement == [status |-> "none", coop |-> Nil, gross |-> 0, fee |-> 0]
EmptyAccount == [gross |-> 0, due |-> 0, net |-> 0]
Idle == [op |-> "idle", ref |-> Nil, driver |-> Nil, coop |-> Nil, amount |-> 0,
         cut |-> 0, seen |-> 0, acct |-> EmptyAccount, attempt |-> 0]


Begin(r, call) == req[r] = Idle /\ req' = [req EXCEPT ![r] = call]
Advance(r, op) == req' = [req EXCEPT ![r].op = op]
End(r) == req' = [req EXCEPT ![r] = Idle]

\* An id nobody has used and no call is about to use.
Fresh(id) == \A r \in Reqs : req[r].ref # id

\* toFixed(2) of a percentage: to the nearest cent.
Percent(amount, p) == (amount * p + 50) \div 100

Floor0(n) == IF n >= 0 THEN n ELSE 0

\* Mutant: the wallet is read without FOR UPDATE.
WalletNeverLocked(d) == FALSE

(* A transaction holds FOR UPDATE on the driver's wallet. *)
WalletLocked(d) ==
  \E r \in Reqs : /\ req[r].op \in {"credit", "share", "account", "commit"}
                  /\ req[r].driver = d

\* Mutant: the account is read without FOR UPDATE.
AccountNeverLocked(c) == FALSE

(* A transaction holds FOR UPDATE on the cooperative's account. *)
AccountLocked(c) ==
  \E r \in Reqs : req[r].op \in {"commit", "debit"} /\ req[r].coop = c

(* INSERT IGNORE found the row there and keeps a shared lock on it. *)
AccountShared(r, c) ==
  \E q \in Reqs \ {r} : req[q].op = "account" /\ req[q].coop = c

LedgerInit ==
  /\ trip \in [Trips -> {row \in TripRow : row.status = "in_progress"}]
  /\ recharge = [x \in Recharges |-> NoRecharge]
  /\ settlement = [s \in Settlements |-> NoSettlement]
  /\ balance = [d \in Earners |-> 0]
  /\ book = [d \in Earners |-> <<>>]
  /\ coopAccount = [c \in Coops |-> EmptyAccount]
  /\ coopBook = [c \in Coops |-> <<>>]
  /\ rate \in Rates
  /\ req = [r \in Reqs |-> Idle]
  /\ faults = 0

-----------------------------------------------------------------------------
(* Recharges *)

HasPending(d) ==
  \E x \in Recharges : recharge[x].driver = d /\ recharge[x].status = "pending"

(* The check comes before the upload of the proof, the insert after it. *)
RequestRecharge(r, x, d) ==
  /\ recharge[x].status = "none" /\ Fresh(x)
  /\ ~HasPending(d)
  /\ \E a \in Amounts :
       Begin(r, [Idle EXCEPT !.op = "upload", !.ref = x, !.driver = d, !.amount = a])
  /\ UNCHANGED <<trip, walletTables, coopTables, faults>>

InsertRecharge(r) ==
  /\ req[r].op = "upload"
  /\ recharge' = [recharge EXCEPT ![req[r].ref] =
                    [status |-> "pending", driver |-> req[r].driver,
                     amount |-> req[r].amount]]
  /\ End(r)
  /\ UNCHANGED <<trip, balance, book, coopTables, faults>>

ConfirmRecharge(r, x) ==
  /\ recharge[x].status = "pending"
  /\ Begin(r, [Idle EXCEPT !.op = "confirm", !.ref = x, !.amount = recharge[x].amount,
                           !.driver = recharge[x].driver])
  /\ UNCHANGED <<trip, walletTables, coopTables, faults>>

LockForCredit(r) ==
  /\ req[r].op = "confirm"
  /\ ~WalletLocked(req[r].driver)
  /\ req' = [req EXCEPT ![r].op = "credit", ![r].seen = balance[req[r].driver]]
  /\ UNCHANGED <<trip, walletTables, coopTables, faults>>

\* The entry and the balance a call writes: it computes with what it has seen.
PostEntry(r, kind, change) ==
  LET d == req[r].driver
      after == req[r].seen + change IN
  /\ balance' = [balance EXCEPT ![d] = after]
  /\ book' = [book EXCEPT ![d] =
                Append(@, [kind |-> kind, ref |-> req[r].ref, amount |-> req[r].amount,
                           before |-> req[r].seen, after |-> after])]

\* Mutant: the recharge row is left as it was.
CreditCommitUnmarked(r) ==
  /\ req[r].op = "credit"
  /\ PostEntry(r, "recharge", req[r].amount)
  /\ End(r)
  /\ UNCHANGED <<trip, recharge, coopTables, faults>>

CreditCommit(r) ==
  /\ req[r].op = "credit"
  /\ PostEntry(r, "recharge", req[r].amount)
  /\ recharge' = [recharge EXCEPT ![req[r].ref].status = "confirmed"]
  /\ End(r)
  /\ UNCHANGED <<trip, coopTables, faults>>

RejectRecharge(r, x) ==
  /\ recharge[x].status = "pending"
  /\ Begin(r, [Idle EXCEPT !.op = "reject", !.ref = x])
  /\ UNCHANGED <<trip, walletTables, coopTables, faults>>

RejectRechargeWrite(r) ==
  /\ req[r].op = "reject"
  /\ recharge' = [recharge EXCEPT ![req[r].ref].status = "rejected"]
  /\ End(r)
  /\ UNCHANGED <<trip, balance, book, coopTables, faults>>

-----------------------------------------------------------------------------
(* completeTrip: commission on the wallet, if the passenger paid cash, and on
   the cooperative's account, if the trip has one, in one transaction. *)

CompleteTrip(r, t) ==
  /\ trip[t].status = "in_progress"
  /\ \E fee \in Fees :
       Begin(r, [Idle EXCEPT !.op = "complete", !.ref = t, !.amount = fee,
                             !.driver = IF trip[t].cash THEN trip[t].driver ELSE Nil,
                             !.coop = trip[t].coop])
  /\ UNCHANGED <<trip, walletTables, coopTables, faults>>

(* deductCommission locks and reads the wallet. *)
DeductCommission(r) ==
  LET d == req[r].driver IN
  /\ req[r].op = "complete"
  /\ d # Nil => ~WalletLocked(d)
  /\ req' = [req EXCEPT ![r].op = IF req[r].coop = Nil THEN "commit" ELSE "share",
                        ![r].seen = IF d = Nil THEN 0 ELSE balance[d]]
  /\ UNCHANGED <<trip, walletTables, coopTables, faults>>

(* creditCoopCommission: INSERT IGNORE, then the locking read of the account
   and the platform's share at that moment. *)
InsertIgnore(r) ==
  /\ req[r].op = "share"
  /\ ~AccountLocked(req[r].coop)
  /\ Advance(r, "account")
  /\ UNCHANGED <<trip, walletTables, coopTables, faults>>

CreditCoopCommission(r) ==
  LET c == req[r].coop IN
  /\ req[r].op = "account"
  /\ ~AccountLocked(c) /\ ~AccountShared(r, c)
  /\ req' = [req EXCEPT ![r].op = "commit", ![r].acct = coopAccount[c],
                        ![r].cut = Percent(req[r].amount, rate)]
  /\ UNCHANGED <<trip, walletTables, coopTables, faults>>

\* The entry and the account a call writes: it computes with what it has seen.
PostCoop(r, kind, amount, after) ==
  LET c == req[r].coop IN
  /\ coopAccount' = [coopAccount EXCEPT ![c] = after]
  /\ coopBook' = [coopBook EXCEPT ![c] =
                    Append(@, [kind |-> kind, ref |-> req[r].ref, amount |-> amount,
                               before |-> req[r].acct.gross, after |-> after.gross])]

CompleteCommit(r) ==
  LET q == req[r] IN
  /\ q.op = "commit"
  /\ trip' = [trip EXCEPT ![q.ref].status = "completed"]
  /\ IF q.driver = Nil THEN UNCHANGED <<balance, book>>
                       ELSE PostEntry(r, "commission", -q.amount)
  /\ IF q.coop = Nil THEN UNCHANGED <<coopAccount, coopBook>>
     ELSE PostCoop(r, "commission", q.amount,
                   [gross |-> q.acct.gross + q.amount, due |-> q.acct.due + q.cut,
                    net |-> q.acct.net + (q.amount - q.cut)])
  /\ End(r)
  /\ UNCHANGED <<recharge, settlement, rate, faults>>

\* Mutant: the victim's retry books the commission on the wallet only.
AccountDeadlockSwallowed(r) ==
  /\ req[r].op = "account"
  /\ \E q \in Reqs \ {r} : req[q].coop = req[r].coop /\ req[q].op = "account"
  /\ req' = [req EXCEPT ![r].op = "commit", ![r].coop = Nil]
  /\ UNCHANGED <<trip, walletTables, coopTables, faults>>

(* Two calls want the account and one of them shares it already: InnoDB rolls
   one back.  completeTrip runs its transaction again, without the check that
   preceded it; confirmSettlement fails. *)
AccountDeadlock(r) ==
  /\ req[r].op \in {"account", "close"}
  /\ \E q \in Reqs \ {r} : /\ req[q].coop = req[r].coop
                           /\ req[q].op \in {"account", "close"}
                           /\ "account" \in {req[q].op, req[r].op}
  /\ IF req[r].op = "account" /\ req[r].attempt < MaxRetries
     THEN req' = [req EXCEPT ![r].op = "complete", ![r].seen = 0, ![r].attempt = @ + 1]
     ELSE End(r)
  /\ UNCHANGED <<trip, walletTables, coopTables, faults>>

-----------------------------------------------------------------------------
(* Settlements *)

CreateSettlement(r, s, c) ==
  /\ settlement[s].status = "none" /\ Fresh(s)
  /\ \A u \in Settlements : settlement[u].coop = c => settlement[u].status # "pending"
  /\ Begin(r, [Idle EXCEPT !.op = "sum", !.ref = s, !.coop = c])
  /\ UNCHANGED <<trip, walletTables, coopTables, faults>>

(* The commissions of any period of the book, with the share of the moment. *)
SumPeriod(r) ==
  LET entries == coopBook[req[r].coop]
      Gross(from, to) ==
        SumFunctionOnSet([i \in DOMAIN entries |-> entries[i].amount],
                         {i \in from..to : entries[i].kind = "commission"}) IN
  /\ req[r].op = "sum"
  /\ \/ \E from, to \in DOMAIN entries :
          LET gross == Gross(from, to) IN
          /\ gross \in Nat \ {0}
          /\ req' = [req EXCEPT ![r].op = "insert", ![r].amount = gross,
                                ![r].cut = Percent(gross, rate)]
     \/ End(r)
  /\ UNCHANGED <<trip, walletTables, coopTables, faults>>

InsertSettlement(r) ==
  /\ req[r].op = "insert"
  /\ settlement' = [settlement EXCEPT ![req[r].ref] =
                      [status |-> "pending", coop |-> req[r].coop,
                       gross |-> req[r].amount, fee |-> req[r].cut]]
  /\ End(r)
  /\ UNCHANGED <<trip, walletTables, coopAccount, coopBook, rate, faults>>

ConfirmSettlement(r, s) ==
  /\ settlement[s].status = "pending"
  /\ Begin(r, [Idle EXCEPT !.op = "close", !.ref = s, !.coop = settlement[s].coop,
                           !.amount = settlement[s].gross, !.cut = settlement[s].fee])
  /\ UNCHANGED <<trip, walletTables, coopTables, faults>>

LockForDebit(r) ==
  LET c == req[r].coop IN
  /\ req[r].op = "close"
  /\ ~AccountLocked(c) /\ ~AccountShared(r, c)
  /\ req' = [req EXCEPT ![r].op = "debit", ![r].acct = coopAccount[c]]
  /\ UNCHANGED <<trip, walletTables, coopTables, faults>>

DebitCommit(r) ==
  LET q == req[r]
      net == q.amount - q.cut IN
  /\ q.op = "debit"
  /\ PostCoop(r, "settlement", net,
              [gross |-> Floor0(q.acct.gross - q.amount), due |-> Floor0(q.acct.due - q.cut),
               net |-> Floor0(q.acct.net - net)])
  /\ settlement' = [settlement EXCEPT ![q.ref].status = "confirmed"]
  /\ End(r)
  /\ UNCHANGED <<trip, walletTables, rate, faults>>

CancelSettlement(r, s) ==
  /\ settlement[s].status = "pending"
  /\ Begin(r, [Idle EXCEPT !.op = "cancel", !.ref = s])
  /\ UNCHANGED <<trip, walletTables, coopTables, faults>>

CancelSettlementWrite(r) ==
  /\ req[r].op = "cancel"
  /\ settlement' = [settlement EXCEPT ![req[r].ref].status = "cancelled"]
  /\ End(r)
  /\ UNCHANGED <<trip, walletTables, coopAccount, coopBook, rate, faults>>

SetPlatformFeeRate(p) ==
  /\ rate # p
  /\ rate' = p
  /\ UNCHANGED <<trip, walletTables, settlement, coopAccount, coopBook, req, faults>>

-----------------------------------------------------------------------------
(* Failures *)

(* A statement fails: its transaction, if any, is rolled back. *)
Fail(r) ==
  /\ req[r] # Idle /\ faults < MaxFaults
  /\ faults' = faults + 1
  /\ End(r)
  /\ UNCHANGED <<trip, walletTables, coopTables>>

(* The process stops: calls in flight and open transactions are gone. *)
Crash ==
  /\ faults < MaxFaults
  /\ faults' = faults + 1
  /\ req' = [r \in Reqs |-> Idle]
  /\ UNCHANGED <<trip, walletTables, coopTables>>

RechargeSteps(r) ==
  \/ \E x \in Recharges : \/ ConfirmRecharge(r, x) \/ RejectRecharge(r, x)
                          \/ \E d \in Earners : RequestRecharge(r, x, d)
  \/ InsertRecharge(r) \/ LockForCredit(r) \/ CreditCommit(r) \/ RejectRechargeWrite(r)

CompletionSteps(r) ==
  \/ \E t \in Trips : CompleteTrip(r, t)
  \/ DeductCommission(r) \/ InsertIgnore(r) \/ CreditCoopCommission(r)
  \/ CompleteCommit(r) \/ AccountDeadlock(r)

SettlementSteps(r) ==
  \/ \E s \in Settlements : \/ ConfirmSettlement(r, s) \/ CancelSettlement(r, s)
                            \/ \E c \in Coops : CreateSettlement(r, s, c)
  \/ SumPeriod(r) \/ InsertSettlement(r) \/ LockForDebit(r) \/ DebitCommit(r)
  \/ CancelSettlementWrite(r)

LedgerNext ==
  \/ \E r \in Reqs : RechargeSteps(r) \/ CompletionSteps(r) \/ SettlementSteps(r) \/ Fail(r)
  \/ \E p \in Rates : SetPlatformFeeRate(p)
  \/ Crash

LedgerSpec == LedgerInit /\ [][LedgerNext]_ledgerVars

-----------------------------------------------------------------------------
(* Safety *)

(* The tables and the calls in flight keep the types of their columns. *)
LedgerTypeOK ==
  /\ trip \in [Trips -> TripRow]
  /\ recharge \in [Recharges -> RechargeRow]
  /\ settlement \in [Settlements -> SettlementRow]
  /\ balance \in [Earners -> Int]
  /\ book \in [Earners -> Seq(Entry)]
  /\ coopAccount \in [Coops -> Account]
  /\ coopBook \in [Coops -> Seq(Entry)]
  /\ rate \in Rates
  /\ req \in [Reqs -> Call]
  /\ faults \in 0..MaxFaults

(* Each entry starts where the one before it ended, the first from zero and
   the last at the balance of today. *)
Chained(entries, today) ==
  LET n == Len(entries) IN
  /\ n = 0 => today = 0
  /\ n > 0 => entries[1].before = 0 /\ entries[n].after = today
  /\ \A i \in 1..n : i > 1 => entries[i].before = entries[i-1].after

(* The history a driver sees adds up to his balance, whatever recharges and
   commissions were booked at the same time: none is lost, none is posted
   twice over the same before-value. *)
WalletBooks ==
  \A d \in Earners :
    /\ Chained(book[d], balance[d])
    /\ \A i \in DOMAIN book[d] :
         LET e == book[d][i] IN
         e.after = IF e.kind = "recharge" THEN e.before + e.amount ELSE e.before - e.amount

(* The cooperative's statement adds up to its gross balance, with trips of the
   cooperative completing while a settlement of it is confirmed. *)
CoopBooks ==
  \A c \in Coops :
    /\ Chained(coopBook[c], coopAccount[c].gross)
    /\ \A i \in DOMAIN coopBook[c] :
         LET e == coopBook[c][i] IN
         e.kind = "commission" => e.after = e.before + e.amount

(* How often the trip, recharge or settlement was posted to a book. *)
Postings(entries, kind, id) ==
  Cardinality({i \in DOMAIN entries : entries[i].kind = kind /\ entries[i].ref = id})

(* The commission of a trip is on the driver's book and on the cooperative's
   or on neither, and a trip is completed just when it was booked: the
   transaction, its retries and the faults never leave half of it. *)
CommissionOnBothBooks ==
  \A t \in Trips :
    LET row == trip[t]
        paid == IF row.cash THEN Postings(book[row.driver], "commission", t) ELSE 0
        shared == IF row.coop # Nil THEN Postings(coopBook[row.coop], "commission", t) ELSE 0 IN
    /\ row.cash /\ row.coop # Nil => paid = shared
    /\ row.status = "in_progress" => paid = 0 /\ shared = 0
    /\ row.status = "completed" /\ row.cash => paid > 0
    /\ row.status = "completed" /\ row.coop # Nil => shared > 0

(* A recharge or settlement that reads as confirmed was posted, and one that
   still waits for a decision was not. *)
PostedWhenConfirmed ==
  /\ \A x \in Recharges :
       LET times == Postings(book[recharge[x].driver], "recharge", x) IN
       /\ recharge[x].status = "confirmed" => times > 0
       /\ recharge[x].status = "pending" => times = 0
  /\ \A s \in Settlements :
       LET times == Postings(coopBook[settlement[s].coop], "settlement", s) IN
       /\ settlement[s].status = "confirmed" => times > 0
       /\ settlement[s].status = "pending" => times = 0

-----------------------------------------------------------------------------
(* Why the books close: an inductive invariant *)

\* Rows that wait for a decision have their owner.
RowsOK ==
  /\ \A x \in Recharges : recharge[x].status = "pending" => recharge[x].driver \in Earners
  /\ \A s \in Settlements : settlement[s].status = "pending" => settlement[s].coop \in Coops

HoldsWallet(r) == req[r].op \in {"credit", "share", "account", "commit"}
HoldsAccount(r) == req[r].op \in {"commit", "debit"}

\* What a call in flight knows about the rows it works on.
CallOK(r) ==
  LET q == req[r] IN
  /\ q.op \in {"upload", "confirm", "credit"} => q.ref \in Recharges /\ q.driver \in Earners
  /\ q.op = "reject" => q.ref \in Recharges
  /\ q.op \in {"complete", "share", "account", "commit"} => q.ref \in Trips
  /\ q.op \in {"sum", "insert", "close", "debit"} => q.ref \in Settlements
  /\ q.op = "cancel" => q.ref \in Settlements
  /\ q.op \in {"share", "account", "sum", "insert", "close", "debit"} => q.coop \in Coops

\* What was read under a lock is still so.
SeenOK(r) ==
  /\ HoldsWallet(r) /\ req[r].driver # Nil => req[r].seen = balance[req[r].driver]
  /\ HoldsAccount(r) /\ req[r].coop # Nil => req[r].acct = coopAccount[req[r].coop]

\* FOR UPDATE excludes.
OneHolder ==
  \A r, s \in Reqs :
    \/ r = s
    \/ /\ HoldsWallet(r) /\ HoldsWallet(s) /\ req[r].driver # Nil =>
            req[r].driver # req[s].driver
       /\ HoldsAccount(r) /\ HoldsAccount(s) /\ req[r].coop # Nil =>
            req[r].coop # req[s].coop

CallsOK == \A r \in Reqs : CallOK(r)
AllSeenOK == \A r \in Reqs : SeenOK(r)

(* What the locks keep while the calls interleave. *)
IInv ==
  /\ LedgerTypeOK /\ RowsOK /\ CallsOK /\ AllSeenOK /\ OneHolder
  /\ WalletBooks /\ CoopBooks
=============================================================================
