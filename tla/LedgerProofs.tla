----------------------------- MODULE LedgerProofs -----------------------------
(***************************************************************************)
(* Proofs about Ledger, for any number of drivers, cooperatives, trips,    *)
(* recharges, settlements and calls in flight: the locks keep the books    *)
(* chained, whatever the calls do at the same time.                        *)
(***************************************************************************)
EXTENDS Ledger, FiniteSetTheorems, TLAPS

USE NilAssumption, MoneyAssumption

-----------------------------------------------------------------------------
(* Books *)

(* An entry that starts at today's balance extends the chain to its end. *)
LEMMA ChainGrows ==
  ASSUME NEW entries \in Seq(Entry), NEW today, Chained(entries, today),
         NEW e \in Entry, e.before = today
  PROVE  Chained(Append(entries, e), e.after)
<1> DEFINE longer == Append(entries, e)
           n == Len(entries)
<1>1. n \in Nat /\ Len(longer) = n + 1 /\ longer[n + 1] = e
  OBVIOUS
<1>2. \A i \in 1..n : longer[i] = entries[i]
  OBVIOUS
<1>3. longer[1].before = 0
  <2>1. CASE n = 0
    BY <1>1, <2>1 DEF Chained
  <2>2. CASE n > 0
    BY <1>1, <1>2, <2>2 DEF Chained
  <2>3. QED
    BY <1>1, <2>1, <2>2
<1>4. ASSUME NEW i \in 1..(n + 1), i > 1
      PROVE  longer[i].before = longer[i-1].after
  <2>1. CASE i = n + 1
    <3>1. n > 0 /\ longer[i-1] = entries[n]
      BY <1>1, <1>2, <1>4, <2>1
    <3>2. QED
      BY <1>1, <2>1, <3>1 DEF Chained
  <2>2. CASE i # n + 1
    <3>1. i \in 1..n /\ i - 1 \in 1..n
      BY <1>1, <1>4, <2>2
    <3>2. QED
      BY <1>2, <1>4, <3>1 DEF Chained
  <2>3. QED
    BY <2>1, <2>2
<1>5. QED
  BY <1>1, <1>3, <1>4 DEF Chained

(* What Append leaves at each place. *)
LEMMA AppendPlaces ==
  ASSUME NEW entries \in Seq(Entry), NEW e \in Entry, NEW i \in DOMAIN Append(entries, e)
  PROVE  \/ i \in DOMAIN entries /\ Append(entries, e)[i] = entries[i]
         \/ Append(entries, e)[i] = e
OBVIOUS

-----------------------------------------------------------------------------
(* The invariant *)

(* The initial books are empty. *)
LEMMA InitIInv == LedgerInit => IInv
<1> SUFFICES ASSUME LedgerInit PROVE IInv
  OBVIOUS
<1> USE DEF LedgerInit
<1>1. LedgerTypeOK
  <2>1. trip \in [Trips -> TripRow]
    OBVIOUS
  <2>2. recharge \in [Recharges -> RechargeRow] /\ settlement \in [Settlements -> SettlementRow]
    BY DEF RechargeRow, SettlementRow, NoRecharge, NoSettlement
  <2>3. /\ balance \in [Earners -> Int] /\ book \in [Earners -> Seq(Entry)]
        /\ coopAccount \in [Coops -> Account] /\ coopBook \in [Coops -> Seq(Entry)]
    BY DEF Account, EmptyAccount
  <2>4. rate \in Rates /\ faults \in 0..MaxFaults
    OBVIOUS
  <2>5. req \in [Reqs -> Call]
    BY DEF Call, Idle, LedgerSteps, Account, EmptyAccount
  <2>6. QED
    BY <2>1, <2>2, <2>3, <2>4, <2>5 DEF LedgerTypeOK
<1>2. RowsOK
  BY DEF RowsOK, NoRecharge, NoSettlement
<1>3. CallsOK /\ AllSeenOK /\ OneHolder
  BY DEF CallsOK, CallOK, AllSeenOK, SeenOK, OneHolder, HoldsWallet, HoldsAccount, Idle
<1>4. WalletBooks /\ CoopBooks
  BY DEF WalletBooks, CoopBooks, Chained, EmptyAccount
<1>5. QED
  BY <1>1, <1>2, <1>3, <1>4 DEF IInv

(* A step that leaves the money alone and replaces the call of one slot by one
   that knows what it must know and has locked nothing that is locked. *)
LEMMA CallStep ==
  ASSUME IInv, NEW r \in Reqs, NEW q \in Call,
         req' = [req EXCEPT ![r] = q],
         UNCHANGED <<trip, balance, book, coopAccount, coopBook>>,
         recharge' \in [Recharges -> RechargeRow],
         settlement' \in [Settlements -> SettlementRow],
         RowsOK', rate' \in Rates, faults' \in 0..MaxFaults,
         CallOK(r)', SeenOK(r)',
         \A s \in Reqs \ {r} :
           /\ HoldsWallet(r)' /\ q.driver # Nil /\ HoldsWallet(s) =>
                req[s].driver # q.driver
           /\ HoldsAccount(r)' /\ q.coop # Nil /\ HoldsAccount(s) =>
                req[s].coop # q.coop
  PROVE  IInv'
<1>1. req'[r] = q /\ \A s \in Reqs \ {r} : req'[s] = req[s]
  BY DEF IInv, LedgerTypeOK
<1>2. LedgerTypeOK'
  BY DEF IInv, LedgerTypeOK
<1>3. CallsOK'
  BY <1>1 DEF IInv, CallsOK, CallOK
<1>4. AllSeenOK'
  BY <1>1 DEF IInv, AllSeenOK, SeenOK, HoldsWallet, HoldsAccount
<1>5. OneHolder'
  BY <1>1 DEF IInv, OneHolder, HoldsWallet, HoldsAccount
<1>6. WalletBooks' /\ CoopBooks'
  BY DEF IInv, WalletBooks, CoopBooks
<1>7. QED
  BY <1>2, <1>3, <1>4, <1>5, <1>6 DEF IInv

(* A posting to the wallet of the driver the call holds. *)
LEMMA WalletPost ==
  ASSUME IInv, NEW r \in Reqs, HoldsWallet(r), req[r].driver \in Earners,
         req[r].ref # Nil,
         NEW kind \in EntryKinds,
         PostEntry(r, kind, IF kind = "recharge" THEN req[r].amount ELSE -req[r].amount)
  PROVE  /\ balance' \in [Earners -> Int] /\ book' \in [Earners -> Seq(Entry)]
         /\ WalletBooks'
         /\ \A d \in Earners \ {req[r].driver} : balance'[d] = balance[d]
<1> DEFINE own == req[r].driver
           change == IF kind = "recharge" THEN req[r].amount ELSE -req[r].amount
           e == [kind |-> kind, ref |-> req[r].ref, amount |-> req[r].amount,
                 before |-> req[r].seen, after |-> req[r].seen + change]
<1>1. req[r] \in Call /\ balance \in [Earners -> Int] /\ book \in [Earners -> Seq(Entry)]
  BY DEF IInv, LedgerTypeOK
<1>2. own \in Earners /\ own # Nil
  OBVIOUS
<1>3. req[r].seen = balance[own]
  BY <1>2 DEF IInv, AllSeenOK, SeenOK
<1>4. change \in Int /\ req[r].amount \in Int /\ req[r].seen \in Int
  BY <1>1 DEF Call
<1>5. e \in Entry /\ e.before = balance[own] /\ e.after = balance[own] + change
  BY <1>1, <1>3, <1>4 DEF Call, Entry
<1>6. balance' = [balance EXCEPT ![own] = e.after]
  BY DEF PostEntry
<1>7. book' = [book EXCEPT ![own] = Append(@, e)]
  BY DEF PostEntry
<1>8. balance' \in [Earners -> Int]
  BY <1>1, <1>4, <1>5, <1>6
<1>9. book' \in [Earners -> Seq(Entry)]
  BY <1>1, <1>5, <1>7
<1>10. WalletBooks'
  <2> DEFINE ok(x) == x.after = IF x.kind = "recharge" THEN x.before + x.amount
                                                       ELSE x.before - x.amount
  <2>1. ok(e)
    BY <1>4, <1>5
  <2> SUFFICES ASSUME NEW d \in Earners
               PROVE  /\ Chained(book'[d], balance'[d])
                      /\ \A i \in DOMAIN book'[d] : ok(book'[d][i])
    BY DEF WalletBooks
  <2>2. Chained(book[d], balance[d]) /\ \A i \in DOMAIN book[d] : ok(book[d][i])
    BY DEF IInv, WalletBooks
  <2>3. CASE d # own
    BY <1>1, <1>6, <1>7, <2>2, <2>3
  <2>4. CASE d = own
    <3>1. book'[d] = Append(book[d], e) /\ balance'[d] = e.after
      BY <1>1, <1>6, <1>7, <2>4
    <3>2. Chained(book'[d], balance'[d])
      BY <1>1, <1>5, <2>2, <2>4, <3>1, ChainGrows
    <3>3. ASSUME NEW i \in DOMAIN book'[d] PROVE ok(book'[d][i])
      <4>1. \/ i \in DOMAIN book[d] /\ book'[d][i] = book[d][i]
            \/ book'[d][i] = e
        BY <1>1, <1>5, <3>1, <3>3, AppendPlaces
      <4>2. QED
        BY <2>1, <2>2, <4>1
    <3>4. QED
      BY <3>2, <3>3
  <2>5. QED
    BY <2>3, <2>4
<1>11. QED
  BY <1>1, <1>6, <1>8, <1>9, <1>10

(* A posting to the account of the cooperative the call holds. *)
LEMMA CoopPost ==
  ASSUME IInv, NEW r \in Reqs, HoldsAccount(r), req[r].coop \in Coops,
         req[r].ref # Nil,
         NEW kind \in EntryKinds, NEW amount \in Int, NEW after \in Account,
         kind = "commission" => after.gross = req[r].acct.gross + amount,
         PostCoop(r, kind, amount, after)
  PROVE  /\ coopAccount' \in [Coops -> Account] /\ coopBook' \in [Coops -> Seq(Entry)]
         /\ CoopBooks'
         /\ \A c \in Coops \ {req[r].coop} : coopAccount'[c] = coopAccount[c]
<1> DEFINE own == req[r].coop
           e == [kind |-> kind, ref |-> req[r].ref, amount |-> amount,
                 before |-> req[r].acct.gross, after |-> after.gross]
<1>1. req[r] \in Call /\ coopAccount \in [Coops -> Account] /\ coopBook \in [Coops -> Seq(Entry)]
  BY DEF IInv, LedgerTypeOK
<1>2. own \in Coops /\ own # Nil
  OBVIOUS
<1>3. req[r].acct = coopAccount[own]
  BY <1>2 DEF IInv, AllSeenOK, SeenOK
<1>4. e \in Entry /\ e.before = coopAccount[own].gross
  BY <1>1, <1>3 DEF Call, Entry, Account
<1>5. coopAccount' = [coopAccount EXCEPT ![own] = after]
  BY DEF PostCoop
<1>6. coopBook' = [coopBook EXCEPT ![own] = Append(@, e)]
  BY DEF PostCoop
<1>7. coopAccount' \in [Coops -> Account] /\ coopBook' \in [Coops -> Seq(Entry)]
  BY <1>1, <1>4, <1>5, <1>6
<1>8. CoopBooks'
  <2> DEFINE ok(x) == x.kind = "commission" => x.after = x.before + x.amount
  <2>1. ok(e)
    BY DEF IInv
  <2> SUFFICES ASSUME NEW c \in Coops
               PROVE  /\ Chained(coopBook'[c], coopAccount'[c].gross)
                      /\ \A i \in DOMAIN coopBook'[c] : ok(coopBook'[c][i])
    BY DEF CoopBooks
  <2>2. Chained(coopBook[c], coopAccount[c].gross) /\ \A i \in DOMAIN coopBook[c] : ok(coopBook[c][i])
    BY DEF IInv, CoopBooks
  <2>3. CASE c # own
    BY <1>1, <1>5, <1>6, <2>2, <2>3
  <2>4. CASE c = own
    <3>1. coopBook'[c] = Append(coopBook[c], e) /\ coopAccount'[c].gross = e.after
      BY <1>1, <1>5, <1>6, <2>4
    <3>2. Chained(coopBook'[c], coopAccount'[c].gross)
      BY <1>1, <1>4, <2>2, <2>4, <3>1, ChainGrows
    <3>3. ASSUME NEW i \in DOMAIN coopBook'[c] PROVE ok(coopBook'[c][i])
      <4>1. \/ i \in DOMAIN coopBook[c] /\ coopBook'[c][i] = coopBook[c][i]
            \/ coopBook'[c][i] = e
        BY <1>1, <1>4, <3>1, <3>3, AppendPlaces
      <4>2. QED
        BY <2>1, <2>2, <4>1
    <3>4. QED
      BY <3>2, <3>3
  <2>5. QED
    BY <2>3, <2>4
<1>9. QED
  BY <1>1, <1>5, <1>7, <1>8

(* A call ends: it wrote only what it held, and holds nothing any more. *)
LEMMA EndStep ==
  ASSUME IInv, NEW r \in Reqs, req' = [req EXCEPT ![r] = Idle],
         trip' \in [Trips -> TripRow],
         recharge' \in [Recharges -> RechargeRow],
         settlement' \in [Settlements -> SettlementRow],
         balance' \in [Earners -> Int], book' \in [Earners -> Seq(Entry)],
         coopAccount' \in [Coops -> Account], coopBook' \in [Coops -> Seq(Entry)],
         rate' = rate, faults' \in 0..MaxFaults,
         RowsOK', WalletBooks', CoopBooks',
         \A d \in Earners : balance'[d] = balance[d] \/ (HoldsWallet(r) /\ req[r].driver = d),
         \A c \in Coops : coopAccount'[c] = coopAccount[c] \/ (HoldsAccount(r) /\ req[r].coop = c)
  PROVE  IInv'
<1>1. req'[r] = Idle /\ \A s \in Reqs \ {r} : req'[s] = req[s]
  BY DEF IInv, LedgerTypeOK
<1>2. Idle \in Call
  BY DEF Idle, Call, LedgerSteps, Account, EmptyAccount
<1>3. LedgerTypeOK'
  BY <1>2 DEF IInv, LedgerTypeOK
<1>4. CallsOK'
  BY <1>1 DEF IInv, CallsOK, CallOK, Idle
<1>5. AllSeenOK'
  <2> SUFFICES ASSUME NEW s \in Reqs PROVE SeenOK(s)'
    BY DEF AllSeenOK
  <2>1. CASE s = r
    BY <1>1, <2>1 DEF SeenOK, HoldsWallet, HoldsAccount, Idle
  <2>2. CASE s # r
    <3>1. req'[s] = req[s] /\ SeenOK(s) /\ req[s] \in Call
      BY <1>1, <2>2 DEF IInv, AllSeenOK, LedgerTypeOK
    <3>2. HoldsWallet(s) /\ req[s].driver # Nil =>
            /\ req[s].driver \in Earners
            /\ ~(HoldsWallet(r) /\ req[r].driver = req[s].driver)
      BY <2>2, <3>1 DEF IInv, OneHolder, Call
    <3>3. HoldsAccount(s) /\ req[s].coop # Nil =>
            /\ req[s].coop \in Coops
            /\ ~(HoldsAccount(r) /\ req[r].coop = req[s].coop)
      BY <2>2, <3>1 DEF IInv, OneHolder, Call
    <3>4. QED
      BY <3>1, <3>2, <3>3 DEF SeenOK, HoldsWallet, HoldsAccount
  <2>3. QED
    BY <2>1, <2>2
<1>6. OneHolder'
  BY <1>1 DEF IInv, OneHolder, HoldsWallet, HoldsAccount, Idle
<1>7. QED
  BY <1>3, <1>4, <1>5, <1>6 DEF IInv

-----------------------------------------------------------------------------
(* Steps of calls that write no money *)

(* A share of an amount is a whole number of cents. *)
LEMMA PercentType ==
  ASSUME NEW amount \in Int, NEW p \in Rates
  PROVE  Percent(amount, p) \in Int
BY DEF Percent

(* The next step of a call that holds no lock after it. *)
LEMMA LightStep ==
  ASSUME IInv, NEW r \in Reqs, NEW q \in Call,
         req' = [req EXCEPT ![r] = q],
         UNCHANGED <<trip, walletTables, coopTables, faults>>,
         q.op \notin {"credit", "share", "account", "commit", "debit"},
         CallOK(r)'
  PROVE  IInv'
<1>1. req'[r] = q
  BY DEF IInv, LedgerTypeOK
<1>2. ~HoldsWallet(r)' /\ ~HoldsAccount(r)'
  BY <1>1 DEF HoldsWallet, HoldsAccount
<1>3. SeenOK(r)'
  BY <1>2 DEF SeenOK
<1>4. RowsOK' /\ recharge' \in [Recharges -> RechargeRow]
      /\ settlement' \in [Settlements -> SettlementRow]
      /\ rate' \in Rates /\ faults' \in 0..MaxFaults
  BY DEF IInv, LedgerTypeOK, RowsOK, walletTables, coopTables
<1>5. UNCHANGED <<trip, balance, book, coopAccount, coopBook>>
  BY DEF walletTables, coopTables
<1>6. QED
  BY <1>2, <1>3, <1>4, <1>5, CallStep

(* A call arrives and passes the checks that precede its transaction. *)
LEMMA BeginSteps ==
  ASSUME IInv, NEW r \in Reqs,
         \/ \E x \in Recharges :
              \/ ConfirmRecharge(r, x) \/ RejectRecharge(r, x)
              \/ \E d \in Earners : RequestRecharge(r, x, d)
         \/ \E t \in Trips : CompleteTrip(r, t)
         \/ \E s \in Settlements :
              \/ ConfirmSettlement(r, s) \/ CancelSettlement(r, s)
              \/ \E c \in Coops : CreateSettlement(r, s, c)
  PROVE  IInv'
<1> USE DEF Begin
<1>0. Idle \in Call
  BY DEF Idle, Call, LedgerSteps, Account, EmptyAccount
<1>1. ASSUME NEW q \in Call, req' = [req EXCEPT ![r] = q],
             UNCHANGED <<trip, walletTables, coopTables, faults>>,
             \/ q.op = "upload" /\ q.ref \in Recharges /\ q.driver \in Earners
             \/ q.op = "confirm" /\ q.ref \in Recharges /\ q.driver \in Earners
             \/ q.op = "reject" /\ q.ref \in Recharges
             \/ q.op = "complete" /\ q.ref \in Trips
             \/ q.op = "sum" /\ q.ref \in Settlements /\ q.coop \in Coops
             \/ q.op = "close" /\ q.ref \in Settlements /\ q.coop \in Coops
             \/ q.op = "cancel" /\ q.ref \in Settlements
      PROVE  IInv'
  <2>1. req'[r] = q
    BY <1>1 DEF IInv, LedgerTypeOK
  <2>2. CallOK(r)'
    BY <1>1, <2>1 DEF CallOK
  <2>3. QED
    BY <1>1, <2>2, LightStep
<1>2. ASSUME NEW x \in Recharges, NEW d \in Earners, RequestRecharge(r, x, d) PROVE IInv'
  <2>1. PICK a \in Amounts :
          req' = [req EXCEPT ![r] = [Idle EXCEPT !.op = "upload", !.ref = x,
                                                 !.driver = d, !.amount = a]]
    BY <1>2 DEF RequestRecharge
  <2>2. QED
    BY <1>0, <1>1, <1>2, <2>1 DEF RequestRecharge, Idle, Call, LedgerSteps, Account, EmptyAccount
<1>3. ASSUME NEW x \in Recharges, ConfirmRecharge(r, x) PROVE IInv'
  <2>1. recharge[x] \in RechargeRow /\ recharge[x].driver \in Earners
    BY <1>3 DEF ConfirmRecharge, IInv, LedgerTypeOK, RowsOK
  <2>2. QED
    BY <1>0, <1>1, <1>3, <2>1
       DEF ConfirmRecharge, Idle, Call, LedgerSteps, Account, EmptyAccount, RechargeRow
<1>4. ASSUME NEW x \in Recharges, RejectRecharge(r, x) PROVE IInv'
  BY <1>0, <1>1, <1>4 DEF RejectRecharge, Idle, Call, LedgerSteps, Account, EmptyAccount
<1>5. ASSUME NEW t \in Trips, CompleteTrip(r, t) PROVE IInv'
  <2>1. trip[t] \in TripRow
    BY DEF IInv, LedgerTypeOK
  <2>2. PICK fee \in Fees :
          req' = [req EXCEPT ![r] =
                    [Idle EXCEPT !.op = "complete", !.ref = t, !.amount = fee,
                                 !.driver = IF trip[t].cash THEN trip[t].driver ELSE Nil,
                                 !.coop = trip[t].coop]]
    BY <1>5 DEF CompleteTrip
  <2>3. QED
    BY <1>0, <1>1, <1>5, <2>1, <2>2
       DEF CompleteTrip, Idle, Call, LedgerSteps, Account, EmptyAccount, TripRow
<1>6. ASSUME NEW s \in Settlements, ConfirmSettlement(r, s) PROVE IInv'
  <2>1. settlement[s] \in SettlementRow /\ settlement[s].coop \in Coops
    BY <1>6 DEF ConfirmSettlement, IInv, LedgerTypeOK, RowsOK
  <2>2. QED
    BY <1>0, <1>1, <1>6, <2>1
       DEF ConfirmSettlement, Idle, Call, LedgerSteps, Account, EmptyAccount, SettlementRow
<1>7. ASSUME NEW s \in Settlements, CancelSettlement(r, s) PROVE IInv'
  BY <1>0, <1>1, <1>7 DEF CancelSettlement, Idle, Call, LedgerSteps, Account, EmptyAccount
<1>8. ASSUME NEW s \in Settlements, NEW c \in Coops, CreateSettlement(r, s, c) PROVE IInv'
  BY <1>0, <1>1, <1>8 DEF CreateSettlement, Idle, Call, LedgerSteps, Account, EmptyAccount
<1>9. QED
  BY <1>2, <1>3, <1>4, <1>5, <1>6, <1>7, <1>8

(* A locking read of the wallet: nobody else holds it. *)
LEMMA WalletReads ==
  ASSUME IInv, NEW r \in Reqs, LockForCredit(r) \/ DeductCommission(r)
  PROVE  IInv'
<1> DEFINE d == req[r].driver
           op == IF req[r].op = "confirm" THEN "credit"
                 ELSE IF req[r].coop = Nil THEN "commit" ELSE "share"
           seen == IF d = Nil THEN 0 ELSE balance[d]
           q == [req[r] EXCEPT !.op = op, !.seen = seen]
<1>1. req[r] \in Call /\ CallOK(r) /\ req[r].op \in {"confirm", "complete"}
  BY DEF IInv, LedgerTypeOK, CallsOK, LockForCredit, DeductCommission
<1>2. d = Nil \/ (d \in Earners /\ balance[d] \in Int /\ ~WalletLocked(d))
  BY <1>1 DEF IInv, LedgerTypeOK, Call, CallOK, LockForCredit, DeductCommission
<1>3. q \in Call /\ q.driver = d /\ q.coop = req[r].coop /\ q.ref = req[r].ref
      /\ q.op = op /\ q.acct = req[r].acct /\ q.seen = seen
  <2>1. op \in LedgerSteps
    BY DEF LedgerSteps
  <2>2. seen \in Int
    BY <1>2
  <2> HIDE DEF op, seen
  <2>3. QED
    BY <1>1, <2>1, <2>2 DEF Call
<1>4. req' = [req EXCEPT ![r] = q] /\ UNCHANGED <<trip, walletTables, coopTables, faults>>
  BY <1>1 DEF IInv, LedgerTypeOK, Call, CallOK, LockForCredit, DeductCommission
<1>5. req'[r] = q
  BY <1>4 DEF IInv, LedgerTypeOK
<1>6. CallOK(r)'
  BY <1>1, <1>3, <1>5 DEF CallOK, Call
<1>7. SeenOK(r)'
  BY <1>1, <1>3, <1>4, <1>5 DEF SeenOK, HoldsWallet, HoldsAccount, walletTables, coopTables
<1>8. \A s \in Reqs \ {r} :
        /\ HoldsWallet(r)' /\ q.driver # Nil /\ HoldsWallet(s) => req[s].driver # q.driver
        /\ HoldsAccount(r)' /\ q.coop # Nil /\ HoldsAccount(s) => req[s].coop # q.coop
  BY <1>1, <1>2, <1>3, <1>5 DEF HoldsWallet, HoldsAccount, WalletLocked
<1>9. RowsOK' /\ recharge' \in [Recharges -> RechargeRow]
      /\ settlement' \in [Settlements -> SettlementRow]
      /\ rate' \in Rates /\ faults' \in 0..MaxFaults
      /\ UNCHANGED <<trip, balance, book, coopAccount, coopBook>>
  BY <1>4 DEF IInv, LedgerTypeOK, RowsOK, walletTables, coopTables
<1>10. QED
  BY <1>3, <1>4, <1>6, <1>7, <1>8, <1>9, CallStep

(* INSERT IGNORE and the locking read of the account. *)
LEMMA AccountReads ==
  ASSUME IInv, NEW r \in Reqs,
         InsertIgnore(r) \/ CreditCoopCommission(r) \/ LockForDebit(r)
  PROVE  IInv'
<1> DEFINE c == req[r].coop
<1>1. /\ req[r] \in Call /\ CallOK(r) /\ SeenOK(r)
      /\ req[r].op \in {"share", "account", "close"} /\ c \in Coops
  BY DEF IInv, LedgerTypeOK, CallsOK, CallOK, AllSeenOK, InsertIgnore, CreditCoopCommission,
         LockForDebit
<1>2. PICK q \in Call :
        /\ req' = [req EXCEPT ![r] = q]
        /\ q.driver = req[r].driver /\ q.coop = c /\ q.ref = req[r].ref
        /\ q.seen = req[r].seen
        /\ \/ req[r].op = "share" /\ q.op = "account"
           \/ /\ req[r].op = "account" /\ q.op = "commit"
              /\ q.acct = coopAccount[c] /\ ~AccountLocked(c)
           \/ /\ req[r].op = "close" /\ q.op = "debit"
              /\ q.acct = coopAccount[c] /\ ~AccountLocked(c)
  <2>1. coopAccount[c] \in Account /\ rate \in Rates
    BY <1>1 DEF IInv, LedgerTypeOK
  <2>2. Percent(req[r].amount, rate) \in Int
    BY <1>1, <2>1, PercentType DEF Call
  <2>3. CASE InsertIgnore(r)
    <3> DEFINE q == [req[r] EXCEPT !.op = "account"]
    <3>1. q \in Call
      BY <1>1 DEF Call, LedgerSteps
    <3>2. req' = [req EXCEPT ![r] = q]
      BY <2>3 DEF InsertIgnore, Advance, IInv, LedgerTypeOK
    <3>3. QED
      BY <1>1, <2>3, <3>1, <3>2 DEF InsertIgnore, Call
  <2>4. CASE CreditCoopCommission(r)
    <3> DEFINE q == [req[r] EXCEPT !.op = "commit", !.acct = coopAccount[c],
                                   !.cut = Percent(req[r].amount, rate)]
    <3>1. q \in Call
      BY <1>1, <2>1, <2>2 DEF Call, LedgerSteps
    <3>2. req' = [req EXCEPT ![r] = q]
      BY <2>4 DEF CreditCoopCommission, IInv, LedgerTypeOK
    <3>3. QED
      BY <1>1, <2>4, <3>1, <3>2 DEF CreditCoopCommission, Call
  <2>5. CASE LockForDebit(r)
    <3> DEFINE q == [req[r] EXCEPT !.op = "debit", !.acct = coopAccount[c]]
    <3>1. q \in Call
      BY <1>1, <2>1 DEF Call, LedgerSteps
    <3>2. req' = [req EXCEPT ![r] = q]
      BY <2>5 DEF LockForDebit, IInv, LedgerTypeOK
    <3>3. QED
      BY <1>1, <2>5, <3>1, <3>2 DEF LockForDebit, Call
  <2>6. QED
    BY <2>3, <2>4, <2>5
<1>3. req'[r] = q
  BY <1>2 DEF IInv, LedgerTypeOK
<1>4. UNCHANGED <<trip, walletTables, coopTables, faults>>
  BY DEF InsertIgnore, CreditCoopCommission, LockForDebit
<1>5. CallOK(r)'
  BY <1>1, <1>2, <1>3 DEF CallOK
<1>6. SeenOK(r)'
  BY <1>1, <1>2, <1>3, <1>4 DEF SeenOK, HoldsWallet, HoldsAccount, walletTables, coopTables
<1>7. \A s \in Reqs \ {r} :
        /\ HoldsWallet(r)' /\ q.driver # Nil /\ HoldsWallet(s) => req[s].driver # q.driver
        /\ HoldsAccount(r)' /\ q.coop # Nil /\ HoldsAccount(s) => req[s].coop # q.coop
  BY <1>1, <1>2, <1>3 DEF IInv, OneHolder, HoldsWallet, HoldsAccount, AccountLocked
<1>8. RowsOK' /\ recharge' \in [Recharges -> RechargeRow]
      /\ settlement' \in [Settlements -> SettlementRow]
      /\ rate' \in Rates /\ faults' \in 0..MaxFaults
      /\ UNCHANGED <<trip, balance, book, coopAccount, coopBook>>
  BY <1>4 DEF IInv, LedgerTypeOK, RowsOK, walletTables, coopTables
<1>9. QED
  BY <1>2, <1>5, <1>6, <1>7, <1>8, CallStep

(* The victim of a deadlock starts its transaction again or gives up. *)
LEMMA DeadlockStep ==
  ASSUME IInv, NEW r \in Reqs, AccountDeadlock(r)
  PROVE  IInv'
<1>1. req[r] \in Call /\ CallOK(r)
  BY DEF IInv, LedgerTypeOK, CallsOK
<1>2. UNCHANGED <<trip, walletTables, coopTables, faults>>
  BY DEF AccountDeadlock
<1>3. CASE req[r].op = "account" /\ req[r].attempt < MaxRetries
  <2> DEFINE q == [req[r] EXCEPT !.op = "complete", !.seen = 0,
                                 !.attempt = req[r].attempt + 1]
  <2>1. /\ q \in Call /\ q.op = "complete" /\ q.ref = req[r].ref
        /\ q.driver = req[r].driver /\ q.coop = req[r].coop
    <3>1. req[r].attempt + 1 \in Nat /\ "complete" \in LedgerSteps /\ 0 \in Int
      BY <1>1 DEF Call, LedgerSteps
    <3>2. QED
      BY <1>1, <3>1 DEF Call
  <2>2. req' = [req EXCEPT ![r] = q]
    BY <1>3 DEF AccountDeadlock, IInv, LedgerTypeOK
  <2>3. req'[r] = q
    BY <2>2 DEF IInv, LedgerTypeOK
  <2>4. CallOK(r)'
    BY <1>1, <1>3, <2>1, <2>3 DEF CallOK
  <2>5. QED
    BY <1>2, <2>1, <2>2, <2>4, LightStep
<1>4. CASE ~(req[r].op = "account" /\ req[r].attempt < MaxRetries)
  <2>1. req' = [req EXCEPT ![r] = Idle]
    BY <1>4 DEF AccountDeadlock, End
  <2>2. Idle \in Call /\ Idle.op = "idle"
    BY DEF Idle, Call, LedgerSteps, Account, EmptyAccount
  <2>3. req'[r] = Idle
    BY <2>1 DEF IInv, LedgerTypeOK
  <2>4. CallOK(r)'
    BY <2>2, <2>3 DEF CallOK
  <2>5. QED
    BY <1>2, <2>1, <2>2, <2>4, LightStep
<1>5. QED
  BY <1>3, <1>4

(* createSettlement adds up a period of the book, or finds nothing to settle. *)
LEMMA SumStep ==
  ASSUME IInv, NEW r \in Reqs, SumPeriod(r)
  PROVE  IInv'
<1>1. req[r] \in Call /\ CallOK(r) /\ req[r].op = "sum" /\ rate \in Rates
  BY DEF IInv, LedgerTypeOK, CallsOK, SumPeriod
<1>2. UNCHANGED <<trip, walletTables, coopTables, faults>>
  BY DEF SumPeriod
<1>3. ASSUME NEW gross \in Nat \ {0},
             req' = [req EXCEPT ![r].op = "insert", ![r].amount = gross,
                                ![r].cut = Percent(gross, rate)]
      PROVE  IInv'
  <2> DEFINE q == [req[r] EXCEPT !.op = "insert", !.amount = gross,
                                 !.cut = Percent(gross, rate)]
  <2>1. Percent(gross, rate) \in Int
    BY <1>1, PercentType
  <2>2. q \in Call /\ q.op = "insert" /\ q.ref = req[r].ref /\ q.coop = req[r].coop
    BY <1>1, <2>1 DEF Call, LedgerSteps
  <2>3. req' = [req EXCEPT ![r] = q]
    BY <1>3 DEF IInv, LedgerTypeOK
  <2>4. req'[r] = q
    BY <2>3 DEF IInv, LedgerTypeOK
  <2>5. CallOK(r)'
    BY <1>1, <2>2, <2>4 DEF CallOK
  <2>6. QED
    BY <1>2, <2>2, <2>3, <2>5, LightStep
<1>4. CASE End(r)
  <2>1. Idle \in Call /\ Idle.op = "idle"
    BY DEF Idle, Call, LedgerSteps, Account, EmptyAccount
  <2>2. req'[r] = Idle /\ req' = [req EXCEPT ![r] = Idle]
    BY <1>4 DEF End, IInv, LedgerTypeOK
  <2>3. CallOK(r)'
    BY <2>1, <2>2 DEF CallOK
  <2>4. QED
    BY <1>2, <2>1, <2>2, <2>3, LightStep
<1>5. QED
  BY <1>3, <1>4 DEF SumPeriod

-----------------------------------------------------------------------------
(* Steps that write a row or the books *)

(* A call that ends without touching the books. *)
LEMMA QuietEnd ==
  ASSUME IInv, NEW r \in Reqs, End(r),
         UNCHANGED <<trip, balance, book, coopAccount, coopBook, rate>>,
         recharge' \in [Recharges -> RechargeRow],
         settlement' \in [Settlements -> SettlementRow],
         faults' \in 0..MaxFaults, RowsOK'
  PROVE  IInv'
<1>1. /\ trip' \in [Trips -> TripRow]
      /\ balance' \in [Earners -> Int] /\ book' \in [Earners -> Seq(Entry)]
      /\ coopAccount' \in [Coops -> Account] /\ coopBook' \in [Coops -> Seq(Entry)]
  BY DEF IInv, LedgerTypeOK
<1>2. WalletBooks' /\ CoopBooks'
  BY DEF IInv, WalletBooks, CoopBooks
<1>3. QED
  BY <1>1, <1>2, EndStep DEF End

(* Writes of a recharge or settlement row alone, and a failed statement. *)
LEMMA RowWrites ==
  ASSUME IInv, NEW r \in Reqs,
         InsertRecharge(r) \/ RejectRechargeWrite(r) \/ InsertSettlement(r)
           \/ CancelSettlementWrite(r) \/ Fail(r)
  PROVE  IInv'
<1>1. /\ req[r] \in Call /\ CallOK(r) /\ RowsOK /\ faults \in 0..MaxFaults
      /\ recharge \in [Recharges -> RechargeRow]
      /\ settlement \in [Settlements -> SettlementRow]
  BY DEF IInv, LedgerTypeOK, CallsOK
<1>2. End(r) /\ UNCHANGED <<trip, balance, book, coopAccount, coopBook, rate>>
  BY DEF InsertRecharge, RejectRechargeWrite, InsertSettlement, CancelSettlementWrite,
         Fail, walletTables, coopTables
<1>3. CASE InsertRecharge(r)
  <2> DEFINE row == [status |-> "pending", driver |-> req[r].driver,
                     amount |-> req[r].amount]
  <2>1. req[r].ref \in Recharges /\ req[r].driver \in Earners /\ row \in RechargeRow
    BY <1>1, <1>3 DEF InsertRecharge, CallOK, Call, RechargeRow
  <2>2. /\ recharge' = [recharge EXCEPT ![req[r].ref] = row]
        /\ UNCHANGED <<settlement, faults>>
    BY <1>3 DEF InsertRecharge, coopTables
  <2>3. RowsOK'
    BY <1>1, <2>1, <2>2 DEF RowsOK
  <2>4. QED
    BY <1>1, <1>2, <2>1, <2>2, <2>3, QuietEnd
<1>4. CASE RejectRechargeWrite(r)
  <2> DEFINE x == req[r].ref
             row == [recharge[x] EXCEPT !.status = "rejected"]
  <2>1. x \in Recharges /\ recharge[x] \in RechargeRow
    BY <1>1, <1>4 DEF RejectRechargeWrite, CallOK
  <2>2. /\ recharge' = [recharge EXCEPT ![x] = row] /\ row \in RechargeRow
        /\ UNCHANGED <<settlement, faults>>
    BY <1>4, <2>1 DEF RejectRechargeWrite, coopTables, RechargeRow
  <2>3. RowsOK'
    BY <1>1, <2>1, <2>2 DEF RowsOK, RechargeRow
  <2>4. QED
    BY <1>1, <1>2, <2>1, <2>2, <2>3, QuietEnd
<1>5. CASE InsertSettlement(r)
  <2> DEFINE row == [status |-> "pending", coop |-> req[r].coop,
                     gross |-> req[r].amount, fee |-> req[r].cut]
  <2>1. req[r].ref \in Settlements /\ req[r].coop \in Coops /\ row \in SettlementRow
    BY <1>1, <1>5 DEF InsertSettlement, CallOK, Call, SettlementRow
  <2>2. /\ settlement' = [settlement EXCEPT ![req[r].ref] = row]
        /\ UNCHANGED <<recharge, faults>>
    BY <1>5 DEF InsertSettlement, walletTables
  <2>3. RowsOK'
    BY <1>1, <2>1, <2>2 DEF RowsOK
  <2>4. QED
    BY <1>1, <1>2, <2>1, <2>2, <2>3, QuietEnd
<1>6. CASE CancelSettlementWrite(r)
  <2> DEFINE s == req[r].ref
             row == [settlement[s] EXCEPT !.status = "cancelled"]
  <2>1. s \in Settlements /\ settlement[s] \in SettlementRow
    BY <1>1, <1>6 DEF CancelSettlementWrite, CallOK
  <2>2. /\ settlement' = [settlement EXCEPT ![s] = row] /\ row \in SettlementRow
        /\ UNCHANGED <<recharge, faults>>
    BY <1>6, <2>1 DEF CancelSettlementWrite, walletTables, SettlementRow
  <2>3. RowsOK'
    BY <1>1, <2>1, <2>2 DEF RowsOK, SettlementRow
  <2>4. QED
    BY <1>1, <1>2, <2>1, <2>2, <2>3, QuietEnd
<1>7. CASE Fail(r)
  <2>1. UNCHANGED <<recharge, settlement>> /\ faults' \in 0..MaxFaults
    BY <1>1, <1>7 DEF Fail, walletTables, coopTables
  <2>2. RowsOK'
    BY <1>1, <2>1 DEF RowsOK
  <2>3. QED
    BY <1>1, <1>2, <2>1, <2>2, QuietEnd
<1>8. QED
  BY <1>3, <1>4, <1>5, <1>6, <1>7

(* The credit of a confirmed recharge. *)
LEMMA CreditStep ==
  ASSUME IInv, NEW r \in Reqs, CreditCommit(r)
  PROVE  IInv'
<1> DEFINE x == req[r].ref
           row == [recharge[x] EXCEPT !.status = "confirmed"]
<1>1. /\ req[r] \in Call /\ CallOK(r) /\ HoldsWallet(r) /\ ~HoldsAccount(r)
      /\ x \in Recharges /\ req[r].driver \in Earners /\ x # Nil
  BY DEF IInv, LedgerTypeOK, CallsOK, CallOK, CreditCommit, HoldsWallet, HoldsAccount
<1>2. PostEntry(r, "recharge", IF "recharge" = "recharge" THEN req[r].amount ELSE -req[r].amount)
  BY DEF CreditCommit
<1>3. /\ balance' \in [Earners -> Int] /\ book' \in [Earners -> Seq(Entry)]
      /\ WalletBooks'
      /\ \A d \in Earners \ {req[r].driver} : balance'[d] = balance[d]
  BY <1>1, <1>2, WalletPost DEF EntryKinds
<1>4. recharge[x] \in RechargeRow /\ row \in RechargeRow /\ row.status = "confirmed"
  <2>1. recharge[x] \in RechargeRow
    BY <1>1 DEF IInv, LedgerTypeOK
  <2>2. QED
    BY <2>1 DEF RechargeRow
<1>5. recharge' = [recharge EXCEPT ![x] = row]
  BY DEF CreditCommit
<1>6. recharge' \in [Recharges -> RechargeRow]
  BY <1>1, <1>4, <1>5 DEF IInv, LedgerTypeOK
<1>7. UNCHANGED <<trip, settlement, coopAccount, coopBook, rate, faults>>
  BY DEF CreditCommit, coopTables
<1>8. RowsOK'
  BY <1>4, <1>5, <1>7 DEF IInv, LedgerTypeOK, RowsOK
<1>9. /\ trip' \in [Trips -> TripRow] /\ settlement' \in [Settlements -> SettlementRow]
      /\ coopAccount' \in [Coops -> Account] /\ coopBook' \in [Coops -> Seq(Entry)]
      /\ faults' \in 0..MaxFaults
  BY <1>7 DEF IInv, LedgerTypeOK
<1>10. CoopBooks'
  BY <1>7 DEF IInv, CoopBooks
<1>11. req' = [req EXCEPT ![r] = Idle]
  BY DEF CreditCommit, End
<1>12. QED
  BY <1>1, <1>3, <1>6, <1>7, <1>8, <1>9, <1>10, <1>11, EndStep

(* The debit of a confirmed settlement. *)
LEMMA DebitStep ==
  ASSUME IInv, NEW r \in Reqs, DebitCommit(r)
  PROVE  IInv'
<1> DEFINE q == req[r]
           s == q.ref
           net == q.amount - q.cut
           after == [gross |-> Floor0(q.acct.gross - q.amount),
                     due |-> Floor0(q.acct.due - q.cut), net |-> Floor0(q.acct.net - net)]
           row == [settlement[s] EXCEPT !.status = "confirmed"]
<1>1. /\ q \in Call /\ CallOK(r) /\ HoldsAccount(r) /\ ~HoldsWallet(r)
      /\ s \in Settlements /\ q.coop \in Coops /\ s # Nil
  BY DEF IInv, LedgerTypeOK, CallsOK, CallOK, DebitCommit, HoldsWallet, HoldsAccount
<1>2. net \in Int /\ after \in Account
  BY <1>1 DEF Call, Account, Floor0
<1>3. PostCoop(r, "settlement", net, after)
  BY DEF DebitCommit
<1>4. /\ coopAccount' \in [Coops -> Account] /\ coopBook' \in [Coops -> Seq(Entry)]
      /\ CoopBooks'
      /\ \A c \in Coops \ {q.coop} : coopAccount'[c] = coopAccount[c]
  <2> HIDE DEF after, net
  <2>1. "settlement" \in EntryKinds /\ "settlement" # "commission"
    BY DEF EntryKinds
  <2>2. QED
    BY <1>1, <1>2, <1>3, <2>1, CoopPost
<1>5. row \in SettlementRow /\ row.status = "confirmed"
  <2>1. settlement[s] \in SettlementRow
    BY <1>1 DEF IInv, LedgerTypeOK
  <2>2. QED
    BY <2>1 DEF SettlementRow
<1>6. settlement' = [settlement EXCEPT ![s] = row]
  BY DEF DebitCommit
<1>7. settlement' \in [Settlements -> SettlementRow]
  BY <1>1, <1>5, <1>6 DEF IInv, LedgerTypeOK
<1>8. UNCHANGED <<trip, recharge, balance, book, rate, faults>>
  BY DEF DebitCommit, walletTables
<1>9. RowsOK'
  BY <1>5, <1>6, <1>8 DEF IInv, LedgerTypeOK, RowsOK
<1>10. /\ trip' \in [Trips -> TripRow] /\ recharge' \in [Recharges -> RechargeRow]
       /\ balance' \in [Earners -> Int] /\ book' \in [Earners -> Seq(Entry)]
       /\ faults' \in 0..MaxFaults
  BY <1>8 DEF IInv, LedgerTypeOK
<1>11. WalletBooks'
  BY <1>8 DEF IInv, WalletBooks
<1>12. req' = [req EXCEPT ![r] = Idle]
  BY DEF DebitCommit, End
<1>13. QED
  BY <1>1, <1>4, <1>7, <1>8, <1>9, <1>10, <1>11, <1>12, EndStep

(* The commit of completeTrip, on the books its trip concerns. *)
LEMMA CompleteStep ==
  ASSUME IInv, NEW r \in Reqs, CompleteCommit(r)
  PROVE  IInv'
<1> DEFINE q == req[r]
           t == q.ref
           after == [gross |-> q.acct.gross + q.amount, due |-> q.acct.due + q.cut,
                     net |-> q.acct.net + (q.amount - q.cut)]
           row == [trip[t] EXCEPT !.status = "completed"]
<1>1. /\ q \in Call /\ CallOK(r) /\ HoldsAccount(r) /\ HoldsWallet(r)
      /\ t \in Trips /\ t # Nil
  BY DEF IInv, LedgerTypeOK, CallsOK, CallOK, CompleteCommit, HoldsWallet, HoldsAccount
<1>2. trip' \in [Trips -> TripRow]
  <2>1. trip[t] \in TripRow
    BY <1>1 DEF IInv, LedgerTypeOK
  <2>2. row \in TripRow
    BY <2>1 DEF TripRow
  <2>3. trip' = [trip EXCEPT ![t] = row]
    BY DEF CompleteCommit
  <2>4. QED
    BY <1>1, <2>2, <2>3 DEF IInv, LedgerTypeOK
<1>3. /\ balance' \in [Earners -> Int] /\ book' \in [Earners -> Seq(Entry)]
      /\ WalletBooks'
      /\ \A d \in Earners : balance'[d] = balance[d] \/ q.driver = d
  <2>1. CASE q.driver = Nil
    <3>1. UNCHANGED <<balance, book>>
      BY <2>1 DEF CompleteCommit
    <3>2. QED
      BY <3>1 DEF IInv, LedgerTypeOK, WalletBooks
  <2>2. CASE q.driver # Nil
    <3>1. q.driver \in Earners
      BY <1>1, <2>2 DEF Call
    <3>2. PostEntry(r, "commission",
               IF "commission" = "recharge" THEN req[r].amount ELSE -req[r].amount)
      BY <2>2 DEF CompleteCommit
    <3>3. QED
      BY <1>1, <3>1, <3>2, WalletPost DEF EntryKinds
  <2>3. QED
    BY <2>1, <2>2
<1>4. /\ coopAccount' \in [Coops -> Account] /\ coopBook' \in [Coops -> Seq(Entry)]
      /\ CoopBooks'
      /\ \A c \in Coops : coopAccount'[c] = coopAccount[c] \/ q.coop = c
  <2>1. CASE q.coop = Nil
    <3>1. UNCHANGED <<coopAccount, coopBook>>
      BY <2>1 DEF CompleteCommit
    <3>2. QED
      BY <3>1 DEF IInv, LedgerTypeOK, CoopBooks
  <2>2. CASE q.coop # Nil
    <3>1. q.coop \in Coops /\ q.amount \in Int /\ after \in Account
      BY <1>1, <2>2 DEF Call, Account
    <3>2. PostCoop(r, "commission", q.amount, after) /\ after.gross = q.acct.gross + q.amount
      BY <2>2 DEF CompleteCommit
    <3>3. QED
      <4> HIDE DEF after
      <4>1. QED
        BY <1>1, <3>1, <3>2, CoopPost DEF EntryKinds
  <2>3. QED
    BY <2>1, <2>2
<1>5. /\ req' = [req EXCEPT ![r] = Idle]
      /\ UNCHANGED <<recharge, settlement, rate, faults>>
  BY DEF CompleteCommit, End
<1>6. /\ RowsOK' /\ faults' \in 0..MaxFaults
      /\ recharge' \in [Recharges -> RechargeRow]
      /\ settlement' \in [Settlements -> SettlementRow]
  BY <1>5 DEF IInv, LedgerTypeOK, RowsOK
<1>7. QED
  BY <1>1, <1>2, <1>3, <1>4, <1>5, <1>6, EndStep

(* Steps of no call: the share changes, the process stops, nothing happens. *)
LEMMA OtherSteps ==
  ASSUME IInv, (\E p \in Rates : SetPlatformFeeRate(p)) \/ Crash \/ UNCHANGED ledgerVars
  PROVE  IInv'
<1>1. /\ UNCHANGED <<trip, recharge, settlement, balance, book, coopAccount, coopBook>>
      /\ rate' \in Rates /\ faults' \in 0..MaxFaults
      /\ req' = req \/ req' = [r \in Reqs |-> Idle]
  BY DEF SetPlatformFeeRate, Crash, ledgerVars, walletTables, coopTables, IInv, LedgerTypeOK
<1>2. RowsOK' /\ WalletBooks' /\ CoopBooks'
  BY <1>1 DEF IInv, RowsOK, WalletBooks, CoopBooks
<1>3. CASE req' = req
  BY <1>1, <1>2, <1>3 DEF IInv, LedgerTypeOK, CallsOK, CallOK, AllSeenOK, SeenOK, OneHolder,
                          HoldsWallet, HoldsAccount
<1>4. CASE req' = [r \in Reqs |-> Idle]
  <2>1. Idle \in Call /\ Idle.op = "idle"
    BY DEF Idle, Call, LedgerSteps, Account, EmptyAccount
  <2>2. \A r \in Reqs : req'[r].op = "idle"
    BY <1>4, <2>1
  <2>3. CallsOK' /\ AllSeenOK' /\ OneHolder'
    BY <2>2 DEF CallsOK, CallOK, AllSeenOK, SeenOK, OneHolder, HoldsWallet, HoldsAccount
  <2>4. LedgerTypeOK'
    BY <1>1, <1>4, <2>1 DEF IInv, LedgerTypeOK
  <2>5. QED
    BY <1>2, <2>3, <2>4 DEF IInv
<1>5. QED
  BY <1>1, <1>3, <1>4

-----------------------------------------------------------------------------
(* Theorems *)

(* Every step keeps the invariant. *)
LEMMA NextIInv == IInv /\ [LedgerNext]_ledgerVars => IInv'
<1> SUFFICES ASSUME IInv, [LedgerNext]_ledgerVars PROVE IInv'
  OBVIOUS
<1>1. ASSUME NEW r \in Reqs, RechargeSteps(r) PROVE IInv'
  BY <1>1, BeginSteps, WalletReads, RowWrites, CreditStep DEF RechargeSteps
<1>2. ASSUME NEW r \in Reqs, CompletionSteps(r) PROVE IInv'
  BY <1>2, BeginSteps, WalletReads, AccountReads, DeadlockStep, CompleteStep
     DEF CompletionSteps
<1>3. ASSUME NEW r \in Reqs, SettlementSteps(r) PROVE IInv'
  BY <1>3, BeginSteps, SumStep, AccountReads, RowWrites, DebitStep DEF SettlementSteps
<1>4. ASSUME NEW r \in Reqs, Fail(r) PROVE IInv'
  BY <1>4, RowWrites
<1>5. QED
  BY <1>1, <1>2, <1>3, <1>4, OtherSteps DEF LedgerNext

(* What a call has read under a lock is still so when it writes, and no two
   calls hold the same wallet or account (FOR UPDATE in wallet.service.ts and
   accounting.service.ts). *)
THEOREM Invariance == LedgerSpec => []IInv
BY InitIInv, NextIInv, PTL DEF LedgerSpec

(* Tables, books and calls in flight keep their types. *)
THEOREM TypeCorrect == LedgerSpec => []LedgerTypeOK
<1>1. IInv => LedgerTypeOK
  BY DEF IInv
<1>2. QED
  BY <1>1, Invariance, PTL

(* The history of every driver's wallet adds up to his balance, however many
   recharges and commissions are booked at the same time. *)
THEOREM WalletBooksClose == LedgerSpec => []WalletBooks
<1>1. IInv => WalletBooks
  BY DEF IInv
<1>2. QED
  BY <1>1, Invariance, PTL

(* The statement of every cooperative adds up to its gross balance, however
   many completions and settlements of it interleave. *)
THEOREM CoopBooksClose == LedgerSpec => []CoopBooks
<1>1. IInv => CoopBooks
  BY DEF IInv
<1>2. QED
  BY <1>1, Invariance, PTL

-----------------------------------------------------------------------------
(* Counting postings *)

Places(entries, kind, id) == {i \in DOMAIN entries : entries[i].kind = kind /\ entries[i].ref = id}

LEMMA PlacesFinite ==
  ASSUME NEW entries \in Seq(Entry), NEW kind, NEW id
  PROVE  /\ IsFiniteSet(Places(entries, kind, id))
         /\ Postings(entries, kind, id) = Cardinality(Places(entries, kind, id))
         /\ Postings(entries, kind, id) \in Nat
<1>1. Len(entries) \in Nat /\ DOMAIN entries = 1..Len(entries)
  OBVIOUS
<1>2. IsFiniteSet(1..Len(entries))
  BY <1>1, FS_Interval
<1>3. Places(entries, kind, id) \in SUBSET (1..Len(entries))
  BY <1>1 DEF Places
<1>4. IsFiniteSet(Places(entries, kind, id))
  BY <1>2, <1>3, FS_Subset
<1>5. Postings(entries, kind, id) = Cardinality(Places(entries, kind, id))
  BY DEF Postings, Places
<1>6. QED
  BY <1>4, <1>5, FS_CardinalityType

(* An entry counts once, for its own kind and id. *)
LEMMA PostingsAppend ==
  ASSUME NEW entries \in Seq(Entry), NEW e \in Entry, NEW kind, NEW id
  PROVE  Postings(Append(entries, e), kind, id) =
           IF e.kind = kind /\ e.ref = id THEN Postings(entries, kind, id) + 1
                                          ELSE Postings(entries, kind, id)
<1> DEFINE longer == Append(entries, e)
           n == Len(entries)
           old == Places(entries, kind, id)
<1>1. /\ n \in Nat /\ longer \in Seq(Entry) /\ DOMAIN longer = 1..(n + 1)
      /\ DOMAIN entries = 1..n /\ longer[n + 1] = e
      /\ \A i \in 1..n : longer[i] = entries[i]
  OBVIOUS
<1>2. Places(longer, kind, id) = IF e.kind = kind /\ e.ref = id THEN old \cup {n + 1} ELSE old
  <2>1. \A i : i \in 1..(n + 1) <=> (i \in 1..n \/ i = n + 1)
    BY <1>1
  <2> HIDE DEF longer
  <2>2. QED
    BY <1>1, <2>1 DEF Places
<1>3. n + 1 \notin old
  BY <1>1 DEF Places
<1>4. /\ IsFiniteSet(old) /\ Postings(entries, kind, id) = Cardinality(old)
      /\ Postings(longer, kind, id) = Cardinality(Places(longer, kind, id))
  <2> HIDE DEF longer
  <2>1. QED
    BY <1>1, PlacesFinite
<1>5. Cardinality(old \cup {n + 1}) = Cardinality(old) + 1
  BY <1>3, <1>4, FS_AddElement
<1>6. QED
  BY <1>2, <1>4, <1>5

LEMMA NoPostings ==
  ASSUME NEW kind, NEW id
  PROVE  Postings(<<>>, kind, id) = 0
BY FS_EmptySet DEF Postings

-----------------------------------------------------------------------------
(* The invariant *)

\* A row that was inserted has its owner; one without a decision is in no book.
RechargesPosted ==
  \A x \in Recharges :
    LET row == recharge[x] IN
    /\ row.status # "none" => row.driver \in Earners
    /\ row.status \in {"none", "pending"} => \A d \in Earners : Postings(book[d], "recharge", x) = 0
    /\ row.status = "confirmed" => Postings(book[row.driver], "recharge", x) > 0

SettlementsPosted ==
  \A s \in Settlements :
    LET row == settlement[s] IN
    /\ row.status # "none" => row.coop \in Coops
    /\ row.status \in {"none", "pending"} => \A c \in Coops : Postings(coopBook[c], "settlement", s) = 0
    /\ row.status = "confirmed" => Postings(coopBook[row.coop], "settlement", s) > 0

\* A call in flight names the owners its row names.
CallAgrees(r) ==
  LET q == req[r] IN
  /\ q.op = "upload" => recharge[q.ref].status = "none"
  /\ q.op \in {"confirm", "credit"} =>
       recharge[q.ref].status # "none" /\ recharge[q.ref].driver = q.driver
  /\ q.op = "reject" => recharge[q.ref].status # "none"
  /\ q.op \in {"complete", "share", "account", "commit"} =>
       /\ q.driver = IF trip[q.ref].cash THEN trip[q.ref].driver ELSE Nil
       /\ q.coop = trip[q.ref].coop
  /\ q.op \in {"sum", "insert"} => settlement[q.ref].status = "none"
  /\ q.op \in {"close", "debit"} =>
       settlement[q.ref].status # "none" /\ settlement[q.ref].coop = q.coop
  /\ q.op = "cancel" => settlement[q.ref].status # "none"

CallsAgree == \A r \in Reqs : CallAgrees(r)

\* No two calls are about to insert one row.
NewRowsDiffer ==
  \A r, s \in Reqs :
    \/ r = s
    \/ req[r].ref # req[s].ref
    \/ /\ ~(req[r].op = "upload" /\ req[s].op = "upload")
       /\ ~(req[r].op \in {"sum", "insert"} /\ req[s].op \in {"sum", "insert"})

PInv == RechargesPosted /\ SettlementsPosted /\ CommissionOnBothBooks /\ CallsAgree /\ NewRowsDiffer

LEMMA InitPInv == LedgerInit => PInv
<1> SUFFICES ASSUME LedgerInit PROVE PInv
  OBVIOUS
<1>1. /\ \A x \in Recharges : recharge[x].status = "none"
      /\ \A s \in Settlements : settlement[s].status = "none"
      /\ \A d \in Earners : book[d] = <<>>
      /\ \A c \in Coops : coopBook[c] = <<>>
      /\ \A t \in Trips : trip[t] \in TripRow /\ trip[t].status = "in_progress"
      /\ \A r \in Reqs : req[r].op = "idle"
  BY DEF LedgerInit, NoRecharge, NoSettlement, Idle
<1>2. RechargesPosted /\ SettlementsPosted
  BY <1>1, NoPostings DEF RechargesPosted, SettlementsPosted
<1>3. CommissionOnBothBooks
  BY <1>1, NoPostings DEF CommissionOnBothBooks, TripRow
<1>4. CallsAgree /\ NewRowsDiffer
  BY <1>1 DEF CallsAgree, CallAgrees, NewRowsDiffer
<1>5. QED
  BY <1>2, <1>3, <1>4 DEF PInv

-----------------------------------------------------------------------------
(* Calls that write no row *)

(* A call takes a step and keeps to what its rows say. *)
LEMMA QuietCall ==
  ASSUME IInv, PInv, NEW r \in Reqs, NEW q,
         req' = [req EXCEPT ![r] = q],
         UNCHANGED <<trip, recharge, settlement, book, coopBook>>,
         CallAgrees(r)',
         \A s \in Reqs \ {r} :
           \/ q.ref # req[s].ref
           \/ /\ ~(q.op = "upload" /\ req[s].op = "upload")
              /\ ~(q.op \in {"sum", "insert"} /\ req[s].op \in {"sum", "insert"})
  PROVE  PInv'
<1>1. req'[r] = q /\ \A s \in Reqs \ {r} : req'[s] = req[s]
  BY DEF IInv, LedgerTypeOK
<1>2. RechargesPosted' /\ SettlementsPosted'
  BY DEF PInv, RechargesPosted, SettlementsPosted
<1>3. CommissionOnBothBooks'
  BY DEF PInv, CommissionOnBothBooks
<1>4. CallsAgree'
  BY <1>1 DEF PInv, CallsAgree, CallAgrees
<1>5. NewRowsDiffer'
  BY <1>1 DEF PInv, NewRowsDiffer
<1>6. QED
  BY <1>2, <1>3, <1>4, <1>5 DEF PInv

(* A call ends without a trace. *)
LEMMA QuietIdle ==
  ASSUME IInv, PInv, NEW r \in Reqs, End(r),
         UNCHANGED <<trip, recharge, settlement, book, coopBook>>
  PROVE  PInv'
<1>1. req' = [req EXCEPT ![r] = Idle] /\ Idle.op = "idle"
  BY DEF End, Idle
<1>2. req'[r] = Idle
  BY <1>1 DEF IInv, LedgerTypeOK
<1>3. CallAgrees(r)'
  BY <1>1, <1>2 DEF CallAgrees
<1>4. QED
  BY <1>1, <1>3, QuietCall

(* A call arrives: it takes the owners from the row it has read. *)
LEMMA BeginAgrees ==
  ASSUME IInv, PInv, NEW r \in Reqs,
         \/ \E x \in Recharges :
              \/ ConfirmRecharge(r, x) \/ RejectRecharge(r, x)
              \/ \E d \in Earners : RequestRecharge(r, x, d)
         \/ \E t \in Trips : CompleteTrip(r, t)
         \/ \E s \in Settlements :
              \/ ConfirmSettlement(r, s) \/ CancelSettlement(r, s)
              \/ \E c \in Coops : CreateSettlement(r, s, c)
  PROVE  PInv'
<1>1. UNCHANGED <<trip, recharge, settlement, book, coopBook>>
  BY DEF ConfirmRecharge, RejectRecharge, RequestRecharge, CompleteTrip, ConfirmSettlement,
         CancelSettlement, CreateSettlement, walletTables, coopTables
<1>2. ASSUME NEW q, req' = [req EXCEPT ![r] = q],
             \/ /\ q.op = "upload" /\ recharge[q.ref].status = "none" /\ Fresh(q.ref)
             \/ /\ q.op = "confirm" /\ recharge[q.ref].status # "none"
                /\ recharge[q.ref].driver = q.driver
             \/ q.op = "reject" /\ recharge[q.ref].status # "none"
             \/ /\ q.op = "complete" /\ q.coop = trip[q.ref].coop
                /\ q.driver = IF trip[q.ref].cash THEN trip[q.ref].driver ELSE Nil
             \/ /\ q.op = "sum" /\ settlement[q.ref].status = "none" /\ Fresh(q.ref)
             \/ /\ q.op = "close" /\ settlement[q.ref].status # "none"
                /\ settlement[q.ref].coop = q.coop
             \/ q.op = "cancel" /\ settlement[q.ref].status # "none"
      PROVE  PInv'
  <2>1. req'[r] = q
    BY <1>2 DEF IInv, LedgerTypeOK
  <2>2. CallAgrees(r)'
    BY <1>1, <1>2, <2>1 DEF CallAgrees
  <2>3. \A s \in Reqs \ {r} :
           \/ q.ref # req[s].ref
           \/ /\ ~(q.op = "upload" /\ req[s].op = "upload")
              /\ ~(q.op \in {"sum", "insert"} /\ req[s].op \in {"sum", "insert"})
    BY <1>2 DEF Fresh
  <2>4. QED
    BY <1>1, <1>2, <2>2, <2>3, QuietCall
<1>3. ASSUME NEW x \in Recharges, NEW d \in Earners, RequestRecharge(r, x, d) PROVE PInv'
  <2>1. PICK a \in Amounts :
          req' = [req EXCEPT ![r] = [Idle EXCEPT !.op = "upload", !.ref = x,
                                                 !.driver = d, !.amount = a]]
    BY <1>3 DEF RequestRecharge, Begin
  <2>2. QED
    BY <1>2, <1>3, <2>1 DEF RequestRecharge, Idle
<1>4. ASSUME NEW x \in Recharges, ConfirmRecharge(r, x) PROVE PInv'
  BY <1>2, <1>4 DEF ConfirmRecharge, Begin, Idle
<1>5. ASSUME NEW x \in Recharges, RejectRecharge(r, x) PROVE PInv'
  BY <1>2, <1>5 DEF RejectRecharge, Begin, Idle
<1>6. ASSUME NEW t \in Trips, CompleteTrip(r, t) PROVE PInv'
  <2>1. PICK fee \in Fees :
          req' = [req EXCEPT ![r] =
                    [Idle EXCEPT !.op = "complete", !.ref = t, !.amount = fee,
                                 !.driver = IF trip[t].cash THEN trip[t].driver ELSE Nil,
                                 !.coop = trip[t].coop]]
    BY <1>6 DEF CompleteTrip, Begin
  <2> DEFINE driver == IF trip[t].cash THEN trip[t].driver ELSE Nil
             coop == trip[t].coop
             q == [Idle EXCEPT !.op = "complete", !.ref = t, !.amount = fee,
                               !.driver = driver, !.coop = coop]
  <2>2. req' = [req EXCEPT ![r] = q]
    BY <2>1
  <2>3. q.op = "complete" /\ q.ref = t /\ q.coop = coop
    BY DEF Idle
  <2>4. q.driver = driver
    <3>1. ASSUME NEW d PROVE [Idle EXCEPT !.op = "complete", !.ref = t, !.amount = fee,
                                          !.driver = d, !.coop = coop].driver = d
      BY DEF Idle
    <3>2. QED
      BY <3>1
  <2> HIDE DEF q
  <2>5. QED
    BY <1>2, <2>2, <2>3, <2>4
<1>7. ASSUME NEW s \in Settlements, ConfirmSettlement(r, s) PROVE PInv'
  BY <1>2, <1>7 DEF ConfirmSettlement, Begin, Idle
<1>8. ASSUME NEW s \in Settlements, CancelSettlement(r, s) PROVE PInv'
  BY <1>2, <1>8 DEF CancelSettlement, Begin, Idle
<1>9. ASSUME NEW s \in Settlements, NEW c \in Coops, CreateSettlement(r, s, c) PROVE PInv'
  BY <1>2, <1>9 DEF CreateSettlement, Begin, Idle
<1>10. QED
  BY <1>3, <1>4, <1>5, <1>6, <1>7, <1>8, <1>9

(* A call goes on, with the row and the owners it has. *)
LEMMA ReadsAgree ==
  ASSUME IInv, PInv, NEW r \in Reqs,
         \/ LockForCredit(r) \/ DeductCommission(r) \/ InsertIgnore(r)
         \/ CreditCoopCommission(r) \/ LockForDebit(r) \/ AccountDeadlock(r) \/ SumPeriod(r)
  PROVE  PInv'
<1>1. /\ UNCHANGED <<trip, recharge, settlement, book, coopBook>>
      /\ req \in [Reqs -> Call] /\ req[r] \in Call
  BY DEF LockForCredit, DeductCommission, InsertIgnore, CreditCoopCommission, LockForDebit,
         AccountDeadlock, SumPeriod, walletTables, coopTables, IInv, LedgerTypeOK
<1>2. CASE End(r)
  BY <1>1, <1>2, QuietIdle
<1>3. ASSUME NEW q, req' = [req EXCEPT ![r] = q],
             q.ref = req[r].ref, q.driver = req[r].driver, q.coop = req[r].coop,
             \/ req[r].op = "confirm" /\ q.op = "credit"
             \/ req[r].op \in {"complete", "share", "account"}
                /\ q.op \in {"complete", "share", "account", "commit"}
             \/ req[r].op = "close" /\ q.op = "debit"
             \/ req[r].op = "sum" /\ q.op = "insert"
      PROVE  PInv'
  <2>1. req'[r] = q
    BY <1>1, <1>3
  <2>2. CallAgrees(r)
    BY DEF PInv, CallsAgree
  <2>3. CallAgrees(r)'
    BY <1>1, <1>3, <2>1, <2>2 DEF CallAgrees
  <2>4. \A s \in Reqs \ {r} :
           \/ q.ref # req[s].ref
           \/ /\ ~(q.op = "upload" /\ req[s].op = "upload")
              /\ ~(q.op \in {"sum", "insert"} /\ req[s].op \in {"sum", "insert"})
    BY <1>3 DEF PInv, NewRowsDiffer
  <2>5. QED
    BY <1>1, <1>3, <2>3, <2>4, QuietCall
<1>4. CASE LockForCredit(r)
  <2> DEFINE q == [req[r] EXCEPT !.op = "credit", !.seen = balance[req[r].driver]]
  <2>1. req' = [req EXCEPT ![r] = q]
    BY <1>1, <1>4 DEF LockForCredit
  <2>2. q.op = "credit" /\ q.ref = req[r].ref /\ q.driver = req[r].driver /\ q.coop = req[r].coop
    BY <1>1 DEF Call
  <2>3. QED
    BY <1>3, <1>4, <2>1, <2>2 DEF LockForCredit
<1>5. CASE DeductCommission(r)
  <2> DEFINE op == IF req[r].coop = Nil THEN "commit" ELSE "share"
             seen == IF req[r].driver = Nil THEN 0 ELSE balance[req[r].driver]
             q == [req[r] EXCEPT !.op = op, !.seen = seen]
  <2>1. req' = [req EXCEPT ![r] = q]
    BY <1>1, <1>5 DEF DeductCommission
  <2>2. q.op = op /\ q.ref = req[r].ref /\ q.driver = req[r].driver /\ q.coop = req[r].coop
    BY <1>1 DEF Call
  <2>3. op \in {"share", "commit"} /\ req[r].op = "complete"
    BY <1>5 DEF DeductCommission
  <2> HIDE DEF op, seen, q
  <2>4. QED
    BY <1>3, <2>1, <2>2, <2>3
<1>6. CASE InsertIgnore(r)
  <2> DEFINE q == [req[r] EXCEPT !.op = "account"]
  <2>1. req' = [req EXCEPT ![r] = q]
    BY <1>1, <1>6 DEF InsertIgnore, Advance
  <2>2. q.op = "account" /\ q.ref = req[r].ref /\ q.driver = req[r].driver /\ q.coop = req[r].coop
    BY <1>1 DEF Call
  <2>3. QED
    BY <1>3, <1>6, <2>1, <2>2 DEF InsertIgnore
<1>7. CASE CreditCoopCommission(r)
  <2> DEFINE acct == coopAccount[req[r].coop]
             cut == Percent(req[r].amount, rate)
             q == [req[r] EXCEPT !.op = "commit", !.acct = acct, !.cut = cut]
  <2>1. req' = [req EXCEPT ![r] = q]
    BY <1>1, <1>7 DEF CreditCoopCommission
  <2>2. q.op = "commit" /\ q.ref = req[r].ref /\ q.driver = req[r].driver /\ q.coop = req[r].coop
    BY <1>1 DEF Call
  <2> HIDE DEF acct, cut, q
  <2>3. QED
    BY <1>3, <1>7, <2>1, <2>2 DEF CreditCoopCommission
<1>8. CASE LockForDebit(r)
  <2> DEFINE q == [req[r] EXCEPT !.op = "debit", !.acct = coopAccount[req[r].coop]]
  <2>1. req' = [req EXCEPT ![r] = q]
    BY <1>1, <1>8 DEF LockForDebit
  <2>2. q.op = "debit" /\ q.ref = req[r].ref /\ q.driver = req[r].driver /\ q.coop = req[r].coop
    BY <1>1 DEF Call
  <2>3. QED
    BY <1>3, <1>8, <2>1, <2>2 DEF LockForDebit
<1>9. CASE AccountDeadlock(r) /\ ~End(r)
  <2> DEFINE tries == req[r].attempt + 1
             q == [req[r] EXCEPT !.op = "complete", !.seen = 0, !.attempt = tries]
  <2>1. req' = [req EXCEPT ![r] = q] /\ req[r].op = "account"
    BY <1>1, <1>9 DEF AccountDeadlock
  <2>2. q.op = "complete" /\ q.ref = req[r].ref /\ q.driver = req[r].driver /\ q.coop = req[r].coop
    BY <1>1 DEF Call
  <2> HIDE DEF tries, q
  <2>3. QED
    BY <1>3, <2>1, <2>2
<1>10. CASE SumPeriod(r) /\ ~End(r)
  <2>1. PICK gross \in Nat \ {0} :
          req' = [req EXCEPT ![r].op = "insert", ![r].amount = gross,
                             ![r].cut = Percent(gross, rate)]
    BY <1>10 DEF SumPeriod
  <2> DEFINE cut == Percent(gross, rate)
             q == [req[r] EXCEPT !.op = "insert", !.amount = gross, !.cut = cut]
  <2>2. req' = [req EXCEPT ![r] = q]
    BY <1>1, <2>1
  <2>3. q.op = "insert" /\ q.ref = req[r].ref /\ q.driver = req[r].driver /\ q.coop = req[r].coop
    BY <1>1 DEF Call
  <2>4. req[r].op = "sum"
    BY <1>10 DEF SumPeriod
  <2> HIDE DEF cut, q
  <2>5. QED
    BY <1>3, <2>2, <2>3, <2>4
<1>11. QED
  BY <1>2, <1>4, <1>5, <1>6, <1>7, <1>8, <1>9, <1>10

-----------------------------------------------------------------------------
(* Calls that write *)

(* What a posting adds to the wallets' books. *)
LEMMA WalletPostings ==
  ASSUME IInv, NEW r \in Reqs, req[r].driver \in Earners, req[r].ref # Nil,
         NEW kind \in EntryKinds, NEW change \in Int, PostEntry(r, kind, change),
         NEW d \in Earners, NEW k, NEW id
  PROVE  Postings(book'[d], k, id) =
           IF d = req[r].driver /\ kind = k /\ req[r].ref = id THEN Postings(book[d], k, id) + 1
                                                               ELSE Postings(book[d], k, id)
<1> DEFINE own == req[r].driver
           e == [kind |-> kind, ref |-> req[r].ref, amount |-> req[r].amount,
                 before |-> req[r].seen, after |-> req[r].seen + change]
<1>1. req[r] \in Call /\ book \in [Earners -> Seq(Entry)]
  BY DEF IInv, LedgerTypeOK
<1>2. e \in Entry /\ e.kind = kind /\ e.ref = req[r].ref
  BY <1>1 DEF Call, Entry
<1>3. book' = [book EXCEPT ![own] = Append(@, e)]
  BY DEF PostEntry
<1> HIDE DEF e
<1>4. book'[d] = IF d = own THEN Append(book[d], e) ELSE book[d]
  BY <1>1, <1>3
<1>5. book[d] \in Seq(Entry)
  BY <1>1
<1>6. CASE d = own
  BY <1>2, <1>4, <1>5, <1>6, PostingsAppend
<1>7. CASE d # own
  BY <1>4, <1>7
<1>8. QED
  BY <1>6, <1>7

(* What a posting adds to the cooperatives' books. *)
LEMMA CoopPostings ==
  ASSUME IInv, NEW r \in Reqs, req[r].coop \in Coops, req[r].ref # Nil,
         NEW kind \in EntryKinds, NEW amount \in Int, NEW after \in Account,
         PostCoop(r, kind, amount, after),
         NEW c \in Coops, NEW k, NEW id
  PROVE  Postings(coopBook'[c], k, id) =
           IF c = req[r].coop /\ kind = k /\ req[r].ref = id
           THEN Postings(coopBook[c], k, id) + 1 ELSE Postings(coopBook[c], k, id)
<1> DEFINE own == req[r].coop
           e == [kind |-> kind, ref |-> req[r].ref, amount |-> amount,
                 before |-> req[r].acct.gross, after |-> after.gross]
<1>1. req[r] \in Call /\ coopBook \in [Coops -> Seq(Entry)]
  BY DEF IInv, LedgerTypeOK
<1>2. e \in Entry /\ e.kind = kind /\ e.ref = req[r].ref
  BY <1>1 DEF Call, Entry, Account
<1>3. coopBook' = [coopBook EXCEPT ![own] = Append(@, e)]
  BY DEF PostCoop
<1> HIDE DEF e
<1>4. coopBook'[c] = IF c = own THEN Append(coopBook[c], e) ELSE coopBook[c]
  BY <1>1, <1>3
<1>5. coopBook[c] \in Seq(Entry)
  BY <1>1
<1>6. CASE c = own
  BY <1>2, <1>4, <1>5, <1>6, PostingsAppend
<1>7. CASE c # own
  BY <1>4, <1>7
<1>8. QED
  BY <1>6, <1>7

(* How often something was posted is a number. *)
LEMMA PostingsType ==
  ASSUME IInv
  PROVE  /\ \A d \in Earners : \A k, id : Postings(book[d], k, id) \in Nat
         /\ \A c \in Coops : \A k, id : Postings(coopBook[c], k, id) \in Nat
BY PlacesFinite DEF IInv, LedgerTypeOK

(* A call ends with a write that leaves the others in agreement. *)
LEMMA WriteEnds ==
  ASSUME IInv, PInv, NEW r \in Reqs, End(r),
         RechargesPosted', SettlementsPosted', CommissionOnBothBooks',
         \A s \in Reqs \ {r} : req'[s] = req[s] => CallAgrees(s)'
  PROVE  PInv'
<1>1. req'[r].op = "idle" /\ \A s \in Reqs \ {r} : req'[s] = req[s]
  BY DEF IInv, LedgerTypeOK, End, Idle
<1>2. CallAgrees(r)'
  BY <1>1 DEF CallAgrees
<1>3. CallsAgree'
  BY <1>1, <1>2 DEF CallsAgree
<1>4. NewRowsDiffer'
  BY <1>1 DEF PInv, NewRowsDiffer
<1>5. QED
  BY <1>3, <1>4 DEF PInv

(* The row of a requested recharge. *)
LEMMA InsertRechargePosts ==
  ASSUME IInv, PInv, NEW r \in Reqs, InsertRecharge(r)
  PROVE  PInv'
<1> DEFINE x == req[r].ref
           row == [status |-> "pending", driver |-> req[r].driver, amount |-> req[r].amount]
<1>1. /\ End(r) /\ recharge' = [recharge EXCEPT ![x] = row]
      /\ UNCHANGED <<trip, settlement, book, coopBook>>
  BY DEF InsertRecharge, coopTables
<1>2. x \in Recharges /\ req[r].driver \in Earners /\ recharge[x].status = "none"
  BY DEF InsertRecharge, IInv, CallsOK, CallOK, PInv, CallsAgree, CallAgrees
<1>3. \A y \in Recharges : recharge'[y] = IF y = x THEN row ELSE recharge[y]
  BY <1>1, <1>2 DEF IInv, LedgerTypeOK
<1>4. row.status = "pending" /\ row.driver = req[r].driver
  OBVIOUS
<1> HIDE DEF row, x
<1>5. RechargesPosted'
  BY <1>1, <1>2, <1>3, <1>4 DEF PInv, RechargesPosted
<1>6. SettlementsPosted' /\ CommissionOnBothBooks'
  BY <1>1 DEF PInv, SettlementsPosted, CommissionOnBothBooks
<1>7. ASSUME NEW s \in Reqs \ {r}, req'[s] = req[s] PROVE CallAgrees(s)'
  <2>1. CallAgrees(s) /\ CallOK(s)
    BY DEF PInv, CallsAgree, IInv, CallsOK
  <2>2. req[s].op = "upload" => req[s].ref # x
    BY <1>7 DEF PInv, NewRowsDiffer, InsertRecharge, x
  <2>3. req[s].op \in {"upload", "confirm", "credit", "reject"} =>
          req[s].ref \in Recharges /\ req[s].ref # x
    BY <1>2, <2>1, <2>2 DEF CallAgrees, CallOK
  <2>4. QED
    BY <1>1, <1>3, <1>7, <2>1, <2>3 DEF CallAgrees
<1>8. QED
  BY <1>1, <1>5, <1>6, <1>7, WriteEnds

(* The row of a settlement somebody asked for. *)
LEMMA InsertSettlementPosts ==
  ASSUME IInv, PInv, NEW r \in Reqs, InsertSettlement(r)
  PROVE  PInv'
<1> DEFINE x == req[r].ref
           row == [status |-> "pending", coop |-> req[r].coop,
                   gross |-> req[r].amount, fee |-> req[r].cut]
<1>1. /\ End(r) /\ settlement' = [settlement EXCEPT ![x] = row]
      /\ UNCHANGED <<trip, recharge, book, coopBook>>
  BY DEF InsertSettlement, walletTables
<1>2. x \in Settlements /\ req[r].coop \in Coops /\ settlement[x].status = "none"
  BY DEF InsertSettlement, IInv, CallsOK, CallOK, PInv, CallsAgree, CallAgrees
<1>3. \A y \in Settlements : settlement'[y] = IF y = x THEN row ELSE settlement[y]
  BY <1>1, <1>2 DEF IInv, LedgerTypeOK
<1>4. row.status = "pending" /\ row.coop = req[r].coop
  OBVIOUS
<1> HIDE DEF row, x
<1>5. SettlementsPosted'
  BY <1>1, <1>2, <1>3, <1>4 DEF PInv, SettlementsPosted
<1>6. RechargesPosted' /\ CommissionOnBothBooks'
  BY <1>1 DEF PInv, RechargesPosted, CommissionOnBothBooks
<1>7. ASSUME NEW s \in Reqs \ {r}, req'[s] = req[s] PROVE CallAgrees(s)'
  <2>1. CallAgrees(s) /\ CallOK(s)
    BY DEF PInv, CallsAgree, IInv, CallsOK
  <2>2. req[s].op \in {"sum", "insert"} => req[s].ref # x
    BY <1>7 DEF PInv, NewRowsDiffer, InsertSettlement, x
  <2>3. req[s].op \in {"sum", "insert", "close", "debit", "cancel"} =>
          req[s].ref \in Settlements /\ req[s].ref # x
    BY <1>2, <2>1, <2>2 DEF CallAgrees, CallOK
  <2>4. QED
    BY <1>1, <1>3, <1>7, <2>1, <2>3 DEF CallAgrees
<1>8. QED
  BY <1>1, <1>5, <1>6, <1>7, WriteEnds

(* A decision on a recharge keeps its owner. *)
LEMMA RechargeDecided ==
  ASSUME IInv, PInv, NEW r \in Reqs, NEW x \in Recharges,
         NEW status \in {"confirmed", "rejected"}, recharge[x].status # "none",
         recharge' = [recharge EXCEPT ![x].status = status], UNCHANGED <<trip, settlement>>
  PROVE  /\ recharge'[x].status = status /\ recharge'[x].driver = recharge[x].driver
         /\ \A y \in Recharges \ {x} : recharge'[y] = recharge[y]
         /\ \A s \in Reqs \ {r} : req'[s] = req[s] => CallAgrees(s)'
<1>1. recharge \in [Recharges -> RechargeRow] /\ recharge[x] \in RechargeRow
  BY DEF IInv, LedgerTypeOK
<1>2. recharge'[x].status = status /\ recharge'[x].driver = recharge[x].driver
  BY <1>1 DEF RechargeRow
<1>3. \A y \in Recharges \ {x} : recharge'[y] = recharge[y]
  BY <1>1
<1>4. ASSUME NEW s \in Reqs \ {r}, req'[s] = req[s] PROVE CallAgrees(s)'
  <2>1. CallAgrees(s) /\ CallOK(s)
    BY DEF PInv, CallsAgree, IInv, CallsOK
  <2>2. req[s].op \in {"upload", "confirm", "credit", "reject"} =>
          /\ req[s].ref \in Recharges
          /\ req[s].ref = x \/ recharge'[req[s].ref] = recharge[req[s].ref]
    BY <1>3, <2>1 DEF CallOK
  <2>3. status # "none"
    OBVIOUS
  <2>4. QED
    BY <1>2, <1>4, <2>1, <2>2, <2>3 DEF CallAgrees
<1>5. QED
  BY <1>2, <1>3, <1>4

(* A decision on a settlement keeps its owner. *)
LEMMA SettlementDecided ==
  ASSUME IInv, PInv, NEW r \in Reqs, NEW x \in Settlements,
         NEW status \in {"confirmed", "cancelled"}, settlement[x].status # "none",
         settlement' = [settlement EXCEPT ![x].status = status], UNCHANGED <<trip, recharge>>
  PROVE  /\ settlement'[x].status = status /\ settlement'[x].coop = settlement[x].coop
         /\ \A y \in Settlements \ {x} : settlement'[y] = settlement[y]
         /\ \A s \in Reqs \ {r} : req'[s] = req[s] => CallAgrees(s)'
<1>1. settlement \in [Settlements -> SettlementRow] /\ settlement[x] \in SettlementRow
  BY DEF IInv, LedgerTypeOK
<1>2. settlement'[x].status = status /\ settlement'[x].coop = settlement[x].coop
  BY <1>1 DEF SettlementRow
<1>3. \A y \in Settlements \ {x} : settlement'[y] = settlement[y]
  BY <1>1
<1>4. ASSUME NEW s \in Reqs \ {r}, req'[s] = req[s] PROVE CallAgrees(s)'
  <2>1. CallAgrees(s) /\ CallOK(s)
    BY DEF PInv, CallsAgree, IInv, CallsOK
  <2>2. req[s].op \in {"sum", "insert", "close", "debit", "cancel"} =>
          /\ req[s].ref \in Settlements
          /\ req[s].ref = x \/ settlement'[req[s].ref] = settlement[req[s].ref]
    BY <1>3, <2>1 DEF CallOK
  <2>3. status # "none"
    OBVIOUS
  <2>4. QED
    BY <1>2, <1>4, <2>1, <2>2, <2>3 DEF CallAgrees
<1>5. QED
  BY <1>2, <1>3, <1>4

(* A rejected recharge, whatever another call has booked of it. *)
LEMMA RejectPosts ==
  ASSUME IInv, PInv, NEW r \in Reqs, RejectRechargeWrite(r)
  PROVE  PInv'
<1> DEFINE x == req[r].ref
<1>1. /\ End(r) /\ recharge' = [recharge EXCEPT ![x].status = "rejected"]
      /\ UNCHANGED <<trip, settlement, book, coopBook>>
  BY DEF RejectRechargeWrite, coopTables
<1>2. x \in Recharges /\ recharge[x].status # "none"
  BY DEF RejectRechargeWrite, IInv, CallsOK, CallOK, PInv, CallsAgree, CallAgrees
<1> HIDE DEF x
<1>3. /\ recharge'[x].status = "rejected" /\ recharge'[x].driver = recharge[x].driver
      /\ \A y \in Recharges \ {x} : recharge'[y] = recharge[y]
      /\ \A s \in Reqs \ {r} : req'[s] = req[s] => CallAgrees(s)'
  BY <1>1, <1>2, RechargeDecided
<1>4. RechargesPosted'
  BY <1>1, <1>2, <1>3 DEF PInv, RechargesPosted
<1>5. SettlementsPosted' /\ CommissionOnBothBooks'
  BY <1>1 DEF PInv, SettlementsPosted, CommissionOnBothBooks
<1>6. QED
  BY <1>1, <1>3, <1>4, <1>5, WriteEnds

(* A cancelled settlement, whatever another call has booked of it. *)
LEMMA CancelPosts ==
  ASSUME IInv, PInv, NEW r \in Reqs, CancelSettlementWrite(r)
  PROVE  PInv'
<1> DEFINE x == req[r].ref
<1>1. /\ End(r) /\ settlement' = [settlement EXCEPT ![x].status = "cancelled"]
      /\ UNCHANGED <<trip, recharge, book, coopBook>>
  BY DEF CancelSettlementWrite, walletTables
<1>2. x \in Settlements /\ settlement[x].status # "none"
  BY DEF CancelSettlementWrite, IInv, CallsOK, CallOK, PInv, CallsAgree, CallAgrees
<1> HIDE DEF x
<1>3. /\ settlement'[x].status = "cancelled" /\ settlement'[x].coop = settlement[x].coop
      /\ \A y \in Settlements \ {x} : settlement'[y] = settlement[y]
      /\ \A s \in Reqs \ {r} : req'[s] = req[s] => CallAgrees(s)'
  BY <1>1, <1>2, SettlementDecided
<1>4. SettlementsPosted'
  BY <1>1, <1>2, <1>3 DEF PInv, SettlementsPosted
<1>5. RechargesPosted' /\ CommissionOnBothBooks'
  BY <1>1 DEF PInv, RechargesPosted, CommissionOnBothBooks
<1>6. QED
  BY <1>1, <1>3, <1>4, <1>5, WriteEnds

(* The credit of a recharge: the entry and the decision in one commit. *)
LEMMA CreditPosts ==
  ASSUME IInv, PInv, NEW r \in Reqs, CreditCommit(r)
  PROVE  PInv'
<1> DEFINE x == req[r].ref
           own == req[r].driver
           change == req[r].amount
<1>1. /\ End(r) /\ recharge' = [recharge EXCEPT ![x].status = "confirmed"]
      /\ PostEntry(r, "recharge", change)
      /\ UNCHANGED <<trip, settlement, coopBook>>
  BY DEF CreditCommit, coopTables
<1>2. /\ x \in Recharges /\ x # Nil /\ own \in Earners
      /\ recharge[x].status # "none" /\ recharge[x].driver = own
  BY NilAssumption DEF CreditCommit, IInv, CallsOK, CallOK, PInv, CallsAgree, CallAgrees
<1>3. change \in Int
  BY DEF IInv, LedgerTypeOK, Call
<1>4. \A d \in Earners : \A k, id :
        Postings(book'[d], k, id) =
          IF d = own /\ "recharge" = k /\ x = id THEN Postings(book[d], k, id) + 1
                                                ELSE Postings(book[d], k, id)
  BY <1>1, <1>2, <1>3, WalletPostings DEF EntryKinds
<1> HIDE DEF x, own, change
<1>5. /\ recharge'[x].status = "confirmed" /\ recharge'[x].driver = recharge[x].driver
      /\ \A y \in Recharges \ {x} : recharge'[y] = recharge[y]
      /\ \A s \in Reqs \ {r} : req'[s] = req[s] => CallAgrees(s)'
  BY <1>1, <1>2, RechargeDecided
<1>6. RechargesPosted'
  <2> SUFFICES ASSUME NEW y \in Recharges
               PROVE  /\ recharge'[y].status # "none" => recharge'[y].driver \in Earners
                      /\ recharge'[y].status \in {"none", "pending"} =>
                           \A d \in Earners : Postings(book'[d], "recharge", y) = 0
                      /\ recharge'[y].status = "confirmed" =>
                           Postings(book'[recharge'[y].driver], "recharge", y) > 0
    BY DEF RechargesPosted
  <2>1. CASE y = x
    <3>1. Postings(book[own], "recharge", x) \in Nat
      BY <1>2, PostingsType
    <3>2. Postings(book'[own], "recharge", x) = Postings(book[own], "recharge", x) + 1
      BY <1>2, <1>4
    <3>3. QED
      BY <1>2, <1>5, <2>1, <3>1, <3>2
  <2>2. CASE y # x
    <3>1. \A d \in Earners : Postings(book'[d], "recharge", y) = Postings(book[d], "recharge", y)
      BY <1>4, <2>2
    <3>2. recharge'[y] = recharge[y]
      BY <1>5, <2>2
    <3>3. QED
      BY <3>1, <3>2 DEF PInv, RechargesPosted
  <2>3. QED
    BY <2>1, <2>2
<1>7. SettlementsPosted'
  BY <1>1 DEF PInv, SettlementsPosted
<1>8. CommissionOnBothBooks'
  <2>1. \A t \in Trips : trip[t].cash => trip[t].driver \in Earners
    BY DEF IInv, LedgerTypeOK, TripRow
  <2>2. \A t \in Trips :
          trip[t].cash => Postings(book'[trip[t].driver], "commission", t) =
                            Postings(book[trip[t].driver], "commission", t)
    BY <1>4, <2>1
  <2>3. QED
    BY <1>1, <2>2 DEF PInv, CommissionOnBothBooks
<1>9. QED
  BY <1>1, <1>5, <1>6, <1>7, <1>8, WriteEnds

(* The debit of a settlement: the entry and the decision in one commit. *)
LEMMA DebitPosts ==
  ASSUME IInv, PInv, NEW r \in Reqs, DebitCommit(r)
  PROVE  PInv'
<1> DEFINE q == req[r]
           x == q.ref
           own == q.coop
           net == q.amount - q.cut
           after == [gross |-> Floor0(q.acct.gross - q.amount),
                     due |-> Floor0(q.acct.due - q.cut), net |-> Floor0(q.acct.net - net)]
<1>1. /\ End(r) /\ settlement' = [settlement EXCEPT ![x].status = "confirmed"]
      /\ PostCoop(r, "settlement", net, after)
      /\ UNCHANGED <<trip, recharge, book>>
  BY DEF DebitCommit, walletTables
<1>2. /\ x \in Settlements /\ x # Nil /\ own \in Coops
      /\ settlement[x].status # "none" /\ settlement[x].coop = own
  BY NilAssumption DEF DebitCommit, IInv, CallsOK, CallOK, PInv, CallsAgree, CallAgrees
<1>3. net \in Int /\ after \in Account
  <2>1. q \in Call
    BY DEF IInv, LedgerTypeOK
  <2>2. QED
    BY <2>1 DEF Call, Account, Floor0
<1> HIDE DEF net, after
<1>4. \A c \in Coops : \A k, id :
        Postings(coopBook'[c], k, id) =
          IF c = own /\ "settlement" = k /\ x = id THEN Postings(coopBook[c], k, id) + 1
                                                  ELSE Postings(coopBook[c], k, id)
  BY <1>1, <1>2, <1>3, CoopPostings DEF EntryKinds
<1> HIDE DEF x, own, q
<1>5. /\ settlement'[x].status = "confirmed" /\ settlement'[x].coop = settlement[x].coop
      /\ \A y \in Settlements \ {x} : settlement'[y] = settlement[y]
      /\ \A s \in Reqs \ {r} : req'[s] = req[s] => CallAgrees(s)'
  BY <1>1, <1>2, SettlementDecided
<1>6. SettlementsPosted'
  <2> SUFFICES ASSUME NEW y \in Settlements
               PROVE  /\ settlement'[y].status # "none" => settlement'[y].coop \in Coops
                      /\ settlement'[y].status \in {"none", "pending"} =>
                           \A c \in Coops : Postings(coopBook'[c], "settlement", y) = 0
                      /\ settlement'[y].status = "confirmed" =>
                           Postings(coopBook'[settlement'[y].coop], "settlement", y) > 0
    BY DEF SettlementsPosted
  <2>1. CASE y = x
    <3>1. Postings(coopBook[own], "settlement", x) \in Nat
      BY <1>2, PostingsType
    <3>2. Postings(coopBook'[own], "settlement", x) = Postings(coopBook[own], "settlement", x) + 1
      BY <1>2, <1>4
    <3>3. QED
      BY <1>2, <1>5, <2>1, <3>1, <3>2
  <2>2. CASE y # x
    <3>1. \A c \in Coops :
            Postings(coopBook'[c], "settlement", y) = Postings(coopBook[c], "settlement", y)
      BY <1>4, <2>2
    <3>2. settlement'[y] = settlement[y]
      BY <1>5, <2>2
    <3>3. QED
      BY <3>1, <3>2 DEF PInv, SettlementsPosted
  <2>3. QED
    BY <2>1, <2>2
<1>7. RechargesPosted'
  BY <1>1 DEF PInv, RechargesPosted
<1>8. CommissionOnBothBooks'
  <2>1. \A t \in Trips : trip[t].coop # Nil => trip[t].coop \in Coops
    BY DEF IInv, LedgerTypeOK, TripRow
  <2>2. \A t \in Trips :
          trip[t].coop # Nil => Postings(coopBook'[trip[t].coop], "commission", t) =
                                  Postings(coopBook[trip[t].coop], "commission", t)
    BY <1>4, <2>1
  <2>3. QED
    BY <1>1, <2>2 DEF PInv, CommissionOnBothBooks
<1>9. QED
  BY <1>1, <1>5, <1>6, <1>7, <1>8, WriteEnds

(* What a completion adds to the driver's books, and to no other count. *)
LEMMA CompletionPays ==
  ASSUME IInv, NEW r \in Reqs, CompleteCommit(r)
  PROVE  \A d \in Earners : \A k, id :
           Postings(book'[d], k, id) =
             IF req[r].driver = d /\ k = "commission" /\ id = req[r].ref
             THEN Postings(book[d], k, id) + 1 ELSE Postings(book[d], k, id)
<1>1. req[r] \in Call /\ req[r].ref \in Trips /\ req[r].ref # Nil
  BY NilAssumption DEF CompleteCommit, IInv, LedgerTypeOK, CallsOK, CallOK
<1>2. CASE req[r].driver = Nil
  BY NilAssumption, <1>2 DEF CompleteCommit
<1>3. CASE req[r].driver # Nil
  <2> DEFINE change == -req[r].amount
  <2>1. req[r].driver \in Earners /\ change \in Int
    BY <1>1, <1>3 DEF Call
  <2>2. PostEntry(r, "commission", change)
    BY <1>3 DEF CompleteCommit
  <2> HIDE DEF change
  <2>3. QED
    BY <1>1, <2>1, <2>2, WalletPostings DEF EntryKinds
<1>4. QED
  BY <1>2, <1>3

(* What a completion adds to the cooperative's books, and to no other count. *)
LEMMA CompletionShares ==
  ASSUME IInv, NEW r \in Reqs, CompleteCommit(r)
  PROVE  \A c \in Coops : \A k, id :
           Postings(coopBook'[c], k, id) =
             IF req[r].coop = c /\ k = "commission" /\ id = req[r].ref
             THEN Postings(coopBook[c], k, id) + 1 ELSE Postings(coopBook[c], k, id)
<1>1. req[r] \in Call /\ req[r].ref \in Trips /\ req[r].ref # Nil
  BY NilAssumption DEF CompleteCommit, IInv, LedgerTypeOK, CallsOK, CallOK
<1>2. CASE req[r].coop = Nil
  BY NilAssumption, <1>2 DEF CompleteCommit
<1>3. CASE req[r].coop # Nil
  <2> DEFINE q == req[r]
             amount == q.amount
             after == [gross |-> q.acct.gross + q.amount, due |-> q.acct.due + q.cut,
                       net |-> q.acct.net + (q.amount - q.cut)]
  <2>1. q.coop \in Coops /\ amount \in Int /\ after \in Account
    BY <1>1, <1>3 DEF Call, Account
  <2>2. PostCoop(r, "commission", amount, after)
    BY <1>3 DEF CompleteCommit
  <2> HIDE DEF amount, after
  <2>3. QED
    BY <1>1, <2>1, <2>2, CoopPostings DEF EntryKinds
<1>4. QED
  BY <1>2, <1>3

(* The commit of completeTrip: the trip and both of its books. *)
LEMMA CompletePosts ==
  ASSUME IInv, PInv, NEW r \in Reqs, CompleteCommit(r)
  PROVE  PInv'
<1> DEFINE q == req[r]
           x == q.ref
<1>1. /\ End(r) /\ trip' = [trip EXCEPT ![x].status = "completed"]
      /\ UNCHANGED <<recharge, settlement>>
  BY DEF CompleteCommit
<1>2. /\ x \in Trips
      /\ q.driver = IF trip[x].cash THEN trip[x].driver ELSE Nil
      /\ q.coop = trip[x].coop
  BY DEF CompleteCommit, IInv, CallsOK, CallOK, PInv, CallsAgree, CallAgrees
<1>3. \A t \in Trips : /\ trip[t] \in TripRow /\ trip[t].driver \in Earners
                       /\ trip[t].coop # Nil => trip[t].coop \in Coops
  BY DEF IInv, LedgerTypeOK, TripRow
<1>4. /\ trip'[x].status = "completed" /\ trip'[x].driver = trip[x].driver
      /\ trip'[x].coop = trip[x].coop /\ trip'[x].cash = trip[x].cash
      /\ \A t \in Trips \ {x} : trip'[t] = trip[t]
  <2>1. trip \in [Trips -> TripRow] /\ trip[x] \in TripRow
    BY <1>2 DEF IInv, LedgerTypeOK
  <2> HIDE DEF x
  <2>2. QED
    BY <1>1, <1>2, <2>1, Zenon DEF TripRow
<1>5. RechargesPosted' /\ SettlementsPosted'
  <2>1. \A d \in Earners : \A id : Postings(book'[d], "recharge", id) = Postings(book[d], "recharge", id)
    BY CompletionPays
  <2>2. \A c \in Coops : \A id :
          Postings(coopBook'[c], "settlement", id) = Postings(coopBook[c], "settlement", id)
    BY CompletionShares
  <2>3. QED
    BY <1>1, <2>1, <2>2 DEF PInv, RechargesPosted, SettlementsPosted
<1>6. CommissionOnBothBooks'
  <2> SUFFICES ASSUME NEW t \in Trips
               PROVE  LET row == trip'[t]
                          paid == IF row.cash THEN Postings(book'[row.driver], "commission", t) ELSE 0
                          shared == IF row.coop # Nil
                                    THEN Postings(coopBook'[row.coop], "commission", t) ELSE 0 IN
                      /\ row.cash /\ row.coop # Nil => paid = shared
                      /\ row.status = "in_progress" => paid = 0 /\ shared = 0
                      /\ row.status = "completed" /\ row.cash => paid > 0
                      /\ row.status = "completed" /\ row.coop # Nil => shared > 0
    BY DEF CommissionOnBothBooks
  <2>1. CASE t # x
    <3>1. /\ Postings(book'[trip[t].driver], "commission", t) =
               Postings(book[trip[t].driver], "commission", t)
          /\ trip[t].coop # Nil =>
               Postings(coopBook'[trip[t].coop], "commission", t) =
                 Postings(coopBook[trip[t].coop], "commission", t)
      BY <1>3, <2>1, CompletionPays, CompletionShares
    <3>2. trip'[t] = trip[t]
      BY <1>4, <2>1
    <3>3. QED
      BY <3>1, <3>2 DEF PInv, CommissionOnBothBooks
  <2>2. CASE t = x
    <3>1. trip[x].cash => Postings(book'[trip[x].driver], "commission", x) =
                            Postings(book[trip[x].driver], "commission", x) + 1
      BY <1>2, <1>3, CompletionPays
    <3>2. trip[x].coop # Nil => Postings(coopBook'[trip[x].coop], "commission", x) =
                                  Postings(coopBook[trip[x].coop], "commission", x) + 1
      BY <1>2, <1>3, CompletionShares
    <3>3. /\ Postings(book[trip[x].driver], "commission", x) \in Nat
          /\ trip[x].coop # Nil => Postings(coopBook[trip[x].coop], "commission", x) \in Nat
      BY <1>2, <1>3, PostingsType
    <3>4. trip[x].cash /\ trip[x].coop # Nil =>
            Postings(book[trip[x].driver], "commission", x) =
              Postings(coopBook[trip[x].coop], "commission", x)
      BY <1>2 DEF PInv, CommissionOnBothBooks
    <3> HIDE DEF x
    <3>5. QED
      BY <1>4, <2>2, <3>1, <3>2, <3>3, <3>4
  <2>3. QED
    BY <2>1, <2>2
<1>7. ASSUME NEW s \in Reqs \ {r}, req'[s] = req[s] PROVE CallAgrees(s)'
  <2>1. CallAgrees(s) /\ CallOK(s)
    BY DEF PInv, CallsAgree, IInv, CallsOK
  <2>2. req[s].op \in {"complete", "share", "account", "commit"} =>
          /\ req[s].ref \in Trips
          /\ \/ req[s].ref = x
             \/ trip'[req[s].ref] = trip[req[s].ref]
    BY <1>4, <2>1 DEF CallOK
  <2> HIDE DEF x
  <2>3. QED
    BY <1>1, <1>4, <1>7, <2>1, <2>2 DEF CallAgrees
<1>8. QED
  BY <1>1, <1>5, <1>6, <1>7, WriteEnds

(* Steps of no call. *)
LEMMA OthersPost ==
  ASSUME IInv, PInv, (\E p \in Rates : SetPlatformFeeRate(p)) \/ Crash \/ UNCHANGED ledgerVars
  PROVE  PInv'
<1>1. /\ UNCHANGED <<trip, recharge, settlement, book, coopBook>>
      /\ req' = req \/ req' = [r \in Reqs |-> Idle]
  BY DEF SetPlatformFeeRate, Crash, ledgerVars, walletTables, coopTables
<1>2. RechargesPosted' /\ SettlementsPosted' /\ CommissionOnBothBooks'
  BY <1>1 DEF PInv, RechargesPosted, SettlementsPosted, CommissionOnBothBooks
<1>3. CallsAgree' /\ NewRowsDiffer'
  <2>1. CASE req' = req
    BY <1>1, <2>1 DEF PInv, CallsAgree, CallAgrees, NewRowsDiffer
  <2>2. CASE req' = [r \in Reqs |-> Idle]
    <3>1. \A r \in Reqs : req'[r].op = "idle"
      BY <2>2 DEF Idle
    <3>2. QED
      BY <3>1 DEF CallsAgree, CallAgrees, NewRowsDiffer
  <2>3. QED
    BY <1>1, <2>1, <2>2
<1>4. QED
  BY <1>2, <1>3 DEF PInv

-----------------------------------------------------------------------------
(* Theorems *)

(* Every step keeps the invariant. *)
LEMMA NextPInv == IInv /\ PInv /\ [LedgerNext]_ledgerVars => PInv'
<1> SUFFICES ASSUME IInv, PInv, [LedgerNext]_ledgerVars PROVE PInv'
  OBVIOUS
<1>1. ASSUME NEW r \in Reqs, RechargeSteps(r) PROVE PInv'
  BY <1>1, BeginAgrees, ReadsAgree, InsertRechargePosts, RejectPosts, CreditPosts
     DEF RechargeSteps
<1>2. ASSUME NEW r \in Reqs, CompletionSteps(r) PROVE PInv'
  BY <1>2, BeginAgrees, ReadsAgree, CompletePosts DEF CompletionSteps
<1>3. ASSUME NEW r \in Reqs, SettlementSteps(r) PROVE PInv'
  BY <1>3, BeginAgrees, ReadsAgree, InsertSettlementPosts, CancelPosts, DebitPosts
     DEF SettlementSteps
<1>4. ASSUME NEW r \in Reqs, Fail(r) PROVE PInv'
  BY <1>4, QuietIdle DEF Fail, walletTables, coopTables
<1>5. QED
  BY <1>1, <1>2, <1>3, <1>4, OthersPost DEF LedgerNext

(* What a call in flight writes agrees with the row it was sent for, and what
   a row says of itself agrees with the books. *)
THEOREM PostingsInvariance == LedgerSpec => []PInv
<1>1. LedgerSpec => [](IInv /\ PInv)
  BY InitIInv, InitPInv, NextIInv, NextPInv, PTL DEF LedgerSpec
<1>2. QED
  BY <1>1, PTL

(* A recharge or settlement that reads as confirmed was posted to the book of
   its owner, and a pending one was not (wallet.service.ts, confirmRecharge;
   accounting.service.ts, confirmSettlement), whatever interleaves or fails. *)
THEOREM ConfirmedWasPosted == LedgerSpec => []PostedWhenConfirmed
<1>1. PInv => PostedWhenConfirmed
  BY DEF PInv, RechargesPosted, SettlementsPosted, PostedWhenConfirmed
<1>2. QED
  BY <1>1, PostingsInvariance, PTL

(* The commission of a trip is as often on the driver's book as on the
   cooperative's, never before the trip is completed and always after
   (completeTrip's transaction, its retries after a deadlock included). *)
THEOREM CommissionInBothBooks == LedgerSpec => []CommissionOnBothBooks
<1>1. PInv => CommissionOnBothBooks
  BY DEF PInv
<1>2. QED
  BY <1>1, PostingsInvariance, PTL

-----------------------------------------------------------------------------
(* Money is posted once, where no two calls decide on one row *)

\* Calls that decide on a recharge, complete a trip, decide on a settlement.
OnRecharge(r) == req[r].op \in {"confirm", "credit", "reject"}
OnTrip(r) == req[r].op \in {"complete", "share", "account", "commit"}
OnSettlement(r) == req[r].op \in {"close", "debit", "cancel"}

(* The condition under which a status that was read still stands when the
   call writes: the row is nobody else's at the time. *)
RowsApart ==
  \A r, s \in Reqs :
    \/ OnRecharge(r) /\ OnRecharge(s)
    \/ OnTrip(r) /\ OnTrip(s)
    \/ OnSettlement(r) /\ OnSettlement(s)
    => r = s \/ req[r].ref # req[s].ref

(* A recharge is on its driver's book once if it is confirmed, and on no book
   otherwise; so are a settlement and the commission of a trip on theirs. *)
RechargesOnce ==
  \A x \in Recharges, d \in Earners :
    Postings(book[d], "recharge", x) =
      IF recharge[x].status = "confirmed" /\ recharge[x].driver = d THEN 1 ELSE 0

SettlementsOnce ==
  \A s \in Settlements, c \in Coops :
    Postings(coopBook[c], "settlement", s) =
      IF settlement[s].status = "confirmed" /\ settlement[s].coop = c THEN 1 ELSE 0

CommissionsOnce ==
  \A t \in Trips :
    /\ \A d \in Earners :
         Postings(book[d], "commission", t) =
           IF trip[t].status = "completed" /\ trip[t].cash /\ trip[t].driver = d THEN 1 ELSE 0
    /\ \A c \in Coops :
         Postings(coopBook[c], "commission", t) =
           IF trip[t].status = "completed" /\ trip[t].coop = c THEN 1 ELSE 0

EachPostedOnce == RechargesOnce /\ SettlementsOnce /\ CommissionsOnce

(* What is decided stays decided: no write takes back a confirmation, a
   rejection, a cancellation or a completion. *)
DecisionsStand ==
  /\ \A x \in Recharges :
       recharge[x].status \in {"confirmed", "rejected"} => recharge'[x] = recharge[x]
  /\ \A s \in Settlements :
       settlement[s].status \in {"confirmed", "cancelled"} => settlement'[s] = settlement[s]
  /\ \A t \in Trips : trip[t].status = "completed" => trip'[t] = trip[t]

\* What a call decides on still waits for it.
RowWaits(r) ==
  /\ OnRecharge(r) => recharge[req[r].ref].status = "pending"
  /\ OnTrip(r) => trip[req[r].ref].status = "in_progress"
  /\ OnSettlement(r) => settlement[req[r].ref].status = "pending"

OnceInv == EachPostedOnce /\ \A r \in Reqs : RowWaits(r)

LEMMA InitOnceInv == LedgerInit => OnceInv
<1> SUFFICES ASSUME LedgerInit PROVE OnceInv
  OBVIOUS
<1>1. /\ \A x \in Recharges : recharge[x].status = "none"
      /\ \A s \in Settlements : settlement[s].status = "none"
      /\ \A d \in Earners : book[d] = <<>>
      /\ \A c \in Coops : coopBook[c] = <<>>
      /\ \A t \in Trips : trip[t].status = "in_progress"
      /\ \A r \in Reqs : req[r].op = "idle"
  BY DEF LedgerInit, NoRecharge, NoSettlement, Idle
<1>2. EachPostedOnce
  BY <1>1, NoPostings DEF EachPostedOnce, RechargesOnce, SettlementsOnce, CommissionsOnce
<1>3. \A r \in Reqs : RowWaits(r)
  BY <1>1 DEF RowWaits, OnRecharge, OnTrip, OnSettlement
<1>4. QED
  BY <1>2, <1>3 DEF OnceInv

(* A step that writes no row: the books stand, and so does what the calls
   know of it that go on as they were. *)
LEMMA QuietOnce ==
  ASSUME IInv, OnceInv, NEW r \in Reqs, NEW q, req' = [req EXCEPT ![r] = q],
         UNCHANGED <<trip, recharge, settlement, book, coopBook>>,
         RowWaits(r)'
  PROVE  OnceInv' /\ DecisionsStand
<1>1. req'[r] = q /\ \A s \in Reqs \ {r} : req'[s] = req[s]
  BY DEF IInv, LedgerTypeOK
<1>2. EachPostedOnce'
  BY DEF OnceInv, EachPostedOnce, RechargesOnce, SettlementsOnce, CommissionsOnce
<1>3. \A s \in Reqs : RowWaits(s)'
  BY <1>1 DEF OnceInv, RowWaits, OnRecharge, OnTrip, OnSettlement
<1>4. QED
  BY <1>2, <1>3 DEF OnceInv, DecisionsStand

(* A call ends without a trace. *)
LEMMA EndOnce ==
  ASSUME IInv, OnceInv, NEW r \in Reqs, End(r),
         UNCHANGED <<trip, recharge, settlement, book, coopBook>>
  PROVE  OnceInv' /\ DecisionsStand
<1>1. req' = [req EXCEPT ![r] = Idle] /\ Idle.op = "idle"
  BY DEF End, Idle
<1>2. req'[r] = Idle
  BY <1>1 DEF IInv, LedgerTypeOK
<1>3. RowWaits(r)'
  BY <1>1, <1>2 DEF RowWaits, OnRecharge, OnTrip, OnSettlement
<1>4. QED
  BY <1>1, <1>3, QuietOnce

(* A call goes on with a row that still waits for its decision, or arrives
   at one. *)
LEMMA ReadsOnce ==
  ASSUME IInv, OnceInv, NEW r \in Reqs, NEW q, req' = [req EXCEPT ![r] = q],
         UNCHANGED <<trip, recharge, settlement, book, coopBook>>,
         \/ q.op \in {"upload", "sum", "insert"}
         \/ /\ q.op \in {"confirm", "credit", "reject"}
            /\ recharge[q.ref].status = "pending"
         \/ /\ q.op \in {"complete", "share", "account", "commit"}
            /\ trip[q.ref].status = "in_progress"
         \/ /\ q.op \in {"close", "debit", "cancel"}
            /\ settlement[q.ref].status = "pending"
  PROVE  OnceInv' /\ DecisionsStand
<1>1. req'[r] = q
  BY DEF IInv, LedgerTypeOK
<1>2. RowWaits(r)'
  BY <1>1 DEF RowWaits, OnRecharge, OnTrip, OnSettlement
<1>3. QED
  BY <1>2, QuietOnce

(* A call arrives: it has just read a row that waits for a decision. *)
LEMMA BeginOnce ==
  ASSUME IInv, OnceInv, NEW r \in Reqs,
         \/ \E x \in Recharges :
              \/ ConfirmRecharge(r, x) \/ RejectRecharge(r, x)
              \/ \E d \in Earners : RequestRecharge(r, x, d)
         \/ \E t \in Trips : CompleteTrip(r, t)
         \/ \E s \in Settlements :
              \/ ConfirmSettlement(r, s) \/ CancelSettlement(r, s)
              \/ \E c \in Coops : CreateSettlement(r, s, c)
  PROVE  OnceInv' /\ DecisionsStand
<1>1. UNCHANGED <<trip, recharge, settlement, book, coopBook>>
  BY DEF ConfirmRecharge, RejectRecharge, RequestRecharge, CompleteTrip, ConfirmSettlement,
         CancelSettlement, CreateSettlement, walletTables, coopTables
<1>2. ASSUME NEW x \in Recharges, NEW d \in Earners, RequestRecharge(r, x, d)
      PROVE  OnceInv' /\ DecisionsStand
  <2>1. PICK a \in Amounts :
          req' = [req EXCEPT ![r] = [Idle EXCEPT !.op = "upload", !.ref = x,
                                                 !.driver = d, !.amount = a]]
    BY <1>2 DEF RequestRecharge, Begin
  <2>2. QED
    BY <1>1, <2>1, ReadsOnce DEF Idle
<1>3. ASSUME NEW x \in Recharges, ConfirmRecharge(r, x) PROVE OnceInv' /\ DecisionsStand
  BY <1>1, <1>3, ReadsOnce DEF ConfirmRecharge, Begin, Idle
<1>4. ASSUME NEW x \in Recharges, RejectRecharge(r, x) PROVE OnceInv' /\ DecisionsStand
  BY <1>1, <1>4, ReadsOnce DEF RejectRecharge, Begin, Idle
<1>5. ASSUME NEW t \in Trips, CompleteTrip(r, t) PROVE OnceInv' /\ DecisionsStand
  <2> DEFINE driver == IF trip[t].cash THEN trip[t].driver ELSE Nil
             coop == trip[t].coop
  <2>1. PICK fee \in Fees :
          req' = [req EXCEPT ![r] = [Idle EXCEPT !.op = "complete", !.ref = t, !.amount = fee,
                                                 !.driver = driver, !.coop = coop]]
    BY <1>5 DEF CompleteTrip, Begin
  <2> DEFINE q == [Idle EXCEPT !.op = "complete", !.ref = t, !.amount = fee,
                               !.driver = driver, !.coop = coop]
  <2>2. trip[t].status = "in_progress"
    BY <1>5 DEF CompleteTrip
  <2> HIDE DEF driver, coop
  <2>3. q.op = "complete" /\ q.ref = t
    BY DEF Idle
  <2>4. req' = [req EXCEPT ![r] = q]
    BY <2>1
  <2> HIDE DEF q
  <2>5. QED
    BY <1>1, <2>2, <2>3, <2>4, ReadsOnce
<1>6. ASSUME NEW s \in Settlements, ConfirmSettlement(r, s) PROVE OnceInv' /\ DecisionsStand
  BY <1>1, <1>6, ReadsOnce DEF ConfirmSettlement, Begin, Idle
<1>7. ASSUME NEW s \in Settlements, CancelSettlement(r, s) PROVE OnceInv' /\ DecisionsStand
  BY <1>1, <1>7, ReadsOnce DEF CancelSettlement, Begin, Idle
<1>8. ASSUME NEW s \in Settlements, NEW c \in Coops, CreateSettlement(r, s, c)
      PROVE  OnceInv' /\ DecisionsStand
  BY <1>1, <1>8, ReadsOnce DEF CreateSettlement, Begin, Idle
<1>9. QED
  BY <1>2, <1>3, <1>4, <1>5, <1>6, <1>7, <1>8

(* A call goes on with the row it has, a retry after a deadlock included. *)
LEMMA GoesOnOnce ==
  ASSUME IInv, OnceInv, NEW r \in Reqs,
         \/ LockForCredit(r) \/ DeductCommission(r) \/ InsertIgnore(r)
         \/ CreditCoopCommission(r) \/ LockForDebit(r) \/ AccountDeadlock(r) \/ SumPeriod(r)
  PROVE  OnceInv' /\ DecisionsStand
<1>1. /\ UNCHANGED <<trip, recharge, settlement, book, coopBook>>
      /\ req \in [Reqs -> Call] /\ req[r] \in Call
  BY DEF LockForCredit, DeductCommission, InsertIgnore, CreditCoopCommission, LockForDebit,
         AccountDeadlock, SumPeriod, walletTables, coopTables, IInv, LedgerTypeOK
<1>2. RowWaits(r)
  BY DEF OnceInv
<1>3. CASE End(r)
  BY <1>1, <1>3, EndOnce
<1>4. ASSUME NEW q, req' = [req EXCEPT ![r] = q], q.ref = req[r].ref,
             \/ req[r].op = "confirm" /\ q.op = "credit"
             \/ /\ req[r].op \in {"complete", "share", "account"}
                /\ q.op \in {"complete", "share", "account", "commit"}
             \/ req[r].op = "close" /\ q.op = "debit"
             \/ req[r].op = "sum" /\ q.op = "insert"
      PROVE  OnceInv' /\ DecisionsStand
  BY <1>1, <1>2, <1>4, ReadsOnce DEF RowWaits, OnRecharge, OnTrip, OnSettlement
<1>5. CASE LockForCredit(r)
  <2> DEFINE q == [req[r] EXCEPT !.op = "credit", !.seen = balance[req[r].driver]]
  <2>1. req' = [req EXCEPT ![r] = q] /\ req[r].op = "confirm"
    BY <1>1, <1>5 DEF LockForCredit
  <2>2. q.op = "credit" /\ q.ref = req[r].ref
    BY <1>1 DEF Call
  <2>3. QED
    BY <1>4, <2>1, <2>2
<1>6. CASE DeductCommission(r)
  <2> DEFINE op == IF req[r].coop = Nil THEN "commit" ELSE "share"
             seen == IF req[r].driver = Nil THEN 0 ELSE balance[req[r].driver]
             q == [req[r] EXCEPT !.op = op, !.seen = seen]
  <2>1. req' = [req EXCEPT ![r] = q] /\ req[r].op = "complete"
    BY <1>1, <1>6 DEF DeductCommission
  <2>2. q.op = op /\ q.ref = req[r].ref
    BY <1>1 DEF Call
  <2>3. op \in {"share", "commit"}
    OBVIOUS
  <2> HIDE DEF op, seen, q
  <2>4. QED
    BY <1>4, <2>1, <2>2, <2>3
<1>7. CASE InsertIgnore(r)
  <2> DEFINE q == [req[r] EXCEPT !.op = "account"]
  <2>1. req' = [req EXCEPT ![r] = q] /\ req[r].op = "share"
    BY <1>1, <1>7 DEF InsertIgnore, Advance
  <2>2. q.op = "account" /\ q.ref = req[r].ref
    BY <1>1 DEF Call
  <2>3. QED
    BY <1>4, <2>1, <2>2
<1>8. CASE CreditCoopCommission(r)
  <2> DEFINE acct == coopAccount[req[r].coop]
             cut == Percent(req[r].amount, rate)
             q == [req[r] EXCEPT !.op = "commit", !.acct = acct, !.cut = cut]
  <2>1. req' = [req EXCEPT ![r] = q] /\ req[r].op = "account"
    BY <1>1, <1>8 DEF CreditCoopCommission
  <2>2. q.op = "commit" /\ q.ref = req[r].ref
    BY <1>1 DEF Call
  <2> HIDE DEF acct, cut, q
  <2>3. QED
    BY <1>4, <2>1, <2>2
<1>9. CASE LockForDebit(r)
  <2> DEFINE q == [req[r] EXCEPT !.op = "debit", !.acct = coopAccount[req[r].coop]]
  <2>1. req' = [req EXCEPT ![r] = q] /\ req[r].op = "close"
    BY <1>1, <1>9 DEF LockForDebit
  <2>2. q.op = "debit" /\ q.ref = req[r].ref
    BY <1>1 DEF Call
  <2>3. QED
    BY <1>4, <2>1, <2>2
<1>10. CASE AccountDeadlock(r) /\ ~End(r)
  <2> DEFINE tries == req[r].attempt + 1
             q == [req[r] EXCEPT !.op = "complete", !.seen = 0, !.attempt = tries]
  <2>1. req' = [req EXCEPT ![r] = q] /\ req[r].op = "account"
    BY <1>1, <1>10 DEF AccountDeadlock
  <2>2. q.op = "complete" /\ q.ref = req[r].ref
    BY <1>1 DEF Call
  <2> HIDE DEF tries, q
  <2>3. QED
    BY <1>4, <2>1, <2>2
<1>11. CASE SumPeriod(r) /\ ~End(r)
  <2>1. PICK gross \in Nat \ {0} :
          req' = [req EXCEPT ![r].op = "insert", ![r].amount = gross,
                             ![r].cut = Percent(gross, rate)]
    BY <1>11 DEF SumPeriod
  <2> DEFINE cut == Percent(gross, rate)
             q == [req[r] EXCEPT !.op = "insert", !.amount = gross, !.cut = cut]
  <2>2. req' = [req EXCEPT ![r] = q] /\ req[r].op = "sum"
    BY <1>1, <1>11, <2>1 DEF SumPeriod
  <2>3. q.op = "insert" /\ q.ref = req[r].ref
    BY <1>1 DEF Call
  <2> HIDE DEF cut, q
  <2>4. QED
    BY <1>4, <2>2, <2>3
<1>12. QED
  BY <1>3, <1>5, <1>6, <1>7, <1>8, <1>9, <1>10, <1>11

(* A call ends with its write.  It has changed no row but its own, which was
   nobody else's, or one that nobody had read before. *)
LEMMA WriteOnce ==
  ASSUME IInv, OnceInv, RowsApart, NEW r \in Reqs, End(r), EachPostedOnce',
         \A y \in Recharges : \/ recharge'[y] = recharge[y]
                              \/ recharge[y].status = "none"
                              \/ OnRecharge(r) /\ y = req[r].ref,
         \A y \in Settlements : \/ settlement'[y] = settlement[y]
                                \/ settlement[y].status = "none"
                                \/ OnSettlement(r) /\ y = req[r].ref,
         \A y \in Trips : \/ trip'[y] = trip[y]
                          \/ OnTrip(r) /\ y = req[r].ref
  PROVE  OnceInv' /\ DecisionsStand
<1>1. req'[r].op = "idle" /\ \A s \in Reqs \ {r} : req'[s] = req[s]
  BY DEF IInv, LedgerTypeOK, End, Idle
<1>2. RowWaits(r)'
  BY <1>1 DEF RowWaits, OnRecharge, OnTrip, OnSettlement
<1>3. ASSUME NEW s \in Reqs \ {r} PROVE RowWaits(s)'
  <2>1. RowWaits(s) /\ CallOK(s) /\ req'[s] = req[s]
    BY <1>1 DEF OnceInv, IInv, CallsOK
  <2>2. OnRecharge(s) => recharge'[req[s].ref] = recharge[req[s].ref]
    BY <2>1 DEF RowWaits, CallOK, OnRecharge, RowsApart
  <2>3. OnTrip(s) => trip'[req[s].ref] = trip[req[s].ref]
    BY <2>1 DEF CallOK, OnTrip, RowsApart
  <2>4. OnSettlement(s) => settlement'[req[s].ref] = settlement[req[s].ref]
    BY <2>1 DEF RowWaits, CallOK, OnSettlement, RowsApart
  <2>5. QED
    BY <2>1, <2>2, <2>3, <2>4 DEF RowWaits, OnRecharge, OnTrip, OnSettlement
<1>4. DecisionsStand
  BY DEF OnceInv, RowWaits, DecisionsStand
<1>5. QED
  BY <1>2, <1>3, <1>4 DEF OnceInv

(* A new recharge is on no book, and nobody decides on it yet. *)
LEMMA InsertRechargeOnce ==
  ASSUME IInv, PInv, OnceInv, RowsApart, NEW r \in Reqs, InsertRecharge(r)
  PROVE  OnceInv' /\ DecisionsStand
<1> DEFINE x == req[r].ref
           row == [status |-> "pending", driver |-> req[r].driver, amount |-> req[r].amount]
<1>1. /\ End(r) /\ recharge' = [recharge EXCEPT ![x] = row]
      /\ UNCHANGED <<trip, settlement, book, coopBook>>
  BY DEF InsertRecharge, coopTables
<1>2. x \in Recharges /\ recharge[x].status = "none" /\ row.status = "pending"
  BY DEF InsertRecharge, IInv, CallsOK, CallOK, PInv, CallsAgree, CallAgrees
<1>3. \A y \in Recharges : recharge'[y] = IF y = x THEN row ELSE recharge[y]
  BY <1>1, <1>2 DEF IInv, LedgerTypeOK
<1> HIDE DEF row, x
<1>4. EachPostedOnce'
  BY <1>1, <1>2, <1>3
     DEF OnceInv, EachPostedOnce, RechargesOnce, SettlementsOnce, CommissionsOnce
<1>5. QED
  BY <1>1, <1>2, <1>3, <1>4, WriteOnce

(* A new settlement is on no book, and nobody decides on it yet. *)
LEMMA InsertSettlementOnce ==
  ASSUME IInv, PInv, OnceInv, RowsApart, NEW r \in Reqs, InsertSettlement(r)
  PROVE  OnceInv' /\ DecisionsStand
<1> DEFINE x == req[r].ref
           row == [status |-> "pending", coop |-> req[r].coop,
                   gross |-> req[r].amount, fee |-> req[r].cut]
<1>1. /\ End(r) /\ settlement' = [settlement EXCEPT ![x] = row]
      /\ UNCHANGED <<trip, recharge, book, coopBook>>
  BY DEF InsertSettlement, walletTables
<1>2. x \in Settlements /\ settlement[x].status = "none" /\ row.status = "pending"
  BY DEF InsertSettlement, IInv, CallsOK, CallOK, PInv, CallsAgree, CallAgrees
<1>3. \A y \in Settlements : settlement'[y] = IF y = x THEN row ELSE settlement[y]
  BY <1>1, <1>2 DEF IInv, LedgerTypeOK
<1> HIDE DEF row, x
<1>4. EachPostedOnce'
  BY <1>1, <1>2, <1>3
     DEF OnceInv, EachPostedOnce, RechargesOnce, SettlementsOnce, CommissionsOnce
<1>5. QED
  BY <1>1, <1>2, <1>3, <1>4, WriteOnce

(* A rejected recharge was waiting until then: it is on no book. *)
LEMMA RejectOnce ==
  ASSUME IInv, PInv, OnceInv, RowsApart, NEW r \in Reqs, RejectRechargeWrite(r)
  PROVE  OnceInv' /\ DecisionsStand
<1> DEFINE x == req[r].ref
<1>1. /\ End(r) /\ OnRecharge(r) /\ recharge' = [recharge EXCEPT ![x].status = "rejected"]
      /\ UNCHANGED <<trip, settlement, book, coopBook>>
  BY DEF RejectRechargeWrite, coopTables, OnRecharge
<1>2. x \in Recharges /\ recharge[x].status = "pending"
  BY <1>1 DEF RejectRechargeWrite, IInv, CallsOK, CallOK, OnceInv, RowWaits
<1>3. /\ recharge'[x].status = "rejected" /\ recharge'[x].driver = recharge[x].driver
      /\ \A y \in Recharges \ {x} : recharge'[y] = recharge[y]
  BY <1>1, <1>2, RechargeDecided
<1>4. EachPostedOnce'
  <2> HIDE DEF x
  <2>1. QED
    BY <1>1, <1>2, <1>3
       DEF OnceInv, EachPostedOnce, RechargesOnce, SettlementsOnce, CommissionsOnce
<1>5. QED
  BY <1>1, <1>3, <1>4, WriteOnce

(* A cancelled settlement was waiting until then: it is on no book. *)
LEMMA CancelOnce ==
  ASSUME IInv, PInv, OnceInv, RowsApart, NEW r \in Reqs, CancelSettlementWrite(r)
  PROVE  OnceInv' /\ DecisionsStand
<1> DEFINE x == req[r].ref
<1>1. /\ End(r) /\ OnSettlement(r)
      /\ settlement' = [settlement EXCEPT ![x].status = "cancelled"]
      /\ UNCHANGED <<trip, recharge, book, coopBook>>
  BY DEF CancelSettlementWrite, walletTables, OnSettlement
<1>2. x \in Settlements /\ settlement[x].status = "pending"
  BY <1>1 DEF CancelSettlementWrite, IInv, CallsOK, CallOK, OnceInv, RowWaits
<1>3. /\ settlement'[x].status = "cancelled" /\ settlement'[x].coop = settlement[x].coop
      /\ \A y \in Settlements \ {x} : settlement'[y] = settlement[y]
  BY <1>1, <1>2, SettlementDecided
<1>4. EachPostedOnce'
  <2> HIDE DEF x
  <2>1. QED
    BY <1>1, <1>2, <1>3
       DEF OnceInv, EachPostedOnce, RechargesOnce, SettlementsOnce, CommissionsOnce
<1>5. QED
  BY <1>1, <1>3, <1>4, WriteOnce

(* A credited recharge was waiting until then: the entry is its first. *)
LEMMA CreditOnce ==
  ASSUME IInv, PInv, OnceInv, RowsApart, NEW r \in Reqs, CreditCommit(r)
  PROVE  OnceInv' /\ DecisionsStand
<1> DEFINE x == req[r].ref
           own == req[r].driver
           change == req[r].amount
<1>1. /\ End(r) /\ OnRecharge(r) /\ recharge' = [recharge EXCEPT ![x].status = "confirmed"]
      /\ PostEntry(r, "recharge", change)
      /\ UNCHANGED <<trip, settlement, coopBook>>
  BY DEF CreditCommit, coopTables, OnRecharge
<1>2. /\ x \in Recharges /\ x # Nil /\ own \in Earners
      /\ recharge[x].status = "pending" /\ recharge[x].driver = own
  BY NilAssumption, <1>1
     DEF CreditCommit, IInv, CallsOK, CallOK, PInv, CallsAgree, CallAgrees, OnceInv, RowWaits
<1>3. \A d \in Earners : \A k, id :
        Postings(book'[d], k, id) =
          IF d = own /\ "recharge" = k /\ x = id THEN Postings(book[d], k, id) + 1
                                                ELSE Postings(book[d], k, id)
  <2>1. change \in Int
    BY DEF IInv, LedgerTypeOK, Call
  <2>2. QED
    BY <1>1, <1>2, <2>1, WalletPostings DEF EntryKinds
<1>4. /\ recharge'[x].status = "confirmed" /\ recharge'[x].driver = own
      /\ \A y \in Recharges \ {x} : recharge'[y] = recharge[y]
  BY <1>1, <1>2, RechargeDecided
<1>5. EachPostedOnce'
  <2> HIDE DEF x, own, change
  <2>1. RechargesOnce'
    <3> SUFFICES ASSUME NEW y \in Recharges, NEW d \in Earners
                 PROVE  Postings(book'[d], "recharge", y) =
                          IF recharge'[y].status = "confirmed" /\ recharge'[y].driver = d
                          THEN 1 ELSE 0
      BY DEF RechargesOnce
    <3>1. Postings(book[d], "recharge", y) =
            IF recharge[y].status = "confirmed" /\ recharge[y].driver = d THEN 1 ELSE 0
      BY DEF OnceInv, EachPostedOnce, RechargesOnce
    <3>2. CASE y = x
      BY <1>2, <1>3, <1>4, <3>1, <3>2
    <3>3. CASE y # x
      BY <1>3, <1>4, <3>1, <3>3
    <3>4. QED
      BY <3>2, <3>3
  <2>2. SettlementsOnce' /\ CommissionsOnce'
    BY <1>1, <1>3 DEF OnceInv, EachPostedOnce, SettlementsOnce, CommissionsOnce
  <2>3. QED
    BY <2>1, <2>2 DEF EachPostedOnce
<1>6. QED
  BY <1>1, <1>4, <1>5, WriteOnce

(* A debited settlement was waiting until then: the entry is its first. *)
LEMMA DebitOnce ==
  ASSUME IInv, PInv, OnceInv, RowsApart, NEW r \in Reqs, DebitCommit(r)
  PROVE  OnceInv' /\ DecisionsStand
<1> DEFINE q == req[r]
           x == q.ref
           own == q.coop
           net == q.amount - q.cut
           after == [gross |-> Floor0(q.acct.gross - q.amount),
                     due |-> Floor0(q.acct.due - q.cut), net |-> Floor0(q.acct.net - net)]
<1>1. /\ End(r) /\ OnSettlement(r)
      /\ settlement' = [settlement EXCEPT ![x].status = "confirmed"]
      /\ PostCoop(r, "settlement", net, after)
      /\ UNCHANGED <<trip, recharge, book>>
  BY DEF DebitCommit, walletTables, OnSettlement
<1>2. /\ x \in Settlements /\ x # Nil /\ own \in Coops
      /\ settlement[x].status = "pending" /\ settlement[x].coop = own
  BY NilAssumption, <1>1
     DEF DebitCommit, IInv, CallsOK, CallOK, PInv, CallsAgree, CallAgrees, OnceInv, RowWaits
<1>3. net \in Int /\ after \in Account
  <2>1. q \in Call
    BY DEF IInv, LedgerTypeOK
  <2>2. QED
    BY <2>1 DEF Call, Account, Floor0
<1> HIDE DEF net, after
<1>4. \A c \in Coops : \A k, id :
        Postings(coopBook'[c], k, id) =
          IF c = own /\ "settlement" = k /\ x = id THEN Postings(coopBook[c], k, id) + 1
                                                  ELSE Postings(coopBook[c], k, id)
  BY <1>1, <1>2, <1>3, CoopPostings DEF EntryKinds
<1>5. /\ settlement'[x].status = "confirmed" /\ settlement'[x].coop = own
      /\ \A y \in Settlements \ {x} : settlement'[y] = settlement[y]
  BY <1>1, <1>2, SettlementDecided
<1>6. EachPostedOnce'
  <2> HIDE DEF x, own, q
  <2>1. SettlementsOnce'
    <3> SUFFICES ASSUME NEW y \in Settlements, NEW c \in Coops
                 PROVE  Postings(coopBook'[c], "settlement", y) =
                          IF settlement'[y].status = "confirmed" /\ settlement'[y].coop = c
                          THEN 1 ELSE 0
      BY DEF SettlementsOnce
    <3>1. Postings(coopBook[c], "settlement", y) =
            IF settlement[y].status = "confirmed" /\ settlement[y].coop = c THEN 1 ELSE 0
      BY DEF OnceInv, EachPostedOnce, SettlementsOnce
    <3>2. CASE y = x
      BY <1>2, <1>4, <1>5, <3>1, <3>2
    <3>3. CASE y # x
      BY <1>4, <1>5, <3>1, <3>3
    <3>4. QED
      BY <3>2, <3>3
  <2>2. RechargesOnce' /\ CommissionsOnce'
    BY <1>1, <1>4 DEF OnceInv, EachPostedOnce, RechargesOnce, CommissionsOnce
  <2>3. QED
    BY <2>1, <2>2 DEF EachPostedOnce
<1>7. QED
  BY <1>1, <1>5, <1>6, WriteOnce

(* A trip is completed once, and its commission is the first on each book. *)
LEMMA CompleteOnce ==
  ASSUME IInv, PInv, OnceInv, RowsApart, NEW r \in Reqs, CompleteCommit(r)
  PROVE  OnceInv' /\ DecisionsStand
<1> DEFINE q == req[r]
           x == q.ref
<1>1. /\ End(r) /\ OnTrip(r) /\ trip' = [trip EXCEPT ![x].status = "completed"]
      /\ UNCHANGED <<recharge, settlement>>
  BY DEF CompleteCommit, OnTrip
<1>2. /\ x \in Trips /\ trip[x].status = "in_progress"
      /\ q.driver = IF trip[x].cash THEN trip[x].driver ELSE Nil
      /\ q.coop = trip[x].coop
  BY <1>1 DEF CompleteCommit, IInv, CallsOK, CallOK, PInv, CallsAgree, CallAgrees,
              OnceInv, RowWaits
<1>3. /\ trip'[x].status = "completed" /\ trip'[x].driver = trip[x].driver
      /\ trip'[x].coop = trip[x].coop /\ trip'[x].cash = trip[x].cash
      /\ \A t \in Trips \ {x} : trip'[t] = trip[t]
  <2>1. trip \in [Trips -> TripRow] /\ trip[x] \in TripRow
    BY <1>2 DEF IInv, LedgerTypeOK
  <2> HIDE DEF x
  <2>2. QED
    BY <1>1, <1>2, <2>1, Zenon DEF TripRow
<1>4. EachPostedOnce'
  <2>1. RechargesOnce'
    BY <1>1, CompletionPays DEF OnceInv, EachPostedOnce, RechargesOnce
  <2>2. SettlementsOnce'
    BY <1>1, CompletionShares DEF OnceInv, EachPostedOnce, SettlementsOnce
  <2>3. ASSUME NEW t \in Trips, NEW d \in Earners
        PROVE  Postings(book'[d], "commission", t) =
                 IF trip'[t].status = "completed" /\ trip'[t].cash /\ trip'[t].driver = d
                 THEN 1 ELSE 0
    <3>1. Postings(book[d], "commission", t) =
            IF trip[t].status = "completed" /\ trip[t].cash /\ trip[t].driver = d THEN 1 ELSE 0
      BY DEF OnceInv, EachPostedOnce, CommissionsOnce
    <3>2. Postings(book'[d], "commission", t) =
            IF q.driver = d /\ t = x THEN Postings(book[d], "commission", t) + 1
                                     ELSE Postings(book[d], "commission", t)
      BY CompletionPays
    <3>3. q.driver = d <=> trip[x].cash /\ trip[x].driver = d
      BY <1>2, NilAssumption
    <3> HIDE DEF x, q
    <3>4. CASE t = x
      BY <1>2, <1>3, <3>1, <3>2, <3>3, <3>4
    <3>5. CASE t # x
      BY <1>3, <3>1, <3>2, <3>5
    <3>6. QED
      BY <3>4, <3>5
  <2>4. ASSUME NEW t \in Trips, NEW c \in Coops
        PROVE  Postings(coopBook'[c], "commission", t) =
                 IF trip'[t].status = "completed" /\ trip'[t].coop = c THEN 1 ELSE 0
    <3>1. Postings(coopBook[c], "commission", t) =
            IF trip[t].status = "completed" /\ trip[t].coop = c THEN 1 ELSE 0
      BY DEF OnceInv, EachPostedOnce, CommissionsOnce
    <3>2. Postings(coopBook'[c], "commission", t) =
            IF q.coop = c /\ t = x THEN Postings(coopBook[c], "commission", t) + 1
                                   ELSE Postings(coopBook[c], "commission", t)
      BY CompletionShares
    <3> HIDE DEF x, q
    <3>3. CASE t = x
      BY <1>2, <1>3, <3>1, <3>2, <3>3
    <3>4. CASE t # x
      BY <1>3, <3>1, <3>2, <3>4
    <3>5. QED
      BY <3>3, <3>4
  <2>5. QED
    BY <2>1, <2>2, <2>3, <2>4 DEF EachPostedOnce, CommissionsOnce
<1>5. QED
  BY <1>1, <1>3, <1>4, WriteOnce

(* Steps of no call. *)
LEMMA OthersOnce ==
  ASSUME OnceInv, (\E p \in Rates : SetPlatformFeeRate(p)) \/ Crash \/ UNCHANGED ledgerVars
  PROVE  OnceInv' /\ DecisionsStand
<1>1. /\ UNCHANGED <<trip, recharge, settlement, book, coopBook>>
      /\ req' = req \/ req' = [r \in Reqs |-> Idle]
  BY DEF SetPlatformFeeRate, Crash, ledgerVars, walletTables, coopTables
<1>2. EachPostedOnce' /\ DecisionsStand
  BY <1>1 DEF OnceInv, EachPostedOnce, RechargesOnce, SettlementsOnce, CommissionsOnce,
              DecisionsStand
<1>3. \A r \in Reqs : RowWaits(r)'
  BY <1>1 DEF OnceInv, RowWaits, OnRecharge, OnTrip, OnSettlement, Idle
<1>4. QED
  BY <1>2, <1>3 DEF OnceInv

LEMMA NextOnceInv ==
  ASSUME IInv, PInv, OnceInv, RowsApart, [LedgerNext]_ledgerVars
  PROVE  OnceInv' /\ DecisionsStand
<1>1. ASSUME NEW r \in Reqs, RechargeSteps(r) PROVE OnceInv' /\ DecisionsStand
  BY <1>1, BeginOnce, GoesOnOnce, InsertRechargeOnce, RejectOnce, CreditOnce DEF RechargeSteps
<1>2. ASSUME NEW r \in Reqs, CompletionSteps(r) PROVE OnceInv' /\ DecisionsStand
  BY <1>2, BeginOnce, GoesOnOnce, CompleteOnce DEF CompletionSteps
<1>3. ASSUME NEW r \in Reqs, SettlementSteps(r) PROVE OnceInv' /\ DecisionsStand
  BY <1>3, BeginOnce, GoesOnOnce, InsertSettlementOnce, CancelOnce, DebitOnce DEF SettlementSteps
<1>4. ASSUME NEW r \in Reqs, Fail(r) PROVE OnceInv' /\ DecisionsStand
  BY <1>4, EndOnce DEF Fail, walletTables, coopTables
<1>5. QED
  BY <1>1, <1>2, <1>3, <1>4, OthersOnce DEF LedgerNext

(* While no two calls decide on one row at a time, every confirmed recharge
   and settlement and every completed trip is on the book of its owner exactly
   once, and nothing else is: retries after a deadlock, failed statements and
   crashes post nothing twice.  Only two decisions on the same row at once do
   (the status is read before the transaction and not again in it: see
   confirmRecharge, confirmSettlement and completeTrip). *)
THEOREM MoneyPostedOnce == LedgerSpec /\ []RowsApart => []EachPostedOnce
<1>1. IInv /\ PInv /\ OnceInv /\ RowsApart /\ [LedgerNext]_ledgerVars => OnceInv'
  BY NextOnceInv
<1>2. OnceInv => EachPostedOnce
  BY DEF OnceInv
<1>3. QED
  BY <1>1, <1>2, InitOnceInv, Invariance, PostingsInvariance, PTL DEF LedgerSpec

(* Under the same condition no decision is taken back or overwritten: not a
   confirmation by a rejection, nor the other way round. *)
THEOREM NoDecisionOverwritten == LedgerSpec /\ []RowsApart => [][DecisionsStand]_ledgerVars
<1>1. IInv /\ PInv /\ OnceInv /\ RowsApart /\ [LedgerNext]_ledgerVars => OnceInv'
  BY NextOnceInv
<1>2. IInv /\ PInv /\ OnceInv /\ RowsApart /\ [LedgerNext]_ledgerVars =>
        [DecisionsStand]_ledgerVars
  BY NextOnceInv
<1>3. QED
  BY <1>1, <1>2, InitOnceInv, Invariance, PostingsInvariance, PTL DEF LedgerSpec

=============================================================================
