------------------------------- MODULE Accounts -------------------------------
(***************************************************************************)
(* The account of one phone number: its registration, and the one column   *)
(* (users.otp_code) in which registration, login and the recovery of the   *)
(* password all keep their code (auth.service.ts), with the limits Redis   *)
(* keeps.  What a login does next is in Sessions.                          *)
(*                                                                         *)
(* Each step is one statement; a call in flight is a slot of accountReq.   *)
(* Codes are numbered as they are drawn and 0 is null; two draws of six    *)
(* digits are taken to differ.  A process may stop between two statements, *)
(* and any statement may fail: the call ends there.                        *)
(***************************************************************************)
EXTENDS Naturals

CONSTANTS
  AccountReqs,      \* slots for calls in flight
  MaxCodes,         \* bound: codes drawn
  MaxForgot,        \* forgotPasswordPhone's attempts in 24 hours
  MaxAccountFaults  \* bound: calls cut short

ASSUME AccountAssumption ==
  MaxCodes \in Nat /\ MaxForgot \in Nat \ {0} /\ MaxAccountFaults \in Nat

VARIABLES
  user,          \* the users row: status, otp_code, whether it has expired
  client,        \* its clients row is there
  codes,         \* the codes drawn, and how often each was accepted
  attempts,      \* pwd:forgot:rate: the count, and whether the key expires
  cooldown,      \* pwd:cooldown
  passwords,     \* the codes a new password was set with
  accountReq,    \* calls in flight
  accountFaults

codeVars == <<user, codes>>
limitVars == <<attempts, cooldown>>
accountVars == <<codeVars, client, limitVars, passwords, accountReq, accountFaults>>

UserRow == [status : {"none", "inactive", "active", "suspended"}, code : Nat, fresh : BOOLEAN]
AccountCall == [op : {"idle", "saveClient", "code", "expire", "lookup", "reset", "password", "cooldown"},
                code : Nat]
NoAccountCall == [op |-> "idle", code |-> 0]

AccountBegin(r, op) ==
  accountReq[r] = NoAccountCall /\ accountReq' = [accountReq EXCEPT ![r].op = op]
AccountStep(r, op) == accountReq' = [accountReq EXCEPT ![r].op = op]
AccountEnd(r) == accountReq' = [accountReq EXCEPT ![r] = NoAccountCall]
AccountIdle(r) == accountReq[r] = NoAccountCall /\ UNCHANGED accountReq
Drawn == DOMAIN codes

AccountInit ==
  /\ user = [status |-> "none", code |-> 0, fresh |-> FALSE]
  /\ client = FALSE
  /\ codes = [n \in {} |-> 0]
  /\ attempts = [count |-> 0, expires |-> FALSE]
  /\ cooldown = FALSE /\ passwords = {}
  /\ accountReq = [r \in AccountReqs |-> NoAccountCall]
  /\ accountFaults = 0

-----------------------------------------------------------------------------
(* Codes *)

(* A new code takes the place of whichever was there, for ten minutes. *)
DrawCode(r) ==
  /\ accountReq[r].op = "code"
  /\ \E n \in (1..MaxCodes) \ Drawn :
       /\ \A k \in 1..(n - 1) : k \in Drawn
       /\ codes' = [k \in Drawn \cup {n} |-> IF k = n THEN 0 ELSE codes[k]]
       /\ user' = [user EXCEPT !.code = n, !.fresh = TRUE]
  /\ AccountEnd(r)
  /\ UNCHANGED <<client, limitVars, passwords, accountFaults>>

\* Mutant: the code is compared and left in the row.
SpendKept(n) ==
  /\ user.code = n /\ user.fresh
  /\ codes' = [codes EXCEPT ![n] = @ + 1]
  /\ user' = user

(* The one UPDATE that erases the code if it is the one and has not expired. *)
Spend(n) ==
  /\ user.code = n /\ user.fresh
  /\ codes' = [codes EXCEPT ![n] = @ + 1]
  /\ user' = [user EXCEPT !.code = 0, !.fresh = FALSE]

CodeExpires ==
  /\ user.fresh
  /\ user' = [user EXCEPT !.fresh = FALSE]
  /\ UNCHANGED <<codes, client, limitVars, passwords, accountReq, accountFaults>>

-----------------------------------------------------------------------------
(* Registration and login *)

(* registerClient of a new phone: the user, the client, the code. *)
RegisterClient(r) ==
  /\ user.status = "none"
  /\ AccountBegin(r, "saveClient")
  /\ user' = [user EXCEPT !.status = "inactive"]
  /\ UNCHANGED <<codes, client, limitVars, passwords, accountFaults>>

SaveClient(r) ==
  /\ accountReq[r].op = "saveClient"
  /\ client' = TRUE
  /\ AccountStep(r, "code")
  /\ UNCHANGED <<codeVars, limitVars, passwords, accountFaults>>

(* A new code for a phone that has one: registering again, signing in with a
   password before verifying, or asking for a login code. *)
RegisterAgain(r) == user.code # 0 /\ AccountBegin(r, "code")
LoginWithPhone(r) == user.status = "inactive" /\ user.code # 0 /\ AccountBegin(r, "code")
RequestPhoneOtp(r) == user.status = "active" /\ AccountBegin(r, "code")

AskCode(r) ==
  /\ RegisterAgain(r) \/ LoginWithPhone(r) \/ RequestPhoneOtp(r)
  /\ UNCHANGED <<codeVars, client, limitVars, passwords, accountFaults>>

(* The same UPDATE makes the account active, whatever its status was. *)
VerifyPhoneOtp(r, n) ==
  /\ AccountIdle(r)
  /\ user.code = n /\ user.fresh
  /\ codes' = [codes EXCEPT ![n] = @ + 1]
  /\ user' = [status |-> "active", code |-> 0, fresh |-> FALSE]
  /\ UNCHANGED <<client, limitVars, passwords, accountFaults>>

(* By staff, in clients.service.ts. *)
BlockClient(r) ==
  /\ AccountIdle(r)
  /\ client
  /\ user' = [user EXCEPT !.status = "suspended"]
  /\ UNCHANGED <<codes, client, limitVars, passwords, accountFaults>>

UnblockClient(r) ==
  /\ AccountIdle(r)
  /\ client
  /\ user' = [user EXCEPT !.status = "active"]
  /\ UNCHANGED <<codes, client, limitVars, passwords, accountFaults>>

-----------------------------------------------------------------------------
(* Recovery of the password *)

\* Mutant: the expiry is left to the second attempt.
ForgotPasswordPhoneLate(r) ==
  LET n == attempts.count + 1 IN
  /\ attempts' = [attempts EXCEPT !.count = IF n > MaxForgot THEN MaxForgot + 1 ELSE n]
  /\ IF n > MaxForgot THEN AccountIdle(r) ELSE AccountBegin(r, "lookup")
  /\ UNCHANGED <<codeVars, client, cooldown, passwords, accountFaults>>

(* INCR; the key gets its expiry in a second command. *)
ForgotPasswordPhone(r) ==
  LET n == attempts.count + 1 IN
  /\ attempts' = [attempts EXCEPT !.count = IF n > MaxForgot THEN MaxForgot + 1 ELSE n]
  /\ IF n > MaxForgot THEN AccountIdle(r)
     ELSE AccountBegin(r, IF n = 1 THEN "expire" ELSE "lookup")
  /\ UNCHANGED <<codeVars, client, cooldown, passwords, accountFaults>>

ExpireAttempts(r) ==
  /\ accountReq[r].op = "expire"
  /\ attempts' = [attempts EXCEPT !.expires = attempts.count > 0]
  /\ AccountStep(r, "lookup")
  /\ UNCHANGED <<codeVars, client, cooldown, passwords, accountFaults>>

ForgotLookup(r) ==
  /\ accountReq[r].op = "lookup"
  /\ IF user.status = "active" THEN AccountStep(r, "code") ELSE AccountEnd(r)
  /\ UNCHANGED <<codeVars, client, limitVars, passwords, accountFaults>>

ADayPasses ==
  /\ attempts.expires
  /\ attempts' = [count |-> 0, expires |-> FALSE]
  /\ UNCHANGED <<codeVars, client, cooldown, passwords, accountReq, accountFaults>>

(* The cooldown is looked at; then the code is spent, the password written
   and the cooldown set, each in turn.  The user's status is not looked at. *)
ResetPasswordPhone(r) ==
  /\ ~cooldown
  /\ user.status # "none"
  /\ AccountBegin(r, "reset")
  /\ UNCHANGED <<codeVars, client, limitVars, passwords, accountFaults>>

ResetSpend(r, n) ==
  /\ accountReq[r].op = "reset"
  /\ Spend(n)
  /\ accountReq' = [accountReq EXCEPT ![r] = [op |-> "password", code |-> n]]
  /\ UNCHANGED <<client, limitVars, passwords, accountFaults>>

ResetWrongCode(r) ==
  /\ accountReq[r].op = "reset"
  /\ AccountEnd(r)
  /\ UNCHANGED <<codeVars, client, limitVars, passwords, accountFaults>>

ResetPassword(r) ==
  /\ accountReq[r].op = "password"
  /\ passwords' = passwords \cup {accountReq[r].code}
  /\ AccountStep(r, "cooldown")
  /\ UNCHANGED <<codeVars, client, limitVars, accountFaults>>

ResetCooldown(r) ==
  /\ accountReq[r].op = "cooldown"
  /\ cooldown' = TRUE
  /\ AccountEnd(r)
  /\ UNCHANGED <<codeVars, client, attempts, passwords, accountFaults>>

AWeekPasses ==
  /\ cooldown
  /\ cooldown' = FALSE
  /\ UNCHANGED <<codeVars, client, attempts, passwords, accountReq, accountFaults>>

(* A statement fails or the process stops. *)
CallFails(r) ==
  /\ accountReq[r] # NoAccountCall
  /\ accountFaults < MaxAccountFaults
  /\ accountFaults' = accountFaults + 1
  /\ AccountEnd(r)
  /\ UNCHANGED <<codeVars, client, limitVars, passwords>>

-----------------------------------------------------------------------------
AccountOnward(r) ==
  \/ DrawCode(r) \/ SaveClient(r) \/ ExpireAttempts(r) \/ ForgotLookup(r)
  \/ (\E n \in Drawn : ResetSpend(r, n)) \/ ResetWrongCode(r)
  \/ ResetPassword(r) \/ ResetCooldown(r)

AccountNext ==
  \/ \E r \in AccountReqs :
       \/ RegisterClient(r) \/ AskCode(r)
       \/ \E n \in Drawn : VerifyPhoneOtp(r, n)
       \/ BlockClient(r) \/ UnblockClient(r)
       \/ ForgotPasswordPhone(r) \/ ResetPasswordPhone(r)
       \/ AccountOnward(r) \/ CallFails(r)
  \/ CodeExpires \/ ADayPasses \/ AWeekPasses

AccountSpec == AccountInit /\ [][AccountNext]_accountVars

(* A call that is not cut short goes on, and Redis drops keys in time. *)
AccountFairness ==
  WF_accountVars(ADayPasses) /\ \A r \in AccountReqs : WF_accountVars(AccountOnward(r))

-----------------------------------------------------------------------------
(* Properties *)

(* Rows, keys and calls stay within their columns. *)
AccountTypeOK ==
  /\ user \in UserRow
  /\ client \in BOOLEAN /\ cooldown \in BOOLEAN
  /\ Drawn \subseteq 1..MaxCodes /\ user.code \in Drawn \cup {0}
  /\ attempts \in [count : 0..(MaxForgot + 1), expires : BOOLEAN]
  /\ passwords \subseteq Drawn
  /\ accountReq \in [AccountReqs -> AccountCall]

(* "previene race condition": however registration, login and recovery race
   for the one column, no code is accepted twice. *)
CodeSpentOnce == \A n \in Drawn : codes[n] <= 1

(* "Podrás volver a intentarlo en ... horas": who ran out of attempts may try
   again, if no call was cut between counting one and setting the expiry. *)
LockoutEnds == []<>(attempts.count <= MaxForgot \/ accountFaults > 0)
=============================================================================
