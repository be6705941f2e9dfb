----------------------------- MODULE SpendLedger -----------------------------
(***************************************************************************)
(* What a spend ledger promises, for both of the gateway's ledgers: the    *)
(* lifetime ledger of a provider and the monthly ledger of a client key.   *)
(* A request claims the most it could cost; the claim is added first and   *)
(* compared with the cap afterwards; an over-cap claim is handed back; a   *)
(* granted claim is replaced, once, by a cost that is no larger.  Requests *)
(* may stop anywhere: a claim nobody hands back or settles stays.          *)
(***************************************************************************)
EXTENDS Money

CONSTANTS Requests,
          MaxClaim,    \* the largest claim a request can make
          Cap          \* the ledger's ceiling

ASSUME LedgerAssumption == /\ IsFiniteSet(Requests)
                           /\ MaxClaim \in Nat
                           /\ Cap \in Nat

VARIABLES spent,       \* the running total
          stake,       \* how much of it each request put there
          standing     \* what became of each request's claim

ledgerVars == <<spent, stake, standing>>

Standings == {"new", "granted", "over", "returned", "settled"}

LedgerTypeOK == /\ spent \in Nat
                /\ stake \in [Requests -> 0..MaxClaim]
                /\ standing \in [Requests -> Standings]

LedgerInit == /\ spent = 0
              /\ stake = [r \in Requests |-> 0]
              /\ standing = [r \in Requests |-> "new"]

Claim(r, amount) ==
  /\ standing[r] = "new"
  /\ spent' = spent + amount
  /\ stake' = [stake EXCEPT ![r] = amount]
  /\ standing' = [standing EXCEPT ![r] = IF spent + amount <= Cap
                                         THEN "granted" ELSE "over"]

HandBack(r) ==
  /\ standing[r] = "over"
  /\ spent' = spent - stake[r]
  /\ stake' = [stake EXCEPT ![r] = 0]
  /\ standing' = [standing EXCEPT ![r] = "returned"]

Swap(r, amount) ==
  /\ standing[r] = "granted"
  /\ amount <= stake[r]
  /\ spent' = spent - stake[r] + amount
  /\ stake' = [stake EXCEPT ![r] = amount]
  /\ standing' = [standing EXCEPT ![r] = "settled"]

LedgerNext == \E r \in Requests : \/ \E amount \in 1..MaxClaim : Claim(r, amount)
                                  \/ HandBack(r)
                                  \/ \E amount \in 0..MaxClaim : Swap(r, amount)

LedgerSpec == LedgerInit /\ [][LedgerNext]_ledgerVars

-----------------------------------------------------------------------------
(* Properties *)

\* The requests whose claim was within the cap when it was made.
Admitted == {r \in Requests : standing[r] \in {"granted", "settled"}}

\* The ledger holds what the requests put there and nothing else.
Conserved == spent = Total(stake, Requests)

\* The ceiling: claims and costs of admitted requests together never exceed
\* the cap.  (The running total itself may, while over-cap claims wait to be
\* handed back.)
Ceiling == Total(stake, Admitted) <= Cap

=============================================================================
