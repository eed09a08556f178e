---------------------------- MODULE QuotaAccount ----------------------------
(***************************************************************************)
(* What the quota ledger promises, as if there were no accumulators, no    *)
(* cache and no shutdown: a balance for each of the two columns a request  *)
(* is charged to, from which every payment is taken at once and once.      *)
(***************************************************************************)
EXTENDS Integers

CONSTANTS Requests, Columns,
          Opening,       (* [Columns -> Int]: the balances to begin with *)
          Amounts        (* what may be paid at a time; repaid, if negative *)

VARIABLES balance,       (* [Columns -> Int]                             *)
          paid           (* [Requests -> [Columns -> Int]], net          *)

accountVars == <<balance, paid>>

Init ==
  /\ balance = Opening
  /\ paid = [r \in Requests |-> [c \in Columns |-> 0]]

Pay(r, c) ==
  \E amount \in Amounts :
    /\ balance' = [balance EXCEPT ![c] = @ - amount]
    /\ paid' = [paid EXCEPT ![r][c] = @ + amount]

Next == \E r \in Requests, c \in Columns : Pay(r, c)

Spec == Init /\ [][Next]_accountVars
=============================================================================
