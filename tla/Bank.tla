-------------------------------- MODULE Bank --------------------------------
(***************************************************************************)
(* The bank, src/src/map/bank.c: zeny in an account's deposit.             *)
(***************************************************************************)
EXTENDS Trade

VARIABLE deposit  \* sd->deposit, also account variable #PC_DEPOSIT

TypeOKBank == deposit \in [Players -> 0..MaxZeny]

InitBank == deposit = [p \in Players |-> 0]

BankDeposit(p) ==
  \E n \in 1..zeny[p] :
    /\ "bank" \in can[p] /\ p \in online /\ Idle(p)
    /\ deposit[p] <= MaxZeny - n
    /\ zeny' = [zeny EXCEPT ![p] = PayZeny(@, n)]
    /\ deposit' = [deposit EXCEPT ![p] = @ + n]
    /\ UNCHANGED <<inv, cart, store, mailing, trades>>

BankWithdraw(p) ==
  \E n \in 1..deposit[p] :
    /\ "bank" \in can[p] /\ p \in online /\ Idle(p)
    /\ zeny[p] <= MaxZeny - n
    /\ zeny' = [zeny EXCEPT ![p] = GetZeny(@, n)]
    /\ deposit' = [deposit EXCEPT ![p] = @ - n]
    /\ UNCHANGED <<inv, cart, store, mailing, trades>>

=============================================================================
