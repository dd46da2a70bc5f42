---------------------------- MODULE Bookkeeping -----------------------------
(***************************************************************************)
(* What the wallet promises, with no requests, locks or stale reads in it: *)
(* a book of accounts.  Money moves by atomic postings -- one amount into  *)
(* or out of one account, or a charge to one account of which a part goes  *)
(* to another -- and each posting writes its journal lines and balances    *)
(* in the same step, on the balance that step finds.                       *)
(***************************************************************************)
EXTENDS Integers, Sequences

CONSTANT Accounts

VARIABLES balance, journal

books == <<balance, journal>>

Line(prev, amount) == [amount |-> amount, new |-> prev + amount]

Opened ==
  \A a \in Accounts :
    \/ balance[a] = 0 /\ journal[a] = <<>>
    \/ balance[a] \in Nat /\ journal[a] = <<Line(0, balance[a])>>

\* Balances b and journals j after a line for a has been entered.
Posted(b, a, amount) == [b EXCEPT ![a] = @ + amount]
Entered(j, b, a, amount) == [j EXCEPT ![a] = Append(@, Line(b[a], amount))]

Move(a, amount) ==
  /\ balance' = Posted(balance, a, amount)
  /\ journal' = Entered(journal, balance, a, amount)

\* The payee may be the payer: then both lines go to the same journal, in this order.
Share(payer, payee, amount, part) ==
  LET charged == Posted(balance, payer, -amount)
  IN  /\ balance' = Posted(charged, payee, part)
      /\ journal' = Entered(Entered(journal, balance, payer, -amount), charged, payee, part)

\* No posting takes more than the account holds, no payee gets more than was charged.
Transact ==
  \/ \E a \in Accounts : \E amount \in 0 .. balance'[a] : Move(a, amount)
  \/ \E a \in Accounts : \E amount \in 0 .. balance[a] : Move(a, -amount)
  \/ \E payer, payee \in Accounts :
       \E amount \in 0 .. balance[payer] : \E part \in 0 .. amount :
         Share(payer, payee, amount, part)

Spec == Opened /\ [][Transact]_books
=============================================================================
