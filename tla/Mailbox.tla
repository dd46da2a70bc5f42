------------------------------- MODULE Mailbox -------------------------------
(***************************************************************************)
(* What notifications promise, with no events, sweeps, claims or restarts  *)
(* in it: something happens, its readers are told once and together, the   *)
(* sender not among them, and a letter that was read stays read.           *)
(***************************************************************************)
EXTENDS Integers

CONSTANTS Letters, People, Sender

VARIABLES
  sent,      \* SUBSET Letters
  told,      \* SUBSET Letters
  holders,   \* [Letters -> SUBSET People]
  opened     \* [Letters -> SUBSET People]

mailbox == <<sent, told, holders, opened>>

Empty ==
  /\ sent = {} /\ told = {}
  /\ holders = [l \in Letters |-> {}]
  /\ opened = [l \in Letters |-> {}]

Send ==
  /\ sent \subseteq sent' /\ sent' \subseteq Letters
  /\ UNCHANGED <<told, holders, opened>>

Tell(l) ==
  /\ l \in sent \ told
  /\ told' = told \cup {l}
  /\ \E readers \in SUBSET (People \ {Sender[l]}) : holders' = [holders EXCEPT ![l] = readers]
  /\ UNCHANGED <<sent, opened>>

Open(p) ==
  /\ \A l \in Letters :
       opened'[l] = opened[l] \/ (p \in holders[l] /\ opened'[l] = opened[l] \cup {p})
  /\ opened' = [l \in Letters |-> opened'[l]]
  /\ UNCHANGED <<sent, told, holders>>

Next == Send \/ (\E l \in Letters : Tell(l)) \/ (\E p \in People : Open(p))

Spec == Empty /\ [][Next]_mailbox
=============================================================================
