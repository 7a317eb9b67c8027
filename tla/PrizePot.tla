------------------------------ MODULE PrizePot ------------------------------
(***************************************************************************)
(* What a round promises of its prize, without its ledger, its points or   *)
(* its scores: a pot that is opened, that each play raises at most once    *)
(* and by at most one step, that a play taken back lowers by exactly what  *)
(* it put in or not at all, and that nothing moves once it is paid out or  *)
(* withdrawn.                                                              *)
(***************************************************************************)
EXTENDS Integers, Sequences

CONSTANTS Step,   \* the most one play adds
          Cap     \* the most the pot may hold, or -1

VARIABLES phase,    \* hidden, open, held, settling, paid or withdrawn
          pot,
          share,    \* what each play sold so far put in, in order
          counted   \* the plays that still count

potVars == <<phase, pot, share, counted>>

\* A value the pot may be raised to.
Fits(n) == n \in Nat /\ (Cap >= 0 => n <= Cap)

PotInit ==
    /\ phase = "hidden" /\ pot = 0
    /\ share = <<>> /\ counted = {}

\* Publishing sets the pot; plays are sold only while it is open.
Publish ==
    /\ phase = "hidden" /\ phase' = "open"
    /\ Fits(pot')
    /\ UNCHANGED <<share, counted>>

\* Rules may be edited only by taking the round back; the pot is untouched.
Unpublish ==
    /\ phase = "open" /\ phase' = "hidden"
    /\ UNCHANGED <<pot, share, counted>>

Hold == phase = "open" /\ phase' = "held" /\ UNCHANGED <<pot, share, counted>>
Release == phase = "held" /\ phase' = "open" /\ UNCHANGED <<pot, share, counted>>

\* A play raises the pot by its share and counts from then on. A winning
\* play ends the selling with it.
Sell ==
    LET id == Len(share) + 1 IN
    /\ phase = "open" /\ phase' \in {"open", "settling"}
    /\ \E amount \in 0..Step :
         /\ pot' = pot + amount /\ Fits(pot')
         /\ share' = Append(share, amount)
    /\ counted' = counted \cup {id}

\* A play taken back never counts again.
TakeBack ==
    /\ phase \in {"open", "held", "settling"}
    /\ \E id \in counted :
         /\ counted' = counted \ {id}
         /\ pot' \in {pot, pot - share[id]} /\ pot' \in Nat
    /\ UNCHANGED <<phase, share>>

Adjust ==
    /\ phase \in {"open", "held", "settling"}
    /\ Fits(pot')
    /\ UNCHANGED <<phase, share, counted>>

Stop ==
    /\ phase \in {"open", "held"} /\ phase' = "settling"
    /\ UNCHANGED <<pot, share, counted>>

\* Paying winners only ever lowers the pot.
Declare == phase = "settling" /\ phase' = "paid" /\ UNCHANGED <<pot, share, counted>>
Pay ==
    /\ phase = "paid" /\ pot' \in 0..pot
    /\ UNCHANGED <<phase, share, counted>>

Withdraw ==
    /\ phase \notin {"paid", "withdrawn"} /\ phase' = "withdrawn"
    /\ pot' = 0 /\ counted' = {}
    /\ UNCHANGED share

PotNext ==
    \/ Publish \/ Unpublish \/ Hold \/ Release \/ Sell \/ TakeBack
    \/ Adjust \/ Stop \/ Declare \/ Pay \/ Withdraw

PotSpec == PotInit /\ [][PotNext]_potVars
=============================================================================
