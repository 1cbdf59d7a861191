------------------------------ MODULE ChainView ------------------------------
(***************************************************************************)
(* What the synchronisation promises of the transactions a wallet shows as *)
(* confirmed: they are, at any time, exactly those of some initial part of *)
(* one chain the network agreed on.  That part only grows, and what was    *)
(* confirmed in one block is not moved to another: before the wallet       *)
(* follows another chain it goes back to a lower height.  Pages of two     *)
(* chains are never mixed and a step that fails leaves nothing behind.     *)
(***************************************************************************)
EXTENDS Integers, Sequences

CONSTANT Own(_)         \* Own(chain): the <<transaction, block>> pairs of a chain

VARIABLES forks,        \* every chain there has been
          confirmed     \* what the wallet shows, <<transaction, block>> pairs

Height(pair) == pair[2][1]

Init == confirmed = {}

ChainMoves == forks' # forks /\ UNCHANGED confirmed

Follow == /\ confirmed \subseteq confirmed'
          /\ \E i \in DOMAIN forks : \E h \in 0..Len(forks[i]) :
                confirmed' = Own(SubSeq(forks[i], 1, h))
          /\ UNCHANGED forks

Revert == /\ \E h \in {Height(x) : x \in confirmed} :
                confirmed' = {x \in confirmed : Height(x) < h}
          /\ UNCHANGED forks

Next == ChainMoves \/ Follow \/ Revert

Spec == Init /\ [][Next]_<<forks, confirmed>>
=============================================================================
