------------------------------ MODULE QuoteDesk ------------------------------
(***************************************************************************)
(* What a maker promises its counterparties, whatever the network does to  *)
(* it: it writes lots of options, commits a lot to one signed offer, and   *)
(* hands it over when the offer is filled.  A lot that is committed was    *)
(* free before, and nothing is taken back: the maker of this repository    *)
(* neither cancels an order nor exercises or redeems what it has written.  *)
(***************************************************************************)
VARIABLES
    free,       \* lots the maker holds and has promised to nobody
    committed,  \* lots a signed offer promises
    sold        \* lots a taker has received

deskVars == <<free, committed, sold>>

DeskInit ==
    /\ free = {}
    /\ committed = {}
    /\ sold = {}

Acquire ==
    /\ \E l \in free' \ (free \cup committed \cup sold) : free' = free \cup {l}
    /\ UNCHANGED <<committed, sold>>

Commit ==
    \E l \in free :
        /\ free' = free \ {l}
        /\ committed' = committed \cup {l}
        /\ UNCHANGED sold

HandOver ==
    \E l \in committed :
        /\ committed' = committed \ {l}
        /\ sold' = sold \cup {l}
        /\ UNCHANGED free

DeskNext == Acquire \/ Commit \/ HandOver

DeskSpec == DeskInit /\ [][DeskNext]_deskVars
=============================================================================
