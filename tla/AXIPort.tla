------------------------------- MODULE AXIPort -------------------------------
(***************************************************************************)
(* What the core is promised at its AXI port, without addresses and data:  *)
(* an accepted read burst is answered by exactly as many beats as it asked *)
(* for, the last of them marked, the beats of the two ids interleaved at   *)
(* will but each offered until it is taken; an accepted write burst takes  *)
(* its beats and then gives one response before the next is accepted.      *)
(***************************************************************************)
EXTENDS Naturals

CONSTANT Ids

VARIABLES
    owed,      \* read beats still to be taken, by id
    offer,     \* the beat on the R channel, [valid, id, last]
    dataOwed,  \* write beats still to be sent
    answering  \* a write response is offered
vars == <<owed, offer, dataOwed, answering>>

NoOffer == [valid |-> FALSE, id |-> 0, last |-> FALSE]

Init == /\ owed = [id \in Ids |-> 0]
        /\ offer = NoOffer
        /\ dataOwed = 0
        /\ answering = FALSE

Offer == /\ ~offer.valid
         /\ \E id \in Ids :
              /\ owed[id] > 0
              /\ offer' = [valid |-> TRUE, id |-> id, last |-> owed[id] = 1]
         /\ UNCHANGED owed

\* One cycle may take the offered beat and accept a burst on a free id.
Exchange(taken, accepted) ==
    /\ taken => offer.valid
    /\ \A id \in accepted : owed[id] = 0
    /\ \A id \in Ids :
         IF taken /\ offer.id = id THEN owed'[id] = owed[id] - 1
         ELSE IF id \in accepted THEN owed'[id] \in Nat \ {0}
         ELSE owed'[id] = owed[id]
    /\ owed' = [id \in Ids |-> owed'[id]]
    /\ offer' = IF taken THEN NoOffer ELSE offer

ReadStep == \/ UNCHANGED <<owed, offer>>
            \/ Offer
            \/ \E taken \in BOOLEAN : \E accepted \in SUBSET Ids : Exchange(taken, accepted)

WriteStep ==
    \/ UNCHANGED <<dataOwed, answering>>
    \/ dataOwed = 0 /\ ~answering /\ dataOwed' \in Nat \ {0} /\ UNCHANGED answering
    \/ dataOwed > 0 /\ dataOwed' = dataOwed - 1 /\ answering' = (dataOwed = 1)
    \/ answering /\ answering' = FALSE /\ UNCHANGED dataOwed

Next == ReadStep /\ WriteStep

Spec == Init /\ [][Next]_vars
=============================================================================
