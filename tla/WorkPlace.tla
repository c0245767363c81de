------------------------------ MODULE WorkPlace ------------------------------
(***************************************************************************)
(* What a task layer promises of the work it passes on: at any moment an   *)
(* item's work is in one place.  It is here; or on offer, under a name     *)
(* never used before; or out with whoever took that offer.  An offer can   *)
(* be withdrawn while it is open; a take stands until its taker gives the  *)
(* work back.                                                              *)
(***************************************************************************)
CONSTANTS Items, Offers

VARIABLES
    place,  \* where each item's work is
    used,   \* the names offers have had
    given   \* the taken offers whose takers gave the work back

Here == <<"here">>
OnOffer(o) == <<"offer", o>>
Out(o) == <<"out", o>>

Init == place = [i \in Items |-> Here] /\ used = {} /\ given = {}

Moves(i, from, to) ==
    place[i] = from /\ place' = [place EXCEPT ![i] = to]

Offer(i, o) ==
    /\ o \notin used /\ used' = used \union {o}
    /\ Moves(i, Here, OnOffer(o)) /\ UNCHANGED given

Withdraw(i, o) == Moves(i, OnOffer(o), Here) /\ UNCHANGED <<used, given>>
Take(i, o) == Moves(i, OnOffer(o), Out(o)) /\ UNCHANGED <<used, given>>
GiveBack(i, o) == Moves(i, Out(o), Here) /\ given' = given \union {o} /\ UNCHANGED used

Next == \E i \in Items, o \in Offers :
            Offer(i, o) \/ Withdraw(i, o) \/ Take(i, o) \/ GiveBack(i, o)

Spec == Init /\ [][Next]_<<place, used, given>>

=============================================================================
