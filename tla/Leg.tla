-------------------------------- MODULE Leg --------------------------------
(***************************************************************************)
(* One leg of a page, as the page may rely on it: a fetch that was asked   *)
(* for settles once, and never changes its mind; it says that it was       *)
(* refused only if it carried the user's own credentials.  HttpFetch       *)
(* implements it for each kind of upstream, and the legs of Pages are      *)
(* nothing else.                                                           *)
(***************************************************************************)
VARIABLES
  delegated,  \* the fetch forwards the user's token
  outcome

vars == <<delegated, outcome>>

Settled == {"answered", "none", "refused", "raised"}

Init == delegated \in BOOLEAN /\ outcome \in {"unasked", "pending"}

\* The next page asks for its own legs, and forgets those of the last one.
Ask ==
  /\ outcome # "pending"
  /\ outcome' \in {"unasked", "pending"}
  /\ UNCHANGED delegated

Settle ==
  /\ outcome = "pending"
  /\ outcome' \in Settled
  /\ outcome' = "refused" => delegated
  /\ UNCHANGED delegated

Next == Ask \/ Settle

Spec == Init /\ [][Next]_vars
=============================================================================
