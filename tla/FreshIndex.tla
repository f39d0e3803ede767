---------------------------- MODULE FreshIndex ----------------------------
(***************************************************************************)
(* What the high-precision mode promises about its index, with no cache:   *)
(* every request is given an index derived from exactly the passages and   *)
(* the parameters it asked with, and holding the row objects of its own    *)
(* database session, and every request is given one.                       *)
(***************************************************************************)
CONSTANTS Askers, Nobody, NoIndex

VARIABLES asked, given

freshVars == <<asked, given>>

\* What a request a asks with: the passages it loaded, in order, and the group
\* size the index is to be derived with.
IndexFor(a, rows, group) == [of |-> rows, group |-> group, objectsOf |-> a]

Init == /\ asked = [a \in Askers |-> Nobody]
        /\ given = [a \in Askers |-> NoIndex]

Ask(a) == /\ asked[a] = Nobody
          /\ asked'[a] # Nobody
          /\ \A x \in Askers \ {a} : asked'[x] = asked[x]
          /\ UNCHANGED given

Give(a) == /\ asked[a] # Nobody /\ given[a] = NoIndex
           /\ given' = [given EXCEPT ![a] = IndexFor(a, asked[a].rows, asked[a].group)]
           /\ UNCHANGED asked

Retire(a) == /\ given[a] # NoIndex
             /\ asked' = [asked EXCEPT ![a] = Nobody]
             /\ given' = [given EXCEPT ![a] = NoIndex]

Next == \E a \in Askers : Ask(a) \/ Give(a) \/ Retire(a)

Spec == Init /\ [][Next]_freshVars /\ \A a \in Askers : WF_freshVars(Give(a))
=============================================================================
