---------------------------- MODULE MCAnswering ----------------------------
(* Two threads, a base that is being indexed and one that always was ready, *)
(* and a cache with room for one of them. Three families of initial states  *)
(* keep the product small: both threads ask while the base is indexed and   *)
(* nobody touches the settings; one thread asks of the base that is ready   *)
(* while two requests change settings that exist; or nobody asks while two  *)
(* requests make the first settings of a user.                              *)
EXTENDS Answering
CONSTANTS newBase, oldBase, t1, t2, m1, m2
MCBases == {newBase, oldBase}
MCLegacy == {oldBase}
MCAskers == {t1, t2}
MCModels == {m1, m2}
MCSeeds == {m1}

MCInit == /\ Init
          /\ IF begun = MaxSettings
             THEN pref = NoRow /\ state[newBase] = "indexing" /\ \A a \in Askers : pc[a] = "idle"
             ELSE /\ state[newBase] = "gone"
                  /\ pc = [a \in Askers |-> IF a = t1 /\ pref # NoRow THEN "idle" ELSE "away"]
MCSpec == MCInit /\ [][Next]_vars /\ Fairness
=============================================================================
