----------------------------- MODULE MCOpsEngine -----------------------------
(* Instances of OpsEngine for TLC. *)
EXTENDS OpsEngine, TLC

CONSTANTS d1, d2, p1, p2, p3, t1, t2

\* p1 and p2 differ in their addresses only and share a key.
MCProblemKey == [p \in Problems |-> IF p = p3 THEN 3 ELSE 1]

\* Three records and two Finders. For p1 and p2 the first Finder names an
\* unknown record, one that does not apply and one twice; for p3 it names
\* nothing and the second ranks two records against registration order.
MCOffers ==
  [r \in Requests |->
     IF r.problem = p3 THEN << <<>>, <<3, 1>> >>
     ELSE << <<9, 2, 3, 2, 3>>, <<1>> >>]

\* On d2 only record 2 applies, to p1 and p2, and none to p3.
MCApplicable ==
  [r \in Requests |->
     IF r.device = d1 THEN (IF r.problem = p3 THEN {1, 2, 3} ELSE {1, 3})
     ELSE IF r.problem = p3 THEN {} ELSE {2}]

\* The environment a host may have, and change between calls.
MCRawValues ==
  [cache |-> {Unset, <<Blank, Blank>>},
   finders |-> {Unset, <<1, Blank>>},
   enabled |-> {Unset, <<1, 2>>},
   disabled |-> {Unset, <<2>>}]

\* One environment that never changes: the list is set and blank.
MCBlankList ==
  [cache |-> {Unset}, finders |-> {Unset}, enabled |-> {<<Blank>>}, disabled |-> {Unset}]

\* One thread makes three calls for p1 and p3 under any environment, or two
\* threads make two calls each for p1 and p2, which share their keys, under
\* a blocklist that changes.
Alone(t) ==
  /\ \A u \in Threads \ {t} : calls[u] = 0
  /\ calls[t] = 0 \/ request[t].problem # p2

Few(v) == {Unset, IF v = "disabled" THEN <<2>> ELSE Unset}

Together ==
  /\ \A v \in Variables : env[v] \in Few(v)
  /\ \A v \in Variables : policy[v] \in {Parse(v, value) : value \in Few(v)} \cup {NotRead}
  /\ \A t \in Threads : calls[t] <= 2 /\ (calls[t] = 0 \/ request[t].problem # p3)
  /\ \A k \in Keys : k[2] = 3 => store[k] = Absent

AloneOrTogether == (\E t \in Threads : Alone(t)) \/ Together

ThreadSymmetry == Permutations(Threads)
==============================================================================
