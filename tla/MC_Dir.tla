------------------------------- MODULE MC_Dir ------------------------------
(* The runs of CephDir: c1 and c2 work on the file of the same name, c1 by an *)
(* environment that names the other pool and c2 by its path; c3 works on     *)
(* another in the pool that is listed, which is the default one.             *)
EXTENDS CephDir, TLC

CONSTANTS c1, c2, c3, P, Q

Ab == <<"a", "b">>
Cd == <<"c", "d">>
Path == [x \in Clients |-> CASE x = c1 -> [pool |-> None, name |-> Ab]
                             [] x = c2 -> [pool |-> Q, name |-> Ab]
                             [] x = c3 -> [pool |-> None, name |-> Cd]]
Env == [x \in Clients |-> IF x = c3 THEN None ELSE Q]
Budget == [x \in Clients |-> IF x = c3 THEN 1 ELSE 2]

Names == {<<"k", "e", "y">>}
Bytes == {<<1>>}
Inside == {Ab}

Others == {Object(<<"s">>, "short")}
HashOrder == <<Object(Ab, "later"), Object(Cd, "first"), Object(<<"s">>, "short"),
               Object(Ab, "first")>>
=============================================================================
