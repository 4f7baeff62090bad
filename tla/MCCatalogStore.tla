--------------------------- MODULE MCCatalogStore ---------------------------
(***************************************************************************)
(* Queries of clients beside the server's own: the counter starts at 2,    *)
(* the SN of one client, 3 that of another; the others all use 1.  A       *)
(* catalog of one device in two packets; two superior platforms; alarms    *)
(* with an SN of their own and with that of a guard.                       *)
(***************************************************************************)
EXTENDS CatalogStore, TLC

CONSTANTS rec, rec2, info, status, guard, guard2, cat, beat, sup1, sup2, alarm, alarm2,
          cam1, cam2

AllKinds == rec :> "record" @@ rec2 :> "record" @@ info :> "info" @@ status :> "status"
            @@ guard :> "guard" @@ guard2 :> "guard" @@ cat :> "catalog" @@ beat :> "beat"

MCKindOf == [r \in Request |-> AllKinds[r]]

MCSn == 1 .. 4
MCSnOf == [r \in Request |-> IF r = info THEN 2 ELSE IF r = guard2 THEN 3 ELSE 1]

\* One alarm has the SN of a query.
MCAlarmSn == (alarm :> 4) @@ (alarm2 :> 1)

\* The second record query finds no recordings.
MCSumOf == [r \in Request |-> IF r \in {rec, cat} THEN 2 ELSE IF r = rec2 THEN 0 ELSE 1]

\* Threads that take numbers beside a client whose SN is the next one; clients
\* with the same SN; a catalog beside both; two superiors and a query between; guards and alarms.
MCTogether == {{rec, info, beat}, {rec, rec2, beat}, {rec2, status, guard},
               {cat, beat}, {cat, info}, {sup1, sup2, rec2},
               {guard, guard2, alarm, alarm2}}

MCLists == [a \in Answer |-> IF KindOf[a[1]] # "catalog" THEN {}
                             ELSE IF a[2] = 1 THEN {cam1} ELSE {cam2}]
=============================================================================
