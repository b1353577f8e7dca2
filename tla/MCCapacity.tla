------------------------------ MODULE MCCapacity ------------------------------
(***************************************************************************)
(* The instance of Capacity that TLC checks: the conditions of the workers *)
(* and the registrations.                                                  *)
(***************************************************************************)
EXTENDS Capacity

An(status, max, running) ==
    [status |-> status, enabled |-> TRUE, max |-> max, running |-> running]

\* An idle worker without memory to spare.
Tight ==
    [accounts |-> <<An("READY", 0, 0)>>, active |-> 0, queued |-> 0, cpu |-> 10, ram |-> 92]

\* One that runs as many jobs as the first registration allows, with a free account.
\* Its second account is beyond its limit, which was lowered under it.
Loaded ==
    [accounts |-> <<An("READY", 1, 0), An("BUSY", 1, 2)>>, active |-> 1, queued |-> 1,
     cpu |-> 60, ram |-> 80]

\* One with eight free accounts and little to do, whose score meets its bound.
Large ==
    [accounts |-> <<An("READY", 8, 0), An("BLOCKED", 9, 0)>>, active |-> 1, queued |-> 0,
     cpu |-> 0, ram |-> 0]

MCConditions == {Tight, Loaded, Large}

MCRegistrations ==
    {[enabled |-> TRUE, weight |-> 100, max |-> 1], [enabled |-> TRUE, weight |-> 100, max |-> 2],
     [enabled |-> FALSE, weight |-> 100, max |-> 1]}

=============================================================================
