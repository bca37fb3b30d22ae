-------------------------------- MODULE MCNode --------------------------------
(* Model checking of Node.                                                     *)
EXTENDS Node, TLC

\* A process of the release before, and two of the new one.
ReleaseOf == "old" :> 1 @@ "new" :> 2 @@ "next" :> 2

\* A plan that is renewed on day 2 and ends on day 3, and a prepaid account.
Plans    == "plan" :> {"m1"} @@ "cash" :> {"m1", "m2"}
Renewals == "plan" :> 2 @@ "cash" :> 0
Ends     == "plan" :> 3 @@ "cash" :> 0

\* Two subtasks of one task, and subtasks with one call, with turns and with an external agent.
Parts  == "s1" :> "k1" @@ "s2" :> "k2" @@ "s3" :> "k1"
Skills == "s1" :> "code" @@ "s2" :> "react" @@ "s3" :> "cli"

\* A start is followed as long as it may still break one of the two properties of StationStart:
\* what excuses both of them is never taken back.
AtStake ==
    duty = "start" => \/ blame \cap {"overlap", "kill", "lock"} = {}
                      \/ blame \cap {"stopped", "version", "outrun"} = {}
================================================================================
