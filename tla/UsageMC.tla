------------------------------ MODULE UsageMC ------------------------------
(* Three requests: a comparison of words (ladder and tutor alike), a       *)
(* question to the coach and a spoken answer, with plans of every kind.    *)
EXTENDS UsageMetering, TLC

CONSTANTS compare, coach, speaking, free, basic, pro, most, gone

Handlers ==
    compare :> <<"ai">> @@ coach :> <<"sql", "ai", "sql", "sql">>
    @@ speaking :> <<"ai", "sql", "ai", "sql">>

\* What the plans allow, and the windows they count in.
Offers  == free :> 0 @@ basic :> 1 @@ pro :> 2 @@ most :> Unlimited @@ gone :> Absent
Mixed   == free :> 1 @@ basic :> 2 @@ pro :> 1 @@ most :> 2 @@ gone :> 1

ScriptsOf == [r \in Requests |-> Handlers[r]]
LimitsOf  == [p \in Plans |-> Offers[p]]
SpansOf   == [p \in Plans |-> Mixed[p]]
=============================================================================
