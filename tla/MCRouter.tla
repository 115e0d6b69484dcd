------------------------------ MODULE MCRouter ------------------------------
(***************************************************************************)
(* Model-checking instance of Router: two upstreams, u1 of weight 2 with   *)
(* two credentials serving m1, u2 of weight 1 (absent weight, clamped) with *)
(* one credential serving m1 and m2.  The schedule is <<u1, u1, u2>>, so a  *)
(* scan of three slots and the model filter both matter.                    *)
(***************************************************************************)
EXTENDS Router

CONSTANTS u1, u2, k1, k2, k3, m1, m2, m3, r1, r2

MCUpstreams == {u1, u2}
MCUpstreamOrder == <<u1, u2>>
MCWeightCfg == [u \in MCUpstreams |-> IF u = u1 THEN 2 ELSE 0]
MCKeysOf == [u \in MCUpstreams |-> IF u = u1 THEN <<k1, k2>> ELSE <<k3>>]
MCModelsOf == [u \in MCUpstreams |-> IF u = u1 THEN {m1} ELSE {m1, m2}]
MCModels == {m1, m2}
\* m3 is a model no upstream serves (404 model_not_found).
MCModelsUnserved == {m1, m2, m3}
\* The bodies forward rejects before selection: 413, 502 and 400.
AllBodyFaults == {"too_large", "read_error", "no_model"}
NoBodyFaults == {}
OneRequest == {r1}
TwoRequests == {r1, r2}
\* r1's round trip takes longer than r2's.
MCLatencyOf == [r \in TwoRequests |-> IF r = r1 THEN 2 ELSE 1]
AllAnswers == Outcomes
KeyAnswers == {"ok", "429", "5xx", "timeout"}
\* Equal weights: the schedule is <<u1, u2>>, used where two requests race.
MCEvenWeightCfg == [u \in MCUpstreams |-> 1]
\* One credential per upstream, used where two requests race.
MCOneKeyEach == [u \in MCUpstreams |-> IF u = u1 THEN <<k1>> ELSE <<k3>>]
RaceAnswers == {"ok", "429", "5xx"}
ServerErrors == {"ok", "5xx"}
RateLimited == {"429"}

=============================================================================
