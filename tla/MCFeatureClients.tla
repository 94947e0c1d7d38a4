-------------------------- MODULE MCFeatureClients --------------------------
(***************************************************************************)
(* Wheels and sensors for FeatureClients: every configuration of the wheel *)
(* without a DPI, and every short list of values and ranges with one.      *)
(***************************************************************************)
EXTENDS FeatureClients

\* Configurations of the wheel that Validate accepts; 0 is a field left out.
Settings ==
  {s \in [enabled : {"none", "on", "off"}, threshold : {0, 7}, torque : {0, 9}] :
     ~(s.enabled = "off" /\ s.threshold # 0)}

WheelJob ==
  [setting : Settings, ranges : {<< >>}, words : {<< >>}, requested : {0}]

\* A value alone is a range of one.
Span(low, step, high) == [low |-> low, step |-> step, high |-> high]
Alone(value) == Span(value, 1, value)

Ranges == {Alone(200), Alone(400), Alone(800), Span(200, 100, 400),
           Span(400, 150, 800), Span(800, 100, 200)}

Lists == UNION {[1..n -> Ranges] : n \in 0..3}

SensorJob ==
  {[setting |-> [enabled |-> "none", threshold |-> 0, torque |-> 0],
    ranges |-> list, words |-> Words(list), requested |-> n] :
      list \in Lists, n \in {300, 475, 900}}

MCJob == WheelJob \cup SensorJob
=============================================================================
