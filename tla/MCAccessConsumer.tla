-------------------------- MODULE MCAccessConsumer --------------------------
(* Small instances of the event consumers for TLC.                         *)
EXTENDS AccessConsumerSafety

Visit(event, code, outcome, time) ==
  [shape |-> "event", key |-> code, code |-> code, id |-> event,
   result |-> outcome, at |-> time]

(* Two visits of link "a" in different hours, a visit and a lookup of code *)
(* "b", which may have no link yet, and two messages that are no events.   *)
FirstVisit  == Visit("e1", "a", "success", 3599999)
SecondVisit == Visit("e2", "a", "success", 3600000)
OtherVisit  == Visit("e3", "b", "error", 3600000)
Scan        == Visit("e4", "b", "not_found", 3600000)
NotJson     == [FirstVisit EXCEPT !.shape = "not_json"]
WrongKey    == [FirstVisit EXCEPT !.key = "b"]

EveryKind == {FirstVisit, SecondVisit, OtherVisit, Scan, WrongKey}
Poison == {FirstVisit, NotJson}
=============================================================================
