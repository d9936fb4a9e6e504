-------------------------- MODULE MCMessageConversion --------------------------
(***************************************************************************)
(* Instances of MessageConversion for TLC: the messages a model can have   *)
(* given, down to those that say nothing at all.                           *)
(***************************************************************************)
EXTENDS MessageConversion

Shape(text, reasons, signed, calls) ==
  [text |-> text, reasons |-> reasons, signed |-> signed, calls |-> calls]

Shapes ==
  {Shape("some", FALSE, FALSE, None), Shape("none", FALSE, FALSE, None),
   Shape("empty", TRUE, TRUE, None),
   Shape("none", FALSE, FALSE, <<"object">>), Shape("some", TRUE, TRUE, <<"broken", "object">>),
   Shape("some", TRUE, FALSE, <<>>)}

================================================================================
