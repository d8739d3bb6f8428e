--------------------------- MODULE MCRagPipeline ---------------------------
(* Model-checking instance of RagPipeline: a useful reply, one without a   *)
(* summary, with a confidence out of range and lists that are none, one    *)
(* whose summary is no text, prose, and JSON that is no object.            *)
EXTENDS RagPipeline

Object(has, misfit, confidence) ==
    [form |-> "object", has |-> has, misfit |-> misfit, confidence |-> confidence]
NoObject(form) == [form |-> form, has |-> {}, misfit |-> {}, confidence |-> 0]

SomeReplies ==
    {Object(Fields, {}, 1), Object({"confidence", "lists"}, {"lists"}, 15),
     Object(Fields, {"summary"}, 5), NoObject("prose"), NoObject("value")}
=============================================================================
