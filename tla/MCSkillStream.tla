------------------------------ MODULE MCSkillStream ------------------------------
(* Two stages: independent, or each after the other.  One of them may fail. *)
EXTENDS SkillStream

CONSTANTS a, b

MCStages == {a, b}
MCFail == {b}
Edges(E) == [deps   |-> [s \in MCStages |-> {t \in MCStages : <<t, s>> \in E}],
             effect |-> [s \in MCStages |-> "read_only"]]
MCWorkflows == {Edges({}), Edges({<<a, b>>, <<b, a>>})}
=============================================================================
