--------------------------- MODULE MCKnowledgeHealth ---------------------------
(* Two topics, each with a claim.  One declares its claim twice, and has no  *)
(* evidence for it but a source that it mentions.                           *)
EXTENDS KnowledgeHealth

CONSTANTS t1, t2, src, c1, c2

Claim(c, ev) == [id |-> c, evidence |-> ev]
Doc(cs, m, fl) == [claims |-> cs, mentions |-> m, flags |-> fl]

MCTexts(f) ==
    CASE f = t1  -> {Doc(<<Claim(c1, {"path"}), Claim(c1, {})>>, {src}, {})}
      [] f = t2  -> {Doc(<<Claim(c2, {"path"})>>, {}, {})}
      [] f = src -> {Blank}

Symmetry == Permutations(Threads)
=============================================================================
