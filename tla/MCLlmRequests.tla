--------------------------- MODULE MCLlmRequests ---------------------------
(* LlmRequests for TLC: two providers, of which either may be missing from  *)
(* a table; a name that two directories claim and one that only one does;   *)
(* one edit, which may rename, disable, break or rewrite a file; two lives. *)
EXTENDS LlmRequests

Skill(name, enabled) == [kind |-> "skill", name |-> name, enabled |-> enabled]
Broken(kind) == [kind |-> kind, name |-> "draw", enabled |-> TRUE]

MCContents == {Skill("draw", TRUE), Skill("draw", FALSE), Skill("sum", TRUE),
               Broken("bad"), Broken("fatal")}
MCLayouts  == {<<Skill("draw", TRUE), Skill("sum", TRUE)>>,
               <<Skill("sum", TRUE), Skill("sum", TRUE)>>,
               <<Skill("draw", FALSE), Broken("bad")>>}

Image(form, base64, size, magic, animated) ==
    [form |-> form, base64 |-> base64, size |-> size, magic |-> magic,
     animated |-> animated]
MCImages == {Image("https", FALSE, 0, FALSE, FALSE),
             Image("unsplittable", FALSE, 0, FALSE, FALSE),
             Image("data", TRUE, 1, TRUE, FALSE),
             Image("data", TRUE, 1, TRUE, TRUE)}
=============================================================================
