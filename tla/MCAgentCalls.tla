----------------------------- MODULE MCAgentCalls -----------------------------
(***************************************************************************)
(* Two slots whose ids share a textual prefix, and four shared paths: the  *)
(* journal, LESSONS.md, a contract path that git sees and one it ignores.  *)
(***************************************************************************)
EXTENDS AgentCalls

MCNoFile == <<>>
MCFlaws == {{"junk"}, {"brace", "long"}}
===============================================================================
