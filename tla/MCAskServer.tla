------------------------------ MODULE MCAskServer ------------------------------
(* Values for the constants of AskServer.  Two responses to p2 fit into the   *)
(* cache, one to p1 fills it, and some edits exceed a chunk.                  *)
EXTENDS AskServer

CONSTANTS p1, p2, s1, s2

TwoPrompts == {p1, p2}
TwoSessions == {s1, s2}
Sizes == (p1 :> 3) @@ (p2 :> 1)

(* A cache as it starts, and one that has answered p2 twice.                  *)
KeyOf(provider, prompt) ==
    [provider |-> provider, prompt |-> prompt, model |-> "default"]
After(c, key) == Set(c, key, key, Sizes[key.prompt], 0)
SomeCaches ==
    { EmptyCache,
      After(After(EmptyCache, KeyOf("gemini", p2)), KeyOf("codex", p2)) }

AskOf(provider, prompt, model, session) ==
    [tool |-> "ask", provider |-> provider, prompt |-> prompt, model |-> model,
     session |-> session]
EditOf(prompt) == [AskOf("gemini", prompt, "default", NoSession) EXCEPT !.tool = "edit"]

SomeRequests ==
    { AskOf("codex", p1, "default", NoSession),
      AskOf("codex", p2, "fallback", NoSession),
      AskOf("ollama", p1, "default", s1),
      AskOf("ollama", p1, "default", s2),
      EditOf(p1) }

Block(file, size) ==
    [style |-> "markdown", filename |-> file, size |-> size, valid |-> TRUE, sameName |-> TRUE]

SomeReplies ==
    { << Block("f", 1), Block("g", 1), Block("f", 1) >>,
      << Block("f", 2), Block("g", 3), Block("f", 2), Block("h", 1), Block("g", 1) >>,
      << Block("f", 5), Block("g", 1) >>,
      << [Block("f", 4) EXCEPT !.valid = FALSE], Block("g", 1) >>,
      << [Block("f", 1) EXCEPT !.style = "tagged"],
         [Block("g", 1) EXCEPT !.style = "tagged", !.sameName = FALSE] >> }

=============================================================================
