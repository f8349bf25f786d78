---- MODULE MCRenderQueue ----
EXTENDS RenderQueue, TLC

\* Requests for the same documents in any order: the requests are interchangeable.
Symmetric == Permutations(Requests) \cup Permutations(Documents)
====
