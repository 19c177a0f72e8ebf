---------------------------- MODULE MCSpecCatalog ----------------------------
(* Small instances of SpecCatalog for TLC.                                 *)
EXTENDS SpecCatalog, TLC

CONSTANTS c1, c2, c3, h1, h2, w1, w2, url

\* Two tenants' connections to one URL: the case where rows are shared.
AllUrl == [c \in Conns |-> "openapi_url"]
OneKey == [c \in Conns |-> url]

\* A third connection has no URL and gets its document by upload only.
UrlsAndBare == [c \in Conns |-> IF c = c3 THEN "bare_url" ELSE "openapi_url"]

Symmetric == Permutations(Conns) \cup Permutations(Hashes) \cup Permutations(Workers)
SymmetricUrls == Permutations({c1, c2}) \cup Permutations(Hashes)

=============================================================================
