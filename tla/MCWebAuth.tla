----------------------------- MODULE MCWebAuth ------------------------------
(* WebAuth on small instances: two logins race for a store of two tokens,  *)
(* past the lifetime of the first, over a restart of the service.          *)
EXTENDS WebAuth, TLC

\* Identities only: no definition of WebAuth tells two of them apart.
Interchangeable ==
  Permutations(Token) \cup Permutations(Request) \cup Permutations(Credential)
=============================================================================
