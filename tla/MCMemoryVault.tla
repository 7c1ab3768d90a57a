---------------------------- MODULE MCMemoryVault ----------------------------
(***************************************************************************)
(* Small instances of MemoryVault.  The texts share a word, and one of     *)
(* them, as a topic, is a word of the others.                              *)
(***************************************************************************)
EXTENDS MemoryVault

\* "likes coffee", "coffee machine descaling", "green tea", and a text the
\* privacy filter rejects.
Words == [likes |-> <<"likes", "coffee">>,
          machine |-> <<"coffee", "machine", "descaling">>,
          tea |-> <<"green", "tea">>,
          password |-> <<"password">>]
=============================================================================
