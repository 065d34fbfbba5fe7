---------------------------- MODULE MCPlatformServer ----------------------------
(* A small server: two threads, one command line, an issuer with two keys. *)
EXTENDS PlatformServer, TLC

Ask(op, key, value, findings) == [op |-> op, key |-> key, value |-> value, findings |-> findings]

MCRequests ==
  {Ask("publish", "pets@1", "spec", <<"f1", "f2">>),
   Ask("publish", "pets@2", "spec", <<"f1", "">>),
   Ask("findings", "pets@1", "", <<"f3", "f4">>),
   Ask("org", "sales", "", <<>>),
   Ask("policy", "naming", "strict", <<>>),
   Ask("webhook", "https://hooks", "contract.published", <<>>)}

\* A token in order, and one that ends early.
MCTokens == {[issuer |-> TRUE, audience |-> TRUE, ends |-> 3, roles |-> {"devs", "admins"}],
             [issuer |-> TRUE, audience |-> TRUE, ends |-> 1, roles |-> {"devs", "guests"}]}

Symmetry == Permutations(Threads) \cup Permutations(Kids)

MCRoleMap == [devs |-> "member", admins |-> "admin"]
================================================================================
