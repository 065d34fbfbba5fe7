------------------------------- MODULE Schema -------------------------------
(* The schema tree of the contract model (core/model.py).  A schema is a    *)
(* function from paths to nodes: a path is a sequence of steps, a step a    *)
(* keyword and the name (or position) of the child under it.  A node keeps  *)
(* what the node itself says; what is below it is at the longer paths.      *)
EXTENDS Naturals, Sequences, FiniteSets

CONSTANT None   \* an attribute the document does not declare

\* The numeric bounds a node may declare.
BoundNames == {"minimum", "maximum", "exclusive_minimum", "exclusive_maximum",
               "multiple_of", "min_length", "max_length", "min_items",
               "max_items", "min_properties", "max_properties"}

NoBounds == [b \in BoundNames |-> None]
NoNames == [n \in {} |-> None]

\* A node that declares nothing: the defaults of SchemaNode's fields.
AnyNode ==
  [type |-> None, title |-> None, example |-> None, format |-> None, nullable |-> FALSE, default |-> None,
   enum |-> None, const |-> None, pattern |-> None, unique |-> FALSE,
   bounds |-> NoBounds, required |-> {}, additional |-> None,
   dependentRequired |-> NoNames, minContains |-> None, maxContains |-> None,
   discriminator |-> None, mapping |-> NoNames,
   numbers |-> NoNames, reserved |-> {}, presence |-> {}, oneofs |-> NoNames]

Child(path, keyword, name) == Append(path, <<keyword, name>>)

Has(s, path, keyword, name) == Child(path, keyword, name) \in DOMAIN s

\* The names (or positions) of the children under a keyword.
Names(s, path, keyword) ==
  { q[Len(q)][2] : q \in { r \in DOMAIN s : /\ Len(r) = Len(path) + 1
                                            /\ SubSeq(r, 1, Len(path)) = path
                                            /\ r[Len(r)][1] = keyword } }

\* The schema rooted at one of the tree's paths.
Subtree(s, path) ==
  LET below == { q \in DOMAIN s : /\ Len(q) >= Len(path)
                                  /\ SubSeq(q, 1, Len(path)) = path }
  IN [ r \in { SubSeq(q, Len(path) + 1, Len(q)) : q \in below } |-> s[path \o r] ]

Under(s, keyword, name) == Subtree(s, <<<<keyword, name>>>>)

\* What a dictionary attribute holds for a name, `otherwise` when it is absent.
Get(f, name, otherwise) == IF name \in DOMAIN f THEN f[name] ELSE otherwise
=============================================================================
