----------------------------- MODULE MCHandler -----------------------------
EXTENDS Handler

OpDef(name) == [name |-> name, type |-> "query"]
Http(method, type, form, fault, query, name) ==
  [method |-> method, type |-> type, form |-> form, fault |-> fault, query |-> query, name |-> name]

\* Two operations, one that is anonymous, one of a kind the schema lacks, a syntax error and one
\* that validation refuses.
Text(fault, ops) == [fault |-> fault, ops |-> ops]
MCDocuments == [two |-> Text(None, <<OpDef("a"), OpDef("b")>>), anon |-> Text(None, <<OpDef(None)>>),
                other |-> Text(None, <<OpDef("a")>>),
                mut |-> Text(None, <<[name |-> "m", type |-> "mutation"]>>),
                bad |-> Text("syntax", <<>>), wrong |-> Text("invalid", <<>>)]

Asks == {<<"two", "a">>, <<"two", "b">>, <<"two", None>>, <<"anon", None>>, <<"anon", "a">>, <<"other", "a">>,
         <<"mut", "m">>, <<"bad", None>>, <<"wrong", None>>}
MCRequests ==
  {Http("POST", "json", FALSE, None, a[1], a[2]) : a \in Asks} \cup
  {Http("POST", "graphql", FALSE, None, "two", "a"), Http("GET", "other", FALSE, "values", "anon", None),
   Http("GET", "other", TRUE, "url", "anon", None), Http("POST", "form", TRUE, "large", "anon", None),
   Http("POST", "form", FALSE, "large", "anon", None), Http("POST", "other", FALSE, None, "anon", None),
   Http("PUT", "json", FALSE, None, "anon", None), Http("POST", "json", FALSE, "json", "anon", None)}

\* One document, asked for by both of its names.
TwoNames == {Http("POST", "json", FALSE, None, "two", name) : name \in {"a", "b"}}
=============================================================================
