------------------------------ MODULE MCApiServer ------------------------------
EXTENDS ApiServer, TLC

CONSTANTS c1, c2, c3, c4, c5, c6, w1, w2, w3, v1, v2, v3, v4, acme, k1, base, tools

\* c1, c2 and c6 are one request and its retries; c3 uses the key for another
\* body; c4 has no key; c5 may not use its template.
CreateTenant == [r \in Creates |-> acme]
CreateKey == [r \in Creates |-> IF r \in {c4, c5} THEN None ELSE k1]
CreateBody == [r \in Creates |-> IF r = c3 THEN 2 ELSE 1]

\* Requests for one pool, or for two; v2 grants more than w2 asks for, v3
\* rejects what v1 approves.
AskPool == [w \in Asks |-> base]
AskPools == [w \in Asks |-> IF w = w2 THEN tools ELSE base]
AskSize == [w \in Asks |-> IF w = w1 THEN 2 ELSE 1]
ReviewOf == [v \in Reviews |-> CASE v = v2 -> w2 [] v = v4 -> w3 [] OTHER -> w1]
ReviewApproves == [v \in Reviews |-> v # v3]
ReviewGrants == [v \in Reviews |-> IF v = v2 THEN 2 ELSE 0]

\* Nothing but their names tells the three attempts apart.
RetrySymmetry == Permutations({c1, c2, c6})

Together == {{c1, c2, c6}, {c1, c3, c5}, {c1, c4}, {w1, w2, w3, v1, v2, v3, v4}, {c1, w1, v1}}
Decided == {{w1, w2, w3, v1, v2, v3, v4}}
=============================================================================
