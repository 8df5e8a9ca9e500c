--------------------------- MODULE MCArticleReads ----------------------------
\* View counting and slugs touch different columns and keys.  They are checked side by
\* side: each behaviour is one of either component, and the other stays as it starts.
EXTENDS ViewCount, ArticleSlugs

\* Two articles of one author; the second candidate of the title spells the id of one.
CONSTANTS a1, a2, t1, u1
MCAlias == [s \in Slugs |-> IF s = <<t1, 2>> THEN a2 ELSE None]
MCAuthor == [a \in Ids |-> u1]

VARIABLE part

mcVars == <<part, vars, slugVars>>

\* Bound: an article that is alone at the start is the first; the other may come first
\* where none is there yet.
MCInit ==
    \/ part = "views" /\ Init /\ SlugInit /\ Live = {}
    \/ part = "slugs" /\ SlugInit /\ Init /\ Live # {a2}

MCNext ==
    /\ UNCHANGED part
    /\ \/ part = "views" /\ Next /\ UNCHANGED slugVars
       \/ part = "slugs" /\ SlugNext /\ UNCHANGED vars

MCSpec == MCInit /\ [][MCNext]_mcVars /\ Fairness
==============================================================================
