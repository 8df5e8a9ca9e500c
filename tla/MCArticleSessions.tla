-------------------------- MODULE MCArticleSessions --------------------------
\* Article handlers and token sessions share nothing.  They are checked side by side:
\* each behaviour is one of either component, and the other stays as it starts.
EXTENDS ArticleLifecycle, TokenSession, TLC

\* Handlers are interchangeable, and so are the categories.
Symmetry == Permutations(Procs) \cup Permutations(Categories) \cup Permutations(Servers)

VARIABLE part

mcVars == <<part, vars, sessionVars>>

MCInit ==
    \/ part = "articles" /\ Init /\ SessionInit
    \/ part = "sessions" /\ SessionInit /\ Init /\ catMade = {}

MCNext ==
    /\ UNCHANGED part
    /\ \/ part = "articles" /\ Next /\ UNCHANGED sessionVars
       \/ part = "sessions" /\ SessionNext /\ UNCHANGED vars

MCSpec == MCInit /\ [][MCNext]_mcVars
==============================================================================
