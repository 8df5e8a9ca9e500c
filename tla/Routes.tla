------------------------------- MODULE Routes -------------------------------
(***************************************************************************)
(* What the gateway and the services behind it know of each operation: the *)
(* class its route has in the gateway's table, what its handler parses,    *)
(* and which identity the use case behind it asks for.                     *)
(***************************************************************************)
EXTENDS Naturals, FiniteSets

(* newRouteRules: the class decides which middleware guards the route.     *)

Public ==
    {"Register", "Login", "RefreshToken", "ListArticles", "SearchArticles", "GetArticle",
     "ListTags", "ListCategories", "GetSiteConfig", "ListBackgrounds", "GetMusicPlaylist",
     "Logout"}

Auth ==
    {"GetProfile", "UpdateProfile", "CreateArticle", "ViewArticle", "UpdateArticle",
     "DeleteArticle", "PublishArticle", "ArchiveArticle", "LikeArticle", "UnlikeArticle",
     "UploadFile", "ListFiles", "GetPresignedPutURL", "GetFile", "DeleteFile",
     "CreatePresignedUpload", "CompletePresignedUpload"}

Admin ==
    {"CreateTag", "DeleteTag", "CreateCategory", "UpdateCategory", "DeleteCategory",
     "UpdateSiteConfig", "UploadBackground", "DeleteBackground", "SetActiveBackground",
     "UpdateMusicPlaylist"}

ClassOfLoose(r) ==
    IF r \in Public THEN "public" ELSE IF r \in Auth \cup {"DeleteTag"} THEN "auth" ELSE "admin"
ClassOf(r) == IF r \in Public THEN "public" ELSE IF r \in Auth THEN "auth" ELSE "admin"
-----------------------------------------------------------------------------
(* The proxy handlers: "id" is a number in the path, "query" a number in   *)
(* the query, "body" a JSON body (every method but GET may bring one).     *)

AuthHandler ==
    [Register |-> {"body"}, Login |-> {"body"}, RefreshToken |-> {"body"}, Logout |-> {"body"},
     GetProfile |-> {}, UpdateProfile |-> {"body"}]

ArticleHandler ==
    [CreateArticle |-> {"body"}, UpdateArticle |-> {"id", "body"}, DeleteArticle |-> {"id", "body"},
     GetArticle |-> {}, ListArticles |-> {"query"}, SearchArticles |-> {"query"}]

ArticleActions ==
    [r \in {"PublishArticle", "ArchiveArticle", "LikeArticle", "UnlikeArticle", "ViewArticle"}
        |-> {"id", "body"}]

TagHandler == [CreateTag |-> {"body"}, ListTags |-> {}, DeleteTag |-> {"id", "body"}]

CategoryHandler ==
    [CreateCategory |-> {"body"}, ListCategories |-> {}, UpdateCategory |-> {"id", "body"},
     DeleteCategory |-> {"id", "body"}]

FileHandler ==
    [UploadFile |-> {"body"}, GetFile |-> {"id"}, DeleteFile |-> {"id", "body"},
     ListFiles |-> {"query"}, GetPresignedPutURL |-> {}, CreatePresignedUpload |-> {"body"},
     CompletePresignedUpload |-> {"body"}]

SiteHandler ==
    [GetSiteConfig |-> {}, UpdateSiteConfig |-> {"body"}, ListBackgrounds |-> {},
     UploadBackground |-> {"body"}, DeleteBackground |-> {"id", "body"},
     SetActiveBackground |-> {"id", "body"}, GetMusicPlaylist |-> {},
     UpdateMusicPlaylist |-> {"body"}]

HandlerTables ==
    {AuthHandler, ArticleHandler, ArticleActions, TagHandler, CategoryHandler, FileHandler,
     SiteHandler}
Parses(r) == UNION {f[r] : f \in {g \in HandlerTables : r \in DOMAIN g}}

Operations == UNION {DOMAIN f : f \in HandlerTables}
-----------------------------------------------------------------------------
(* The use cases: getCurrentUserID (the profile looks up user 0 when there *)
(* is none and does not find it), requireAdmin, or nothing.  ListArticles  *)
(* asks for the author or an admin when the query is for drafts.           *)

ArticleNeeds ==
    {"CreateArticle", "UpdateArticle", "DeleteArticle", "PublishArticle", "ArchiveArticle",
     "LikeArticle", "UnlikeArticle"} \X {"user"}
    \cup {"GetArticle", "ListArticles", "SearchArticles", "ViewArticle"} \X {"none"}
    \cup {"ListArticles"} \X {"owner"}

CatalogNeeds ==
    {"CreateTag", "DeleteTag", "CreateCategory", "UpdateCategory", "DeleteCategory"} \X {"admin"}
    \cup {"ListTags", "ListCategories"} \X {"none"}

FileNeeds == (DOMAIN FileHandler) \X {"user"}

SiteNeeds ==
    {"UpdateSiteConfig", "UploadBackground", "DeleteBackground", "SetActiveBackground",
     "UpdateMusicPlaylist"} \X {"admin"}
    \cup {"GetSiteConfig", "ListBackgrounds", "GetMusicPlaylist"} \X {"none"}

AuthNeeds ==
    {"GetProfile", "UpdateProfile"} \X {"user"}
    \cup {"Register", "Login", "RefreshToken", "Logout"} \X {"none"}

Needs == ArticleNeeds \cup CatalogNeeds \cup FileNeeds \cup SiteNeeds \cup AuthNeeds

\* What tells one request from another on its way through the gateway.
Kinds == {[class |-> ClassOf(x[1]), need |-> x[2], parses |-> Parses(x[1])] : x \in Needs}

\* Every operation has a handler, a route in one class, and a use case.
ASSUME TableAssumption ==
    /\ Public \cup Auth \cup Admin = Operations
    /\ Cardinality(Public) + Cardinality(Auth) + Cardinality(Admin) = Cardinality(Operations)
    /\ {x[1] : x \in Needs} = Operations
=============================================================================
