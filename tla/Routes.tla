------------------------------- MODULE Routes -------------------------------
(***************************************************************************)
(* The HTTP routes, as the decorators of the controllers declare them:     *)
(* whether JwtAuthGuard stands before a handler, the limit its requests    *)
(* are counted against, what the pipes look at, the status of success and  *)
(* the exceptions the handler itself throws.                               *)
(***************************************************************************)
Route(name, guard, limit, param, takes, status, throws) ==
  [name |-> name, guard |-> guard, limit |-> limit, param |-> param,
   takes |-> takes, status |-> status, throws |-> throws]

Public(name, limit, param, takes, status, throws) ==
  Route(name, "none", limit, param, takes, status, throws)

\* Every guarded route carries @SkipThrottle.
Admin(name, param, takes, status, throws) ==
  Route(name, "jwt", "skip", param, takes, status, throws)

AuthRoutes ==
  {Public("login", "login", "none", "body", 200, {401}),
   Public("refresh", "skip", "none", "nothing", 200, {401}),
   Public("logout", "skip", "none", "nothing", 200, {}),
   Admin("getProfile", "none", "nothing", 200, {})}

ContactRoutes ==
  {Public("contacts.create", "contactWrite", "none", "contact", 201, {})}

ContactAdminRoutes ==
  {Admin("contacts.findAllForAdmin", "none", "page", 200, {}),
   Admin("contacts.updateStatus", "uuid", "body", 200, {404})}

\* A faulty variant: a write with the limit of the reads.
ReviewRoutes_WritesAsReads ==
  {Public("reviews.create", "reviewRead", "none", "body", 201, {}),
   Public("reviews.findAllApproved", "reviewRead", "none", "page", 200, {}),
   Public("reviews.addComment", "reviewRead", "uuid", "body", 201, {404}),
   Public("reviews.findApprovedCommentsByReviewId", "reviewRead", "uuid", "page", 200, {404})}

ReviewRoutes ==
  {Public("reviews.create", "reviewWrite", "none", "body", 201, {}),
   Public("reviews.findAllApproved", "reviewRead", "none", "page", 200, {}),
   Public("reviews.addComment", "reviewWrite", "uuid", "body", 201, {404}),
   Public("reviews.findApprovedCommentsByReviewId", "reviewRead", "uuid", "page", 200, {404})}

ReviewAdminRoutes ==
  {Admin("reviews.findAllForAdmin", "none", "page", 200, {}),
   Admin("reviews.toggleApproval", "uuid", "nothing", 200, {404}),
   Admin("reviews.remove", "uuid", "nothing", 204, {404})}

\* Those that answer with cover images sign their keys, which throws a 500
\* when the storage is not configured.
ProjectRoutes ==
  {Public("projects.findPublic", "skip", "none", "works", 200, {500}),
   Public("projects.findOneBySlug", "skip", "none", "nothing", 200, {404, 500}),
   Admin("projects.findAllAdmin", "none", "works", 200, {500}),
   Admin("projects.findOneById", "uuid", "nothing", 200, {404, 500}),
   Admin("projects.create", "none", "project", 201, {409, 500}),
   Admin("projects.update", "uuid", "project", 200, {404, 409, 500}),
   Admin("projects.remove", "uuid", "nothing", 204, {404})}

UploadRoutes == {Admin("uploads.uploadCoverImage", "none", "image", 201, {400, 500})}

StatsRoutes == {Admin("stats.getStats", "none", "nothing", 200, {})}

Routes ==
  AuthRoutes \cup ContactRoutes \cup ContactAdminRoutes \cup ReviewRoutes
    \cup ReviewAdminRoutes \cup ProjectRoutes \cup UploadRoutes \cup StatsRoutes
=============================================================================
