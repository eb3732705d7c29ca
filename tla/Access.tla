------------------------------- MODULE Access -------------------------------
(* Who may call an endpoint: the tokens of api/auth.py, the login of        *)
(* api/auth_routes.py, and the roles an admin grants (api/admin.py).  A     *)
(* token carries the role its user had at login and is never revoked; a     *)
(* grant reads the row of the user and commits later.                       *)
EXTENDS Integers, FiniteSets

CONSTANTS Users,
          Founders,      \* the users that the seed makes admins
          Handlers,      \* requests that are served at a time
          TTL,           \* jwt_ttl_seconds
          LastSecond,       \* bound: last second
          MaxLogins,     \* bound: tokens
          MaxGrants      \* bound: grants

ASSUME AccessAssumption == /\ Founders \subseteq Users /\ Handlers # {}
                           /\ TTL \in Nat \ {0} /\ LastSecond \in Nat /\ MaxLogins \in Nat /\ MaxGrants \in Nat

_VALID_ROLES == {"admin", "reviewer", "readonly"}

VARIABLES clock,
          role,      \* users.role
          tokens,    \* the tokens that were issued
          grant,     \* the grant each handler serves
          held,      \* ghost: when each user was last an admin, -1 for never
          grants     \* ghost: the grants that were answered
accessVars == <<clock, role, tokens, grant, held, grants>>

NoToken == [sub |-> "", role |-> "", exp |-> 0]
Free == [pc |-> "free"]
AccessInit == /\ clock = 0
              /\ role = [u \in Users |-> IF u \in Founders THEN "admin" ELSE "readonly"]
              /\ held = [u \in Users |-> IF u \in Founders THEN 0 ELSE -1]
              /\ tokens = {} /\ grants = {}
              /\ grant = [h \in Handlers |-> Free]

AccessTick == /\ clock < LastSecond
              /\ clock' = clock + 1
              /\ held' = [u \in Users |-> IF role[u] = "admin" THEN clock' ELSE held[u]]
              /\ UNCHANGED <<role, tokens, grant, grants>>

issue_token(user) == [sub |-> user, role |-> role[user], exp |-> clock + TTL]

(* POST /auth/login: the role is that of the row. *)
login(user) ==
    /\ Cardinality(tokens) < MaxLogins
    /\ tokens' = tokens \cup {issue_token(user)}
    /\ UNCHANGED <<clock, role, grant, held, grants>>

\* Mutated form: a token is good in the second it expires.
VerifyLate(token) == clock <= token.exp

verify_token(token) == clock < token.exp

(* _extract_raw_token and require_role: the header goes before the cookie,   *)
(* also when its token is no good.                                          *)
get_current_user(bearer, session) == IF bearer # NoToken THEN bearer ELSE session
require_role(token, roles) == token # NoToken /\ verify_token(token) /\ token.role \in roles

(* POST /admin/users/{user_id}/role: the checks and the row of the user ... *)
grant_role(h, bearer, session, user, new_role) ==
    LET claims == get_current_user(bearer, session)
    IN  /\ grant[h].pc = "free" /\ Cardinality(grants) < MaxGrants
        /\ require_role(claims, {"admin"})
        /\ grant' = [grant EXCEPT ![h] = [pc |-> "read", by |-> claims.sub, user |-> user, role |-> new_role,
                                          previous_role |-> role[user], lag |-> clock - held[claims.sub],
                                          was_admin |-> held[claims.sub] >= 0, overtaken |-> FALSE]]
        /\ UNCHANGED <<clock, role, tokens, held, grants>>

(* ... and the commit, which updates the column if the new role is not the  *)
(* one that was read.                                                       *)
GrantCommits(h) ==
    LET g == grant[h]
    IN  /\ g.pc = "read"
        /\ role' = IF g.role = g.previous_role THEN role ELSE [role EXCEPT ![g.user] = g.role]
        /\ held' = [held EXCEPT ![g.user] = IF role'[g.user] = "admin" THEN clock ELSE @]
        /\ grants' = grants \cup {[by |-> g.by, user |-> g.user, role |-> g.role, lag |-> g.lag, was_admin |-> g.was_admin,
                                   stands |-> role'[g.user] = g.role, overtaken |-> g.overtaken]}
        /\ grant' = [i \in Handlers |->
                        IF i = h THEN Free
                        ELSE IF grant[i].pc = "read" /\ grant[i].user = g.user THEN [grant[i] EXCEPT !.overtaken = TRUE]
                        ELSE grant[i]]
        /\ UNCHANGED <<clock, tokens>>

(* The transaction fails, and nothing was granted. *)
GrantFails(h) ==
    /\ grant[h].pc = "read"
    /\ grant' = [grant EXCEPT ![h] = Free]
    /\ UNCHANGED <<clock, role, tokens, held, grants>>

AccessNext ==
    \/ AccessTick
    \/ \E user \in Users : login(user)
    \/ \E h \in Handlers :
          \/ \E bearer, session \in tokens \cup {NoToken}, user \in Users, new_role \in _VALID_ROLES :
                grant_role(h, bearer, session, user, new_role)
          \/ GrantCommits(h)
          \/ GrantFails(h)

-----------------------------------------------------------------------------
(* Nobody becomes an admin without an admin: every grant was asked for by   *)
(* somebody whose row had said admin less than TTL before, so a founder or  *)
(* somebody with a grant of their own; and an answered grant stands, unless *)
(* another grant to the same user was committed while it was served.        *)
AdminBacked ==
    /\ \A g \in grants : /\ g.was_admin /\ g.lag < TTL
                         /\ g.stands \/ g.overtaken
    /\ \A u \in Users : role[u] = "admin" => u \in Founders \/ \E g \in grants : g.user = u /\ g.role = "admin"
=============================================================================
