------------------------------ MODULE Sessions ------------------------------
(***************************************************************************)
(* One user's way in: verification of the address, magic links, refresh    *)
(* tokens that rotate, and logout.                                         *)
(*                                                                         *)
(* Source: src/src/modules/auth/service.py and repository.py.  Every       *)
(* request looks its token up, then writes by primary key and commits; a   *)
(* request that finds nothing changes nothing and is not an action.  The   *)
(* UPDATE and the COMMIT are one step: the row is locked between them and  *)
(* readers see it as it was.  A token is named by the request that made    *)
(* it.                                                                     *)
(***************************************************************************)
EXTENDS FiniteSets

CONSTANTS
    Requests,  \* requests, each made once
    Signup,    \* the verification token, made at registration
    NoToken    \* NULL

ASSUME TokensAssumption ==
    /\ Signup \notin Requests
    /\ NoToken \notin Requests \cup {Signup}

Operations == {"verify", "login", "follow", "refresh", "logout"}

VARIABLES
    verified,      \* users.is_verified
    verification,  \* users.verification_token
    magic,         \* users.magic_link_token
    refresh,       \* refresh_tokens: no row, revoked_at is NULL, or it is not
    expired,       \* tokens whose exp has passed
    pc,            \* where each request is
    op,            \* its operation
    token,         \* the token it was given
    before,        \* the requests answered when it began (history)
    origin         \* the link each refresh token descends from (history)

user == <<verified, verification, magic>>
rows == <<user, refresh, expired>>
vars == <<rows, pc, op, token, before, origin>>

\* A user just registered, or one who has verified the address since.
Init ==
    /\ verified \in BOOLEAN
    /\ verification = IF verified THEN NoToken ELSE Signup
    /\ magic = NoToken
    /\ refresh = [r \in Requests |-> "none"]
    /\ expired = {}
    /\ pc = [r \in Requests |-> "new"]
    /\ op = [r \in Requests |-> "none"]
    /\ token = [r \in Requests |-> NoToken]
    /\ before = [r \in Requests |-> {}]
    /\ origin = [r \in Requests |-> NoToken]

Answered == {r \in Requests : pc[r] = "done"}

Issued == {r \in Requests : refresh[r] # "none"}

-----------------------------------------------------------------------------
(* The look-up of each request *)

Begin(r, o, t) ==
    /\ pc[r] = "new"
    /\ pc' = [pc EXCEPT ![r] = "found"]
    /\ op' = [op EXCEPT ![r] = o]
    /\ token' = [token EXCEPT ![r] = t]
    /\ before' = [before EXCEPT ![r] = Answered]
    /\ UNCHANGED <<rows, origin>>

\* get_by_verification_token: the token must still be the stored one.
VerifyEmail(r) ==
    /\ Signup \notin expired
    /\ verification = Signup /\ ~verified
    /\ Begin(r, "verify", Signup)

\* get_by_email; who has not verified the address is refused.
RequestMagicLink(r) ==
    /\ verified
    /\ Begin(r, "login", NoToken)

\* get_by_magic_link_token
FollowLink(r, l) ==
    /\ l \notin expired
    /\ magic = l
    /\ Begin(r, "follow", l)

\* Variant: the look-up does not ask whether the row is revoked.
RefreshAny(r, t) ==
    /\ t \in Issued /\ t \notin expired
    /\ Begin(r, "refresh", t)

\* get_by_token_hash: a row that is not revoked.
RefreshTokens(r, t) ==
    /\ refresh[t] = "live" /\ t \notin expired
    /\ Begin(r, "refresh", t)

\* The token is hashed, not decoded: expired and revoked ones are found as well.
Logout(r, t) ==
    /\ t \in Issued
    /\ Begin(r, "logout", t)

-----------------------------------------------------------------------------
(* Its writes and their commit *)

Answer(r) ==
    /\ pc' = [pc EXCEPT ![r] = "done"]
    /\ UNCHANGED <<expired, op, token, before>>

Found(r, o) == pc[r] = "found" /\ op[r] = o

\* Variant: both tokens of the user are cleared.
VerifyClearsBoth(r) ==
    /\ Found(r, "verify")
    /\ verified' = TRUE
    /\ verification' = NoToken
    /\ magic' = NoToken
    /\ Answer(r)
    /\ UNCHANGED <<refresh, origin>>

VerifyUser(r) ==
    /\ Found(r, "verify")
    /\ verified' = TRUE
    /\ verification' = NoToken
    /\ Answer(r)
    /\ UNCHANGED <<magic, refresh, origin>>

SetMagicLink(r) ==
    /\ Found(r, "login")
    /\ magic' = r
    /\ Answer(r)
    /\ UNCHANGED <<verified, verification, refresh, origin>>

\* Variant: the link is left for its expiry to end.
LogInKeep(r) ==
    /\ Found(r, "follow")
    /\ refresh' = [refresh EXCEPT ![r] = "live"]
    /\ origin' = [origin EXCEPT ![r] = token[r]]
    /\ Answer(r)
    /\ UNCHANGED user

\* clear_magic_link_token, by the user's id, and a refresh token.
LogIn(r) ==
    /\ Found(r, "follow")
    /\ magic' = NoToken
    /\ refresh' = [refresh EXCEPT ![r] = "live"]
    /\ origin' = [origin EXCEPT ![r] = token[r]]
    /\ Answer(r)
    /\ UNCHANGED <<verified, verification>>

\* Variant: the exchanged token is not revoked.
RotateKeep(r) ==
    /\ Found(r, "refresh")
    /\ refresh' = [refresh EXCEPT ![r] = "live"]
    /\ origin' = [origin EXCEPT ![r] = origin[token[r]]]
    /\ Answer(r)
    /\ UNCHANGED user

Rotate(r) ==
    /\ Found(r, "refresh")
    /\ refresh' = [refresh EXCEPT ![token[r]] = "revoked", ![r] = "live"]
    /\ origin' = [origin EXCEPT ![r] = origin[token[r]]]
    /\ Answer(r)
    /\ UNCHANGED user

Revoke(r) ==
    /\ Found(r, "logout")
    /\ refresh' = [refresh EXCEPT ![token[r]] = "revoked"]
    /\ Answer(r)
    /\ UNCHANGED <<user, origin>>

\* A statement or the commit raises: nothing is written.
RequestFails(r) ==
    /\ pc[r] = "found"
    /\ pc' = [pc EXCEPT ![r] = "failed"]
    /\ UNCHANGED <<rows, op, token, before, origin>>

\* exp passes: 15 minutes for the links, days for refresh tokens.
Expire(t) ==
    /\ t \notin expired
    /\ t \in Answered => op[t] \in {"login", "follow", "refresh"}
    /\ expired' = expired \cup {t}
    /\ UNCHANGED <<user, refresh, pc, op, token, before, origin>>

Next ==
    \/ \E r \in Requests :
          \/ VerifyEmail(r) \/ RequestMagicLink(r)
          \/ \E t \in Requests : FollowLink(r, t) \/ RefreshTokens(r, t) \/ Logout(r, t)
          \/ VerifyUser(r) \/ SetMagicLink(r) \/ LogIn(r) \/ Rotate(r) \/ Revoke(r)
          \/ RequestFails(r)
    \/ \E t \in Answered \cup {Signup} : Expire(t)

Spec == Init /\ [][Next]_vars

-----------------------------------------------------------------------------
(* Properties *)

\* Every variable has its type, and a request has the kind of token its operation
\* takes: a refresh or a logout under way never loses the row it has found.
TypeOK ==
    /\ verified \in BOOLEAN
    /\ verification \in {Signup, NoToken}
    /\ magic \in Requests \cup {NoToken}
    /\ refresh \in [Requests -> {"none", "live", "revoked"}]
    /\ expired \subseteq Requests \cup {Signup}
    /\ pc \in [Requests -> {"new", "found", "done", "failed"}]
    /\ op \in [Requests -> Operations \cup {"none"}]
    /\ token \in [Requests -> Requests \cup {Signup, NoToken}]
    /\ before \in [Requests -> SUBSET Requests]
    /\ origin \in [Requests -> Requests \cup {Signup, NoToken}]
    /\ \A r \in Requests : op[r] \in {"refresh", "logout"} => token[r] \in Issued

\* The requests that have used token t for operation o.
Users(o, t) == {r \in Answered : op[r] = o /\ token[r] = t}

\* A magic link logs in once (auth/service.py:168, "single-use"): of two logins
\* with one link, neither was answered before the other began.
LinksAreUsedOnce ==
    \A l \in Requests : \A q, r \in Users("follow", l) : q \notin before[r]

\* A refresh token that was exchanged, or logged out, is not exchanged by any
\* request that begins after the answer, whatever else is under way.
DeadTokensStayDead ==
    \A t \in Requests : \A q \in Users("refresh", t) \cup Users("logout", t) :
        \A r \in Users("refresh", t) : q \notin before[r]

\* A link is only lost to a newer one, to its own use, or to the use of another
\* link that had begun before this one was answered: clear_magic_link_token does
\* not look at what it clears.
LinksAreLostToOverlap ==
    [][magic # NoToken /\ magic' # magic =>
          \E r \in Requests :
             /\ pc[r] = "found" /\ pc'[r] = "done"
             /\ \/ magic' = r
                \/ token[r] = magic
                \/ op[r] = "follow" /\ magic \notin before[r]]_vars

\* Some token was exchanged twice.
Forked == \E q, r \in Issued : q # r /\ token[q] = token[r]

\* Rotation: unless two requests with one token overlapped (LinksAreUsedOnce and
\* DeadTokensStayDead), a login has at most one refresh token alive, in any order
\* of refreshes, logouts and failures.
OneSessionPerLogin ==
    Forked \/ \A q, r \in Issued :
        refresh[q] = "live" /\ refresh[r] = "live" /\ origin[q] = origin[r] => q = r
=============================================================================
