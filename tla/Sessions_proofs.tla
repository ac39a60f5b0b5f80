-------------------------- MODULE Sessions_proofs --------------------------
(***************************************************************************)
(* Proofs about Sessions, for any number of requests.                      *)
(*                                                                         *)
(* The tokens a request holds were answered before it began (Known); hence *)
(* what it writes can only revive or clear what was made while it was      *)
(* under way (Spent, Dead, Held).  The session property follows from one   *)
(* about leaves: unless a token was exchanged twice, the tokens of a login *)
(* form a chain, and only its last member can be alive (Chain).            *)
(***************************************************************************)
EXTENDS Sessions, TLAPS

\* Tokens exist once their request is answered, and a request that uses one, or
\* remembers an answer, came later.
Known ==
    /\ Issued \subseteq Answered
    /\ magic # NoToken => magic \in Answered
    /\ \A r \in Requests :
          /\ pc[r] = "new" => op[r] = "none" /\ before[r] = {}
          /\ before[r] \subseteq Answered
          /\ op[r] = "follow" => token[r] \in Answered
          /\ op[r] \in {"refresh", "logout"} => token[r] \in Issued

\* A link that was followed is not in the user's row again, nor found again.
Spent ==
    \A q \in Requests : pc[q] = "done" /\ op[q] = "follow" =>
        /\ magic # token[q]
        /\ \A r \in Requests : op[r] = "follow" /\ token[r] = token[q] => q \notin before[r]

\* A token that was exchanged or logged out is revoked, and not found again.
Dead ==
    \A q \in Requests : pc[q] = "done" /\ op[q] \in {"refresh", "logout"} =>
        /\ refresh[token[q]] = "revoked"
        /\ \A r \in Requests : op[r] = "refresh" /\ token[r] = token[q] => q \notin before[r]

\* The link a follower is about to clear is its own, or newer than its look-up.
Held ==
    \A r \in Requests : Found(r, "follow") =>
        magic = token[r] \/ magic \notin before[r]

Leaf(t) == t \in Issued /\ \A r \in Issued : op[r] = "refresh" => token[r] # t

\* The tokens of a login form a chain.
Chain ==
    /\ \A r \in Issued : op[r] \in {"follow", "refresh"}
    /\ \A r \in Issued : op[r] = "refresh" => refresh[token[r]] # "live"
    /\ \A r \in Issued : \E q \in Issued : op[q] = "follow" /\ token[q] = origin[r]
    /\ Forked \/ \A q, r \in Requests : Leaf(q) /\ Leaf(r) /\ origin[q] = origin[r] => q = r

-----------------------------------------------------------------------------
(* Types *)

LEMMA TypeInit == Init => TypeOK
  BY TokensAssumption DEF Init, TypeOK, Issued, Operations

LEMMA TypeStep == ASSUME TypeOK, Known, [Next]_vars PROVE TypeOK'
<1> USE TokensAssumption DEF TypeOK, Issued, Operations, Answered, Known
<1>1. ASSUME NEW r \in Requests, VerifyEmail(r) PROVE TypeOK'
  BY <1>1 DEF VerifyEmail, Begin, rows, user
<1>2. ASSUME NEW r \in Requests, RequestMagicLink(r) PROVE TypeOK'
  BY <1>2 DEF RequestMagicLink, Begin, rows, user
<1>3. ASSUME NEW r \in Requests, NEW t \in Requests, FollowLink(r, t) PROVE TypeOK'
  BY <1>3 DEF FollowLink, Begin, rows, user
<1>4. ASSUME NEW r \in Requests, NEW t \in Requests, RefreshTokens(r, t) PROVE TypeOK'
  BY <1>4 DEF RefreshTokens, Begin, rows, user
<1>5. ASSUME NEW r \in Requests, NEW t \in Requests, Logout(r, t) PROVE TypeOK'
  BY <1>5 DEF Logout, Begin, rows, user
<1>6. ASSUME NEW r \in Requests, VerifyUser(r) PROVE TypeOK'
  BY <1>6 DEF VerifyUser, Found, Answer
<1>7. ASSUME NEW r \in Requests, SetMagicLink(r) PROVE TypeOK'
  BY <1>7 DEF SetMagicLink, Found, Answer
<1>8. ASSUME NEW r \in Requests, LogIn(r) PROVE TypeOK'
  BY <1>8 DEF LogIn, Found, Answer
<1>9. ASSUME NEW r \in Requests, Rotate(r) PROVE TypeOK'
  BY <1>9 DEF Rotate, Found, Answer, user
<1>10. ASSUME NEW r \in Requests, Revoke(r) PROVE TypeOK'
  BY <1>10 DEF Revoke, Found, Answer, user
<1>11. ASSUME NEW r \in Requests, RequestFails(r) PROVE TypeOK'
  BY <1>11 DEF RequestFails, rows, user
<1>12. ASSUME NEW t \in Answered \cup {Signup}, Expire(t) PROVE TypeOK'
  BY <1>12 DEF Expire, user
<1>13. CASE UNCHANGED vars
  BY <1>13 DEF vars, rows, user
<1>14. QED BY <1>1, <1>2, <1>3, <1>4, <1>5, <1>6, <1>7, <1>8, <1>9, <1>10, <1>11, <1>12, <1>13 DEF Next

-----------------------------------------------------------------------------
(* Tokens come before the requests that use them *)

LEMMA KnownInit == Init => Known
  BY TokensAssumption DEF Init, Known, Issued, Answered

LEMMA KnownStep == ASSUME TypeOK, Known, [Next]_vars PROVE Known'
<1> USE TokensAssumption DEF TypeOK, Known, Issued, Answered
<1>1. ASSUME NEW r \in Requests, VerifyEmail(r) PROVE Known'
  BY <1>1 DEF VerifyEmail, Begin, rows, user
<1>2. ASSUME NEW r \in Requests, RequestMagicLink(r) PROVE Known'
  BY <1>2 DEF RequestMagicLink, Begin, rows, user
<1>3. ASSUME NEW r \in Requests, NEW t \in Requests, FollowLink(r, t) PROVE Known'
  BY <1>3 DEF FollowLink, Begin, rows, user
<1>4. ASSUME NEW r \in Requests, NEW t \in Requests, RefreshTokens(r, t) PROVE Known'
  BY <1>4 DEF RefreshTokens, Begin, rows, user
<1>5. ASSUME NEW r \in Requests, NEW t \in Requests, Logout(r, t) PROVE Known'
  BY <1>5 DEF Logout, Begin, rows, user
<1>6. ASSUME NEW r \in Requests, VerifyUser(r) PROVE Known'
  BY <1>6 DEF VerifyUser, Found, Answer
<1>7. ASSUME NEW r \in Requests, SetMagicLink(r) PROVE Known'
  BY <1>7 DEF SetMagicLink, Found, Answer
<1>8. ASSUME NEW r \in Requests, LogIn(r) PROVE Known'
  BY <1>8 DEF LogIn, Found, Answer
<1>9. ASSUME NEW r \in Requests, Rotate(r) PROVE Known'
  BY <1>9 DEF Rotate, Found, Answer, user
<1>10. ASSUME NEW r \in Requests, Revoke(r) PROVE Known'
  BY <1>10 DEF Revoke, Found, Answer, user
<1>11. ASSUME NEW r \in Requests, RequestFails(r) PROVE Known'
  BY <1>11 DEF RequestFails, rows, user
<1>12. ASSUME NEW t \in Answered \cup {Signup}, Expire(t) PROVE Known'
  BY <1>12 DEF Expire, user
<1>13. CASE UNCHANGED vars
  BY <1>13 DEF vars, rows, user
<1>14. QED BY <1>1, <1>2, <1>3, <1>4, <1>5, <1>6, <1>7, <1>8, <1>9, <1>10, <1>11, <1>12, <1>13 DEF Next

-----------------------------------------------------------------------------
(* Magic links *)

LEMMA SpentStep == ASSUME TypeOK, Known, Spent, [Next]_vars PROVE Spent'
<1> USE TokensAssumption DEF TypeOK, Known, Spent, Answered
<1>1. ASSUME NEW r \in Requests, VerifyEmail(r) PROVE Spent'
  BY <1>1 DEF VerifyEmail, Begin, rows, user
<1>2. ASSUME NEW r \in Requests, RequestMagicLink(r) PROVE Spent'
  BY <1>2 DEF RequestMagicLink, Begin, rows, user
<1>3. ASSUME NEW r \in Requests, NEW t \in Requests, FollowLink(r, t) PROVE Spent'
  BY <1>3 DEF FollowLink, Begin, rows, user
<1>4. ASSUME NEW r \in Requests, NEW t \in Requests, RefreshTokens(r, t) PROVE Spent'
  BY <1>4 DEF RefreshTokens, Begin, rows, user
<1>5. ASSUME NEW r \in Requests, NEW t \in Requests, Logout(r, t) PROVE Spent'
  BY <1>5 DEF Logout, Begin, rows, user
<1>6. ASSUME NEW r \in Requests, VerifyUser(r) PROVE Spent'
  BY <1>6 DEF VerifyUser, Found, Answer
<1>7. ASSUME NEW r \in Requests, SetMagicLink(r) PROVE Spent'
  BY <1>7 DEF SetMagicLink, Found, Answer
<1>8. ASSUME NEW r \in Requests, LogIn(r) PROVE Spent'
  BY <1>8 DEF LogIn, Found, Answer
<1>9. ASSUME NEW r \in Requests, Rotate(r) PROVE Spent'
  BY <1>9 DEF Rotate, Found, Answer, user
<1>10. ASSUME NEW r \in Requests, Revoke(r) PROVE Spent'
  BY <1>10 DEF Revoke, Found, Answer, user
<1>11. ASSUME NEW r \in Requests, RequestFails(r) PROVE Spent'
  BY <1>11 DEF RequestFails, rows, user
<1>12. ASSUME NEW t \in Answered \cup {Signup}, Expire(t) PROVE Spent'
  BY <1>12 DEF Expire, user
<1>13. CASE UNCHANGED vars
  BY <1>13 DEF vars, rows, user
<1>14. QED BY <1>1, <1>2, <1>3, <1>4, <1>5, <1>6, <1>7, <1>8, <1>9, <1>10, <1>11, <1>12, <1>13 DEF Next

LEMMA HeldStep == ASSUME TypeOK, Known, Held, [Next]_vars PROVE Held'
<1> USE TokensAssumption DEF TypeOK, Known, Held, Answered, Found
<1>1. ASSUME NEW r \in Requests, VerifyEmail(r) PROVE Held'
  BY <1>1 DEF VerifyEmail, Begin, rows, user
<1>2. ASSUME NEW r \in Requests, RequestMagicLink(r) PROVE Held'
  BY <1>2 DEF RequestMagicLink, Begin, rows, user
<1>3. ASSUME NEW r \in Requests, NEW t \in Requests, FollowLink(r, t) PROVE Held'
  BY <1>3 DEF FollowLink, Begin, rows, user
<1>4. ASSUME NEW r \in Requests, NEW t \in Requests, RefreshTokens(r, t) PROVE Held'
  BY <1>4 DEF RefreshTokens, Begin, rows, user
<1>5. ASSUME NEW r \in Requests, NEW t \in Requests, Logout(r, t) PROVE Held'
  BY <1>5 DEF Logout, Begin, rows, user
<1>6. ASSUME NEW r \in Requests, VerifyUser(r) PROVE Held'
  BY <1>6 DEF VerifyUser, Found, Answer
<1>7. ASSUME NEW r \in Requests, SetMagicLink(r) PROVE Held'
  BY <1>7 DEF SetMagicLink, Found, Answer
<1>8. ASSUME NEW r \in Requests, LogIn(r) PROVE Held'
  BY <1>8 DEF LogIn, Found, Answer
<1>9. ASSUME NEW r \in Requests, Rotate(r) PROVE Held'
  BY <1>9 DEF Rotate, Found, Answer, user
<1>10. ASSUME NEW r \in Requests, Revoke(r) PROVE Held'
  BY <1>10 DEF Revoke, Found, Answer, user
<1>11. ASSUME NEW r \in Requests, RequestFails(r) PROVE Held'
  BY <1>11 DEF RequestFails, rows, user
<1>12. ASSUME NEW t \in Answered \cup {Signup}, Expire(t) PROVE Held'
  BY <1>12 DEF Expire, user
<1>13. CASE UNCHANGED vars
  BY <1>13 DEF vars, rows, user
<1>14. QED BY <1>1, <1>2, <1>3, <1>4, <1>5, <1>6, <1>7, <1>8, <1>9, <1>10, <1>11, <1>12, <1>13 DEF Next

-----------------------------------------------------------------------------
(* Refresh tokens *)

LEMMA DeadStep == ASSUME TypeOK, Known, Dead, [Next]_vars PROVE Dead'
<1> USE TokensAssumption DEF TypeOK, Known, Dead, Answered, Issued
<1>1. ASSUME NEW r \in Requests, VerifyEmail(r) PROVE Dead'
  BY <1>1 DEF VerifyEmail, Begin, rows, user
<1>2. ASSUME NEW r \in Requests, RequestMagicLink(r) PROVE Dead'
  BY <1>2 DEF RequestMagicLink, Begin, rows, user
<1>3. ASSUME NEW r \in Requests, NEW t \in Requests, FollowLink(r, t) PROVE Dead'
  BY <1>3 DEF FollowLink, Begin, rows, user
<1>4. ASSUME NEW r \in Requests, NEW t \in Requests, RefreshTokens(r, t) PROVE Dead'
  BY <1>4 DEF RefreshTokens, Begin, rows, user
<1>5. ASSUME NEW r \in Requests, NEW t \in Requests, Logout(r, t) PROVE Dead'
  BY <1>5 DEF Logout, Begin, rows, user
<1>6. ASSUME NEW r \in Requests, VerifyUser(r) PROVE Dead'
  BY <1>6 DEF VerifyUser, Found, Answer
<1>7. ASSUME NEW r \in Requests, SetMagicLink(r) PROVE Dead'
  BY <1>7 DEF SetMagicLink, Found, Answer
<1>8. ASSUME NEW r \in Requests, LogIn(r) PROVE Dead'
  BY <1>8 DEF LogIn, Found, Answer
<1>9. ASSUME NEW r \in Requests, Rotate(r) PROVE Dead'
  BY <1>9 DEF Rotate, Found, Answer, user
<1>10. ASSUME NEW r \in Requests, Revoke(r) PROVE Dead'
  BY <1>10 DEF Revoke, Found, Answer, user
<1>11. ASSUME NEW r \in Requests, RequestFails(r) PROVE Dead'
  BY <1>11 DEF RequestFails, rows, user
<1>12. ASSUME NEW t \in Answered \cup {Signup}, Expire(t) PROVE Dead'
  BY <1>12 DEF Expire, user
<1>13. CASE UNCHANGED vars
  BY <1>13 DEF vars, rows, user
<1>14. QED BY <1>1, <1>2, <1>3, <1>4, <1>5, <1>6, <1>7, <1>8, <1>9, <1>10, <1>11, <1>12, <1>13 DEF Next

\* Who holds which token does not change once it is issued.
LEMMA ChainUnchanged ==
    ASSUME TypeOK, Chain, Issued' = Issued,
           \A r \in Issued : op'[r] = op[r] /\ token'[r] = token[r] /\ origin'[r] = origin[r],
           \A r \in Requests : refresh'[r] = "live" => refresh[r] = "live"
    PROVE  Chain'
<1>1. \A r \in Issued : op[r] = "refresh" => token[r] \in Issued
  BY DEF TypeOK, Issued
<1>2. Forked' = Forked /\ \A t \in Requests : Leaf(t)' = Leaf(t)
  BY DEF Forked, Leaf
<1>3. QED BY <1>1, <1>2 DEF Chain, Leaf, Issued

\* A login's first token starts a chain: its link was not followed before, or
\* the link forks.
LEMMA ChainLogIn == ASSUME TypeOK, Known, Chain, NEW n \in Requests, LogIn(n)
                    PROVE  Chain'
<1>1. /\ n \notin Issued /\ Issued' = Issued \cup {n}
      /\ op' = op /\ token' = token /\ op[n] = "follow"
      /\ origin' = [origin EXCEPT ![n] = token[n]]
      /\ \A r \in Requests : r # n => refresh'[r] = refresh[r]
  BY DEF LogIn, Found, Answer, TypeOK, Known, Issued, Answered
<1>2. \A r \in Issued : r \in Requests /\ origin'[r] = origin[r]
  BY <1>1 DEF Issued, TypeOK
<1>3. origin'[n] = token[n]
  BY <1>1 DEF TypeOK
<1>4. \A r \in Issued' : op'[r] \in {"follow", "refresh"}
  BY <1>1 DEF Chain
<1>5. ASSUME NEW r \in Issued', op'[r] = "refresh" PROVE refresh'[token'[r]] # "live"
  BY <1>1, <1>5, n \notin Issued DEF Chain, Known, Issued
<1>6. \A r \in Issued' : \E q \in Issued' : op'[q] = "follow" /\ token'[q] = origin'[r]
  BY <1>1, <1>2, <1>3 DEF Chain
<1>7. ASSUME ~Forked',
             NEW q \in Requests, NEW r \in Requests,
             Leaf(q)', Leaf(r)', origin'[q] = origin'[r]
      PROVE  q = r
  <2>1. ~Forked
    BY <1>1, <1>7 DEF Forked
  <2>2. \A b \in Issued : Leaf(b)' => Leaf(b)
    BY <1>1 DEF Leaf
  <2>3. \A b \in Issued : origin'[b] # origin'[n]
    <3>1. SUFFICES ASSUME NEW b \in Issued, origin[b] = token[n] PROVE FALSE
      BY <1>2, <1>3
    <3>2. PICK a \in Issued : op[a] = "follow" /\ token[a] = token[n]
      BY <3>1 DEF Chain
    <3>3. QED BY <1>1, <1>7, <3>2 DEF Forked
  <2>4. q \in Issued' /\ r \in Issued'
    BY <1>7 DEF Leaf
  <2>5. CASE q \in Issued /\ r \in Issued
    BY <1>2, <1>7, <2>1, <2>2, <2>5 DEF Chain
  <2>6. CASE q = n \/ r = n
    BY <1>1, <1>7, <2>3, <2>4, <2>6
  <2>7. QED BY <1>1, <2>4, <2>5, <2>6
<1>8. QED BY <1>4, <1>5, <1>6, <1>7 DEF Chain

\* A new token takes the place of the leaf it was exchanged for.
LEMMA ChainRotate == ASSUME TypeOK, Known, Chain, NEW n \in Requests, Rotate(n)
                     PROVE  Chain'
<1>1. /\ n \notin Issued /\ token[n] \in Issued /\ Issued' = Issued \cup {n}
      /\ op' = op /\ token' = token /\ op[n] = "refresh"
      /\ origin' = [origin EXCEPT ![n] = origin[token[n]]]
      /\ refresh'[token[n]] = "revoked"
      /\ \A r \in Requests : r # n /\ r # token[n] => refresh'[r] = refresh[r]
  BY DEF Rotate, Found, Answer, TypeOK, Known, Issued, Answered
<1>2. \A r \in Issued : r \in Requests /\ origin'[r] = origin[r]
  BY <1>1 DEF Issued, TypeOK
<1>3. origin'[n] = origin[token[n]]
  BY <1>1 DEF TypeOK
<1>4. \A r \in Issued' : op'[r] \in {"follow", "refresh"}
  BY <1>1 DEF Chain
<1>5. ASSUME NEW r \in Issued', op'[r] = "refresh" PROVE refresh'[token'[r]] # "live"
  <2>1. CASE token[r] = token[n]
    BY <1>1, <2>1
  <2>2. CASE token[r] # token[n]
    <3>1. r \in Issued /\ token[r] \in Issued
      BY <1>1, <1>5, <2>2 DEF Known, Issued
    <3>2. QED BY <1>1, <1>5, <2>2, <3>1 DEF Chain, Issued
  <2>3. QED BY <2>1, <2>2
<1>6. \A r \in Issued' : \E q \in Issued' : op'[q] = "follow" /\ token'[q] = origin'[r]
  BY <1>1, <1>2, <1>3 DEF Chain
<1>7. ASSUME ~Forked',
             NEW q \in Requests, NEW r \in Requests,
             Leaf(q)', Leaf(r)', origin'[q] = origin'[r]
      PROVE  q = r
  <2>1. ~Forked
    BY <1>1, <1>7 DEF Forked
  <2>2. \A b \in Issued : Leaf(b)' => Leaf(b) /\ b # token[n]
    BY <1>1 DEF Leaf
  <2>3. Leaf(token[n])
    BY <1>1, <1>7 DEF Leaf, Forked
  <2>4. \A b \in Issued : Leaf(b)' => origin'[b] # origin'[n]
    BY <1>1, <1>2, <1>3, <2>1, <2>2, <2>3 DEF Chain
  <2>5. q \in Issued' /\ r \in Issued'
    BY <1>7 DEF Leaf
  <2>6. CASE q \in Issued /\ r \in Issued
    BY <1>2, <1>7, <2>1, <2>2, <2>6 DEF Chain
  <2>7. CASE q = n \/ r = n
    BY <1>1, <1>7, <2>4, <2>5, <2>7
  <2>8. QED BY <1>1, <2>5, <2>6, <2>7
<1>8. QED BY <1>4, <1>5, <1>6, <1>7 DEF Chain

LEMMA ChainStep == ASSUME TypeOK, Known, Chain, [Next]_vars PROVE Chain'
<1> DEFINE Same == /\ Issued' = Issued
                   /\ \A r \in Issued : op'[r] = op[r] /\ token'[r] = token[r] /\ origin'[r] = origin[r]
                   /\ \A r \in Requests : refresh'[r] = "live" => refresh[r] = "live"
<1>1. ASSUME NEW r \in Requests, NEW o, NEW t, Begin(r, o, t) PROVE Same
  BY <1>1 DEF Begin, rows, TypeOK, Known, Issued, Answered
<1>2. ASSUME NEW r \in Requests, NEW t \in Requests,
             VerifyEmail(r) \/ RequestMagicLink(r) \/ FollowLink(r, t)
               \/ RefreshTokens(r, t) \/ Logout(r, t)
      PROVE  Same
  BY ONLY <1>2, <1>1 DEF VerifyEmail, RequestMagicLink, FollowLink, RefreshTokens, Logout
<1>3. ASSUME NEW r \in Requests, VerifyUser(r) \/ SetMagicLink(r) PROVE Same
  BY <1>3 DEF VerifyUser, SetMagicLink, Answer, Issued
<1>4. ASSUME NEW r \in Requests, Revoke(r) PROVE Same
  BY <1>4 DEF Revoke, Found, Answer, TypeOK, Known, Issued
<1>5. ASSUME NEW r \in Requests, RequestFails(r) PROVE Same
  BY <1>5 DEF RequestFails, rows, Issued
<1>6. ASSUME NEW t \in Answered \cup {Signup}, Expire(t) PROVE Same
  BY <1>6 DEF Expire, Issued
<1>7. CASE UNCHANGED vars
  <2>1. Same BY <1>7 DEF vars, rows, Issued
  <2>2. QED BY <2>1, ChainUnchanged
<1>8. QED
  BY <1>2, <1>3, <1>4, <1>5, <1>6, <1>7, ChainUnchanged, ChainLogIn, ChainRotate DEF Next

-----------------------------------------------------------------------------
(* The theorems *)

SessionsInv == TypeOK /\ Known /\ Spent /\ Held /\ Dead /\ Chain

THEOREM SessionsInvHolds == Spec => []SessionsInv
<1>1. Init => SessionsInv
  <2>1. Init => Spent /\ Held /\ Dead /\ Chain
    BY DEF Init, Spent, Held, Dead, Chain, Found, Issued, Leaf
  <2>2. QED BY <2>1, TypeInit, KnownInit DEF SessionsInv
<1>2. SessionsInv /\ [Next]_vars => SessionsInv'
  BY TypeStep, KnownStep, SpentStep, HeldStep, DeadStep, ChainStep DEF SessionsInv
<1>3. QED BY <1>1, <1>2, PTL DEF Spec

\* Types, and that a refresh or a logout never loses its row.
THEOREM SessionsTypeOK == Spec => []TypeOK
  BY SessionsInvHolds, PTL DEF SessionsInv

\* A magic link logs in once, but for requests that overlap.
THEOREM LinksAreUsedOnceHolds == Spec => []LinksAreUsedOnce
<1>1. SessionsInv => LinksAreUsedOnce
  BY DEF SessionsInv, Spent, LinksAreUsedOnce, Users, Answered
<1>2. QED BY <1>1, SessionsInvHolds, PTL

\* A refresh token that was exchanged or logged out stays dead for later requests.
THEOREM DeadTokensStayDeadHolds == Spec => []DeadTokensStayDead
<1>1. SessionsInv => DeadTokensStayDead
  BY DEF SessionsInv, Dead, DeadTokensStayDead, Users, Answered
<1>2. QED BY <1>1, SessionsInvHolds, PTL

\* A login has at most one refresh token alive, unless requests with one token
\* overlapped.
THEOREM OneSessionPerLoginHolds == Spec => []OneSessionPerLogin
<1>1. SessionsInv => OneSessionPerLogin
  <2>1. SUFFICES ASSUME SessionsInv, ~Forked PROVE OneSessionPerLogin
    BY DEF OneSessionPerLogin
  <2>2. \A q \in Issued : refresh[q] = "live" => Leaf(q)
    BY <2>1 DEF SessionsInv, Chain, Leaf
  <2>3. QED BY <2>1, <2>2 DEF SessionsInv, Chain, OneSessionPerLogin, Issued
<1>2. QED BY <1>1, SessionsInvHolds, PTL

\* A link is lost only to a newer one, to its own use, or to an overlapping login.
THEOREM LinksAreLostToOverlapHolds == Spec => LinksAreLostToOverlap
<1> DEFINE Lost == magic # NoToken /\ magic' # magic =>
          \E r \in Requests :
             /\ pc[r] = "found" /\ pc'[r] = "done"
             /\ \/ magic' = r
                \/ token[r] = magic
                \/ op[r] = "follow" /\ magic \notin before[r]
<1>1. ASSUME SessionsInv, [Next]_vars PROVE Lost
  <2>1. SUFFICES ASSUME magic' # magic PROVE Lost
    OBVIOUS
  <2>2. \E r \in Requests : SetMagicLink(r) \/ LogIn(r)
    BY <1>1, <2>1 DEF Next, VerifyEmail, RequestMagicLink, FollowLink, RefreshTokens, Logout,
       Begin, VerifyUser, Rotate, Revoke, RequestFails, Expire, vars, rows, user
  <2>3. ASSUME NEW r \in Requests, SetMagicLink(r) PROVE Lost
    BY <1>1, <2>3 DEF SetMagicLink, Found, Answer, SessionsInv, TypeOK
  <2>4. ASSUME NEW r \in Requests, LogIn(r) PROVE Lost
    BY <1>1, <2>4 DEF LogIn, Found, Answer, SessionsInv, TypeOK, Held
  <2>5. QED BY <2>2, <2>3, <2>4
<1>2. SessionsInv /\ [Next]_vars => [Lost]_vars
  BY <1>1
<1>3. QED BY <1>2, SessionsInvHolds, PTL DEF Spec, LinksAreLostToOverlap

=============================================================================
