-------------------------- MODULE Accounts_proofs --------------------------
(***************************************************************************)
(* Proofs about Accounts, for every number of overlapping requests, of      *)
(* attempts, tokens and resets.                                             *)
(***************************************************************************)
EXTENDS Accounts, FiniteSetTheorems, TLAPS

-----------------------------------------------------------------------------
(* The inductive invariant.                                                 *)

Buckets == {"login", "verify", "reset", "send"}

(* What a request has read or decided and goes on with, long after.         *)
Holds(q) ==
  /\ q.op = "verify" => (q.open => Exists)
  /\ q.op = "clear" => q.bucket \in Buckets /\ (q.bucket = "reset" => Exists)
  /\ q.op = "login" => q.row \in User \cup {NoUser}
  /\ q.op = "pair" => q.version \in Nat
  /\ q.op = "family" => q.family \in Tokens
  /\ q.op = "rotate" => q.token \in Tokens /\ tokens[q.token].version = q.version
  /\ q.op = "retire" => q.token \in Tokens
  /\ q.op = "compare" => q.attempt \in Nat
  /\ q.op \in {"take", "free", "grant"} => Exists

RequestsHold ==
  /\ req = [r \in Requests |-> req[r]]
  /\ \A r \in Requests : Holds(req[r])

(* Tokens are numbered as they are issued, a family after its first one.    *)
TokensNumbered ==
  /\ Cardinality(Tokens) \in Nat /\ tokens \in [1..Cardinality(Tokens) -> RefreshToken]
  /\ ghost.ended \subseteq Tokens
  /\ \A t \in Tokens : tokens[t].family \in Tokens

(* A live reset code is that of an active account.                          *)
CodeHasAccount == rcode # 0 => Exists /\ user.active

TypeInv == TypeOK /\ TokensNumbered /\ RequestsHold /\ CodeHasAccount

(* A refresh that found its session already ended has a late token.         *)
LateRefreshes ==
  \A r \in Requests : req[r].op = "rotate" /\ ~req[r].open => tokens[req[r].token].late

(* A token carries the version its session proved the password of.          *)
TokensProved == \A t \in Tokens : tokens[t].proved = tokens[t].version

(* A verification code has counted every wrong guess at it.                 *)
AttemptsCounted ==
  /\ ghost.vtried <= MaxAttempts
  /\ vcode # NoCode => ghost.vtried = vcode.failed /\ vcode.failed < MaxAttempts

(* Requests that have yet to send, count against a budget, or compare.      *)
Sending == {r \in Requests : \/ req[r].op \in {"resend", "issue"}
                             \/ req[r].op = "register" /\ req[r].send}
Pending(b) ==
  {r \in Requests : \/ b \in {"login", "verify"} /\ req[r].op = b
                    \/ b = "reset" /\ req[r].op \in {"count", "compare", "wrong"}}
Comparing == {r \in Requests : req[r].op = "compare" /\ req[r].attempt <= MaxAttempts}
Freeing == {r \in Requests : req[r].op = "free"}

MailsReserved == ghost.mails + Cardinality(Sending) <= ghost.periods

BudgetsReserved ==
  FailureLimit > 0 =>
    \A b \in {"login", "verify", "reset"} :
      bucket[b] + Cardinality(Pending(b)) < FailureLimit + Cardinality(Requests)

(* What can still be tried against a live reset code: a guess already       *)
(* counted, those the counter leaves, and a new counter for each request    *)
(* that is about to free it.                                                *)
Left == IF attempts < MaxAttempts THEN MaxAttempts - attempts ELSE 0

TriesReserved ==
  /\ ghost.rtried <= MaxAttempts * Cardinality(Requests)
  /\ rcode # 0 =>
       ghost.rtried + Cardinality(Comparing) + Left + MaxAttempts * Cardinality(Freeing)
         <= MaxAttempts * Cardinality(Requests)

(* What is invariant about sessions, and about limits.                      *)
SessionInv == TypeInv /\ TokensProved /\ EndedSessionsStayEnded /\ LateRefreshes
LimitInv == TypeInv /\ AttemptsCounted /\ MailsReserved /\ BudgetsReserved /\ TriesReserved

-----------------------------------------------------------------------------
(* The account only goes on, and its tokens only grow older.                *)

UserGrows ==
  /\ user' \in User \cup {NoUser} /\ user.version <= user'.version
  /\ Exists => Exists' /\ (user.active => user'.active)

TokensGrow ==
  /\ Tokens \subseteq Tokens'
  /\ \A t \in Tokens : /\ tokens'[t].family = tokens[t].family
                       /\ tokens'[t].version = tokens[t].version
                       /\ tokens'[t].proved = tokens[t].proved
                       /\ tokens'[t].late = tokens[t].late
                       /\ tokens[t].revoked => tokens'[t].revoked

(* issue_token_pair adds one token, numbered after the others.              *)
LEMMA IssueAdds ==
  ASSUME TypeInv, NEW token \in RefreshToken, Issue(token)
  PROVE  LET n == Cardinality(Tokens) IN
         /\ n + 1 \in Nat /\ n + 1 \notin Tokens /\ Tokens' = Tokens \cup {n + 1}
         /\ Cardinality(Tokens') = n + 1 /\ tokens' \in [1..(n + 1) -> RefreshToken]
         /\ tokens'[n + 1] = token /\ \A t \in Tokens : tokens'[t] = tokens[t]
<1> DEFINE n == Cardinality(Tokens)
<1>1. n \in Nat /\ tokens \in [1..n -> RefreshToken] /\ Tokens = 1..n
  BY DEF TypeInv, TokensNumbered, Tokens
<1> HIDE DEF n
<1>2. 1..(n + 1) = Tokens \cup {n + 1} /\ n + 1 \notin Tokens
  BY <1>1
<1>3. tokens' = [t \in 1..(n + 1) |-> IF t \in Tokens THEN tokens[t] ELSE token]
  BY <1>2 DEF Issue, n
<1>4. Tokens' = 1..(n + 1)
  BY <1>3 DEF Tokens
<1>5. Cardinality(1..(n + 1)) = n + 1
  BY <1>1, FS_Interval
<1>6. QED
  BY <1>1, <1>2, <1>3, <1>4, <1>5 DEF n

(* Revoking touches nothing but `revoked`.                                  *)
LEMMA RevokingGrows ==
  ASSUME TypeInv, NEW families, tokens' = Revoked(families)
  PROVE  /\ TokensGrow /\ Tokens' = Tokens
         /\ tokens' \in [1..Cardinality(Tokens) -> RefreshToken]
         /\ \A t \in Tokens : tokens[t].family \in families => tokens'[t].revoked
<1> DEFINE n == Cardinality(Tokens)
<1>1. n \in Nat /\ tokens \in [1..n -> RefreshToken] /\ Tokens = 1..n
  BY DEF TypeInv, TokensNumbered, Tokens
<1> HIDE DEF n
<1>2. Tokens' = Tokens
  BY DEF Revoked, Tokens
<1>3. ASSUME NEW t \in Tokens
      PROVE  /\ tokens'[t] \in RefreshToken
             /\ tokens'[t].family = tokens[t].family
             /\ tokens'[t].version = tokens[t].version
             /\ tokens'[t].proved = tokens[t].proved
             /\ tokens'[t].late = tokens[t].late
             /\ tokens[t].revoked => tokens'[t].revoked
             /\ tokens[t].family \in families => tokens'[t].revoked
  <2>1. tokens[t] \in RefreshToken
    BY <1>1
  <2>2. tokens'[t] = IF tokens[t].family \in families
                       THEN [tokens[t] EXCEPT !.revoked = TRUE] ELSE tokens[t]
    BY DEF Revoked
  <2>3. QED
    BY <2>1, <2>2 DEF RefreshToken
<1>4. tokens' \in [1..n -> RefreshToken]
  BY <1>1, <1>2, <1>3 DEF Revoked
<1>5. QED
  BY <1>2, <1>3, <1>4 DEF TokensGrow, n

(* The steps that change neither the account, its tokens nor what has ended.*)
QuietEndpoint(r) ==
  \/ \E op \in {"register", "resend"} : Reserve(r, op)
  \/ \E g \in Guesses : VerifyStart(r, g) \/ GuessStart(r, g)
  \/ \E p \in Passwords : LoginStart(r, p)
  \/ \E t \in Tokens : RefreshRead(r, t) \/ Logout(r, t)
  \/ ResetAsk(r)

QuietStep(r) ==
  \/ Resend(r) \/ IssueCode(r) \/ ClearBucket(r) \/ Login(r) \/ ResetIssue(r)
  \/ GuessCount(r) \/ GuessCompare(r) \/ GuessWrong(r) \/ GuessTake(r) \/ GuessFree(r)
  \/ GuessGrant(r) \/ Crash(r)

QuietTime ==
  \/ \E b \in DOMAIN bucket : WindowEnds(b)
  \/ \E k \in flags : FlagLapses(k)
  \/ VerificationExpires \/ ResetExpires

Quiet == UNCHANGED <<user, tokens>> /\ ghost'.ended = ghost.ended

(* What those steps leave alone.                                            *)
LEMMA QuietSteps ==
  ASSUME TypeInv, NEW r, QuietEndpoint(r) \/ QuietStep(r) \/ QuietTime
  PROVE  Quiet
<1> USE DEF Quiet, rows, redis
<1>0. ghost \in Ghost
  BY DEF TypeInv, TypeOK
<1>1. ASSUME NEW op, Reserve(r, op)
      PROVE  Quiet
  BY <1>0, <1>1 DEF Reserve, Ghost
<1>2. ASSUME NEW g, VerifyStart(r, g) \/ GuessStart(r, g) \/ LoginStart(r, g)
      PROVE  Quiet
  BY <1>0, <1>2 DEF VerifyStart, GuessStart, LoginStart, Ask, Ghost
<1>3. ASSUME NEW t, RefreshRead(r, t) \/ Logout(r, t)
      PROVE  Quiet
  BY <1>0, <1>3 DEF RefreshRead, Logout, Ask, Ghost
<1>4. CASE ResetAsk(r)
  BY <1>0, <1>4 DEF ResetAsk, Ask, Ghost
<1>5. CASE QuietStep(r)
  BY <1>0, <1>5 DEF QuietStep, Resend, IssueCode, ClearBucket, Login, ResetIssue, GuessCount,
     GuessCompare, GuessWrong, GuessTake, GuessFree, GuessGrant, Crash, Ghost
<1>6. CASE QuietTime
  BY <1>6 DEF QuietTime, WindowEnds, FlagLapses, VerificationExpires, ResetExpires
<1>7. QED
  BY <1>1, <1>2, <1>3, <1>4, <1>5, <1>6 DEF QuietEndpoint

(* Every step lets the account go on, and keeps the tokens in order.        *)
LEMMA AccountGoesOn ==
  ASSUME TypeInv, [Next]_vars
  PROVE  UserGrows /\ TokensGrow /\ TokensNumbered'
<1> DEFINE n == Cardinality(Tokens)
<1>0. /\ user \in User \cup {NoUser} /\ ghost \in Ghost /\ user.version \in Int
      /\ n \in Nat /\ tokens \in [1..n -> RefreshToken] /\ Tokens = 1..n
      /\ ghost.ended \subseteq Tokens /\ \A t \in Tokens : tokens[t].family \in Tokens
  BY DEF TypeInv, TypeOK, TokensNumbered, Tokens, User, NoUser
<1>1. CASE Quiet \/ UNCHANGED vars
  <2>1. UNCHANGED <<user, tokens>> /\ ghost'.ended = ghost.ended
    BY <1>1 DEF Quiet, vars
  <2>2. TokensGrow /\ TokensNumbered'
    BY <1>0, <2>1 DEF TokensGrow, TokensNumbered, Tokens
  <2>3. QED
    BY <1>0, <2>1, <2>2 DEF UserGrows, Exists
<1>2. ASSUME NEW r \in Requests, Register(r)
      PROVE  UserGrows /\ TokensGrow /\ TokensNumbered'
  <2>1. UNCHANGED tokens /\ ghost'.ended = ghost.ended
    BY <1>0, <1>2 DEF Register, Ghost
  <2>2. CASE Exists
    BY <1>0, <1>2, <2>1, <2>2 DEF Register, UserGrows, TokensGrow, TokensNumbered, Tokens, Exists
  <2>3. CASE ~Exists
    <3>1. user = NoUser /\ user' = [active |-> FALSE, version |-> 0]
      BY <1>2, <2>3 DEF Register, Exists
    <3>2. UserGrows
      BY <3>1 DEF UserGrows, User, NoUser, Exists
    <3>3. QED
      BY <1>0, <2>1, <3>2 DEF TokensGrow, TokensNumbered, Tokens
  <2>4. QED
    BY <2>2, <2>3
<1>3. ASSUME NEW r \in Requests, Verify(r)
      PROVE  UserGrows /\ TokensGrow /\ TokensNumbered'
  <2>1. UNCHANGED tokens /\ ghost'.ended = ghost.ended
    BY <1>0, <1>3 DEF Verify, Ghost
  <2>2. UNCHANGED user \/ (user # NoUser /\ user' = [user EXCEPT !.active = TRUE])
    BY <1>3 DEF Verify, TypeInv, RequestsHold, Holds, Exists
  <2>3. UserGrows
    <3>1. CASE UNCHANGED user
      BY <1>0, <3>1 DEF UserGrows, Exists
    <3>2. CASE user # NoUser /\ user' = [user EXCEPT !.active = TRUE]
      <4>1. user \in User /\ user.version \in Nat
        BY <1>0, <3>2 DEF User
      <4>2. /\ user' \in User /\ user'.version = user.version /\ user'.active = TRUE
        BY <3>2, <4>1 DEF User
      <4>3. user' # NoUser
        BY <4>1, <4>2 DEF NoUser
      <4>4. user.version <= user'.version
        BY <4>1, <4>2
      <4>5. QED
        BY <4>2, <4>3, <4>4, Zenon DEF UserGrows, Exists
    <3>3. QED
      BY <2>2, <3>1, <3>2
  <2>4. QED
    BY <1>0, <2>1, <2>3 DEF TokensGrow, TokensNumbered, Tokens
<1>4. ASSUME NEW token \in RefreshToken, Issue(token), token.family \in Tokens \cup {n + 1},
             UNCHANGED user, ghost'.ended = ghost.ended
      PROVE  UserGrows /\ TokensGrow /\ TokensNumbered'
  <2>1. UserGrows
    BY <1>0, <1>4 DEF UserGrows, Exists
  <2>2. TokensGrow
    BY <1>4, IssueAdds DEF TokensGrow
  <2>3. TokensNumbered'
    BY <1>0, <1>4, IssueAdds DEF TokensNumbered
  <2>4. QED
    BY <2>1, <2>2, <2>3
<1>5. ASSUME NEW r \in Requests, NewSession(r)
      PROVE  UserGrows /\ TokensGrow /\ TokensNumbered'
  <2>1. req[r].version \in Nat
    BY <1>5 DEF NewSession, TypeInv, RequestsHold, Holds
  <2>2. [family |-> n + 1, revoked |-> FALSE, version |-> req[r].version,
         proved |-> req[r].version, late |-> FALSE] \in RefreshToken
    BY <1>0, <2>1 DEF RefreshToken
  <2>3. QED
    BY <1>4, <1>5, <2>2 DEF NewSession
<1>6. ASSUME NEW r \in Requests, Rotate(r)
      PROVE  UserGrows /\ TokensGrow /\ TokensNumbered'
  <2> DEFINE old == tokens[req[r].token]
             late == old.late \/ (req[r].open /\ old.family \in ghost.ended)
             new == [old EXCEPT !.revoked = FALSE, !.version = req[r].version, !.late = late]
  <2>1. req[r].token \in Tokens /\ req[r].version = old.version
    BY <1>6 DEF Rotate, TypeInv, RequestsHold, Holds
  <2>2. old \in RefreshToken /\ old.family \in Tokens
    BY <1>0, <2>1
  <2>3. new \in RefreshToken /\ new.family = old.family
    <3>1. late \in BOOLEAN
      BY Zenon
    <3> HIDE DEF late, old
    <3>2. QED
      BY <2>1, <2>2, <3>1 DEF RefreshToken
  <2>4. Issue(new) /\ UNCHANGED user /\ ghost'.ended = ghost.ended
    BY <1>6 DEF Rotate
  <2> HIDE DEF new
  <2>5. QED
    BY <1>4, <2>2, <2>3, <2>4
<1>7. ASSUME NEW r \in Requests, Retire(r)
      PROVE  UserGrows /\ TokensGrow /\ TokensNumbered'
  <2>1. req[r].token \in Tokens
    BY <1>7 DEF Retire, TypeInv, RequestsHold, Holds
  <2>2. /\ tokens' = [tokens EXCEPT ![req[r].token] = [@ EXCEPT !.revoked = TRUE]]
        /\ UNCHANGED user /\ ghost' = ghost
    BY <1>7 DEF Retire
  <2>3. [tokens[req[r].token] EXCEPT !.revoked = TRUE] \in RefreshToken
    BY <1>0, <2>1 DEF RefreshToken
  <2>4. /\ tokens' \in [1..n -> RefreshToken] /\ Tokens' = Tokens
    BY <1>0, <2>1, <2>2, <2>3 DEF Tokens
  <2>5. TokensGrow
    BY <1>0, <2>1, <2>2, <2>4 DEF TokensGrow, RefreshToken
  <2>6. TokensNumbered'
    BY <1>0, <2>2, <2>4, <2>5 DEF TokensNumbered, TokensGrow
  <2>7. QED
    BY <1>0, <2>2, <2>5, <2>6 DEF UserGrows, Exists
<1>8. ASSUME NEW families, families \subseteq Tokens, tokens' = Revoked(families),
             ghost'.ended = ghost.ended \cup families, UserGrows
      PROVE  UserGrows /\ TokensGrow /\ TokensNumbered'
  BY <1>0, <1>8, RevokingGrows DEF TokensNumbered, TokensGrow
<1>9. ASSUME NEW r \in Requests, RevokeFamily(r)
      PROVE  UserGrows /\ TokensGrow /\ TokensNumbered'
  <2>1. req[r].family \in Tokens
    BY <1>9 DEF RevokeFamily, TypeInv, RequestsHold, Holds
  <2>2. ghost'.ended = ghost.ended \cup {req[r].family}
    BY <1>0, <1>9 DEF RevokeFamily, Ended, Ghost
  <2>3. UserGrows
    BY <1>0, <1>9 DEF RevokeFamily, UserGrows, Exists
  <2>4. QED
    BY <1>8, <1>9, <2>1, <2>2, <2>3 DEF RevokeFamily
<1>10. ASSUME NEW r \in Requests, LogoutAll(r) \/ \E v \in grants : ResetPassword(r, v)
       PROVE  UserGrows /\ TokensGrow /\ TokensNumbered'
  <2>1. ghost'.ended = ghost.ended \cup Families /\ Families \subseteq Tokens
    BY <1>0, <1>10 DEF LogoutAll, ResetPassword, Ended, Ghost, Families
  <2>2. UserGrows
    <3>1. CASE UNCHANGED user
      BY <1>0, <3>1 DEF UserGrows, Exists
    <3>2. CASE user.version \in grants /\ user' = [user EXCEPT !.version = @ + 1]
      <4>1. user.version \in Nat /\ user \in User
        BY <1>0, <3>2 DEF TypeInv, TypeOK, NoUser
      <4>2. QED
        BY <3>2, <4>1 DEF UserGrows, User, NoUser, Exists
    <3>3. QED
      BY <1>10, <3>1, <3>2 DEF LogoutAll, ResetPassword
  <2>3. QED
    BY <1>8, <1>10, <2>1, <2>2 DEF LogoutAll, ResetPassword
<1>11. QED
  <2>1. ASSUME NEW r, QuietEndpoint(r) \/ QuietStep(r) \/ QuietTime
        PROVE  Quiet
    BY <2>1, QuietSteps
  <2>2. QED
    BY <1>1, <1>2, <1>3, <1>5, <1>6, <1>7, <1>9, <1>10, <2>1, Zenon
       DEF Next, Endpoint, Step, QuietEndpoint, QuietStep, QuietTime

-----------------------------------------------------------------------------
(* Type correctness.                                                        *)

(* What a request has read goes on holding while others take their steps.   *)
LEMMA OthersHold ==
  ASSUME TypeInv, UserGrows, TokensGrow, NEW r \in Requests, NEW q, Becomes(r, q),
         Holds(req[r])'
  PROVE  RequestsHold'
<1>1. req' = [s \in Requests |-> req'[s]] /\ \A s \in Requests : s # r => req'[s] = req[s]
  BY DEF TypeInv, RequestsHold, Becomes
<1>2. ASSUME NEW s \in Requests, s # r
      PROVE  Holds(req[s])'
  <2>1. Holds(req[s]) /\ req'[s] = req[s]
    BY <1>1, <1>2 DEF TypeInv, RequestsHold
  <2>2. QED
    BY <2>1 DEF Holds, UserGrows, TokensGrow, Exists
<1>3. QED
  BY <1>1, <1>2 DEF RequestsHold

(* A request that ends, or goes on to what needs nothing it has read.       *)
LEMMA FreeToGo ==
  ASSUME TypeInv, UserGrows, TokensGrow, NEW r \in Requests, NEW q, Becomes(r, q),
         q.op \in {"idle", "register", "resend", "issue", "code", "count", "wrong"}
  PROVE  RequestsHold'
<1>1. req'[r] = q
  BY DEF Becomes, TypeInv, RequestsHold
<1>2. Holds(req[r])'
  BY <1>1 DEF Holds
<1>3. QED
  BY <1>2, OthersHold

(* A new request holds what it reads.                                       *)
LEMMA EndpointHolds ==
  ASSUME TypeInv, UserGrows, TokensGrow, NEW r \in Requests, Endpoint(r)
  PROVE  RequestsHold'
<1> USE DEF Ask, Asks
<1>1. ASSUME NEW op \in {"register", "resend"}, Reserve(r, op)
      PROVE  RequestsHold'
  <2>1. PICK q : Becomes(r, q) /\ q.op \in {"idle", "register", "resend"}
    BY <1>1 DEF Reserve, Idle
  <2>2. QED
    BY <2>1, FreeToGo
<1>2. ASSUME NEW g, VerifyStart(r, g)
      PROVE  RequestsHold'
  <2>1. Becomes(r, [op |-> "verify", guess |-> g, open |-> Exists /\ ~user.active])
    BY <1>2 DEF VerifyStart
  <2>2. req'[r].op = "verify" /\ (req'[r].open => Exists)
    BY <2>1, Zenon DEF Becomes, TypeInv, RequestsHold
  <2>3. Holds(req[r])'
    BY <2>2 DEF Holds, UserGrows
  <2>4. QED
    BY <2>1, <2>3, OthersHold
<1>3. ASSUME NEW g, GuessStart(r, g)
      PROVE  RequestsHold'
  <2>1. Becomes(r, [op |-> "count", guess |-> g])
    BY <1>3 DEF GuessStart
  <2>2. QED
    BY <2>1, FreeToGo
<1>4. ASSUME NEW p, LoginStart(r, p)
      PROVE  RequestsHold'
  <2>1. Becomes(r, [op |-> "login", password |-> p, row |-> user])
    BY <1>4 DEF LoginStart
  <2>2. req'[r].op = "login" /\ req'[r].row \in User \cup {NoUser}
    BY <2>1 DEF Becomes, TypeInv, RequestsHold, TypeOK
  <2>3. Holds(req[r])'
    BY <2>2 DEF Holds
  <2>4. QED
    BY <2>1, <2>3, OthersHold
<1>5. ASSUME NEW t \in Tokens, Becomes(r, [op |-> "family", family |-> tokens[t].family])
      PROVE  RequestsHold'
  <2>1. req'[r].op = "family" /\ req'[r].family \in Tokens
    BY <1>5 DEF Becomes, TypeInv, RequestsHold, TokensNumbered
  <2>2. Holds(req[r])'
    BY <2>1 DEF Holds, TokensGrow
  <2>3. QED
    BY <1>5, <2>2, OthersHold
<1>6. ASSUME NEW t \in Tokens, RefreshRead(r, t)
      PROVE  RequestsHold'
  <2>1. CASE Replayed(t)
    BY <1>5, <1>6, <2>1 DEF RefreshRead
  <2>2. CASE ~Replayed(t)
    <3> DEFINE q == [op |-> "rotate", token |-> t, version |-> user.version,
                     open |-> tokens[t].family \notin ghost.ended]
    <3>1. Becomes(r, q) /\ tokens[t].version = user.version
      BY <1>6, <2>2 DEF RefreshRead, SessionOpen
    <3>2. req'[r].op = "rotate" /\ req'[r].token = t /\ req'[r].version = user.version
      BY <3>1 DEF Becomes, TypeInv, RequestsHold
    <3>3. Holds(req[r])'
      BY <3>1, <3>2 DEF Holds, TokensGrow
    <3>4. QED
      BY <3>1, <3>3, OthersHold
  <2>3. QED
    BY <2>1, <2>2
<1>7. ASSUME NEW t \in Tokens, Logout(r, t)
      PROVE  RequestsHold'
  BY <1>5, <1>7 DEF Logout
<1>8. CASE LogoutAll(r) \/ ResetAsk(r) \/ \E v \in grants : ResetPassword(r, v)
  <2>1. PICK q : Becomes(r, q) /\ q.op \in {"idle", "code"}
    BY <1>8 DEF LogoutAll, ResetAsk, ResetPassword, Idle
  <2>2. QED
    BY <2>1, FreeToGo
<1>9. QED
  BY <1>1, <1>2, <1>3, <1>4, <1>6, <1>7, <1>8 DEF Endpoint

(* A request that goes on hands over what its next part needs.              *)
LEMMA StepHolds ==
  ASSUME TypeInv, UserGrows, TokensGrow, NEW r \in Requests, Step(r) \/ Crash(r)
  PROVE  RequestsHold'
<1>0. Holds(req[r]) /\ \A q : Becomes(r, q) => req'[r] = q
  BY DEF TypeInv, RequestsHold, Becomes
<1>1. CASE \/ Register(r) \/ Resend(r) \/ IssueCode(r) \/ NewSession(r) \/ Retire(r)
           \/ RevokeFamily(r) \/ ResetIssue(r) \/ GuessWrong(r) \/ GuessGrant(r) \/ Crash(r)
  <2>1. PICK q : Becomes(r, q) /\ q.op \in {"idle", "issue"}
    BY <1>1 DEF Register, Resend, IssueCode, NewSession, Retire, RevokeFamily, ResetIssue,
       GuessWrong, GuessGrant, Crash, Done, Idle
  <2>2. QED
    BY <2>1, FreeToGo
<1>2. CASE Verify(r)
  <2>1. CASE Done(r)
    BY <2>1, FreeToGo DEF Done, Idle
  <2>2. CASE Becomes(r, [op |-> "clear", bucket |-> "verify"])
    <3>1. Holds(req[r])'
      BY <1>0, <2>2 DEF Holds, Buckets
    <3>2. QED
      BY <2>2, <3>1, OthersHold
  <2>3. QED
    BY <1>2, <2>1, <2>2 DEF Verify
<1>3. CASE ClearBucket(r)
  <2>1. CASE Done(r)
    BY <2>1, FreeToGo DEF Done, Idle
  <2>2. CASE req[r].bucket = "reset" /\ Becomes(r, [op |-> "grant"])
    <3>1. Exists'
      BY <1>0, <1>3, <2>2 DEF ClearBucket, Holds, UserGrows
    <3>2. Holds(req[r])'
      BY <1>0, <2>2, <3>1 DEF Holds
    <3>3. QED
      BY <2>2, <3>2, OthersHold
  <2>3. QED
    BY <1>3, <2>1, <2>2 DEF ClearBucket
<1>4. CASE Login(r)
  <2>1. CASE Done(r)
    BY <2>1, FreeToGo DEF Done, Idle
  <2>2. CASE req[r].row # NoUser /\ Becomes(r, [op |-> "pair", version |-> req[r].row.version])
    <3>1. req[r].row.version \in Nat
      BY <1>0, <1>4, <2>2 DEF Login, Holds, User
    <3>2. Holds(req[r])'
      BY <1>0, <2>2, <3>1 DEF Holds
    <3>3. QED
      BY <2>2, <3>2, OthersHold
  <2>3. QED
    BY <1>4, <2>1, <2>2 DEF Login
<1>5. CASE Rotate(r)
  <2>1. Becomes(r, [op |-> "retire", token |-> req[r].token]) /\ req[r].token \in Tokens
    BY <1>0, <1>5 DEF Rotate, Holds
  <2>2. Holds(req[r])'
    BY <1>0, <2>1 DEF Holds, TokensGrow
  <2>3. QED
    BY <2>1, <2>2, OthersHold
<1>6. CASE GuessCount(r)
  <2>1. Becomes(r, [op |-> "compare", guess |-> req[r].guess, attempt |-> attempts + 1])
    BY <1>6 DEF GuessCount
  <2>2. Holds(req[r])'
    BY <1>0, <2>1 DEF Holds, TypeInv, TypeOK
  <2>3. QED
    BY <2>1, <2>2, OthersHold
<1>7. CASE GuessCompare(r)
  <2>1. CASE rcode # 0 /\ Becomes(r, [op |-> "take"])
    <3>1. Holds(req[r])'
      BY <1>0, <2>1 DEF Holds, TypeInv, CodeHasAccount, UserGrows
    <3>2. QED
      BY <2>1, <3>1, OthersHold
  <2>2. CASE Becomes(r, [op |-> "wrong", last |-> req[r].attempt = MaxAttempts])
    BY <2>2, FreeToGo
  <2>3. QED
    BY <1>7, <2>1, <2>2 DEF GuessCompare
<1>8. CASE GuessTake(r)
  <2>1. CASE Done(r)
    BY <2>1, FreeToGo DEF Done, Idle
  <2>2. CASE rcode # 0 /\ Becomes(r, [op |-> "free"])
    <3>1. Holds(req[r])'
      BY <1>0, <2>2 DEF Holds, TypeInv, CodeHasAccount, UserGrows
    <3>2. QED
      BY <2>2, <3>1, OthersHold
  <2>3. QED
    BY <1>8, <2>1, <2>2 DEF GuessTake
<1>9. CASE GuessFree(r)
  <2>1. Becomes(r, [op |-> "clear", bucket |-> "reset"]) /\ Exists'
    BY <1>0, <1>9 DEF GuessFree, Holds, UserGrows
  <2>2. Holds(req[r])'
    BY <1>0, <2>1 DEF Holds, Buckets
  <2>3. QED
    BY <2>1, <2>2, OthersHold
<1>10. QED
  BY <1>1, <1>2, <1>3, <1>4, <1>5, <1>6, <1>7, <1>8, <1>9 DEF Step

(* The data a step writes: codes, counters, keys and the history.           *)
Data ==
  /\ vcode \in [code : Nat, failed : Nat]
  /\ rcode \in Nat /\ attempts \in Nat /\ flags \subseteq {"lock", "verify", "reset"}
  /\ bucket \in [Buckets -> Nat]
  /\ ghost \in Ghost

(* An endpoint writes data of its type.                                     *)
LEMMA EndpointData ==
  ASSUME TypeInv, TokensNumbered', NEW r \in Requests, Endpoint(r)
  PROVE  Data' /\ UNCHANGED <<rcode, grants>>
<1>0. Data /\ Families \subseteq Nat
  BY DEF TypeInv, TypeOK, Data, Families, Buckets, TokensNumbered, RefreshToken, Tokens
<1> USE DEF rows, redis
<1>1. ASSUME NEW op, Reserve(r, op)
      PROVE  Data' /\ UNCHANGED <<rcode, grants>>
  <2>1. bucket' \in [Buckets -> Nat]
    BY <1>0, <1>1 DEF Data, Buckets, Reserve
  <2>2. ghost' \in Ghost
    <3> DEFINE p == IF Free("verify") THEN ghost.periods + 1 ELSE ghost.periods
    <3>1. /\ ghost' = [ghost EXCEPT !.asked = @ + 1, !.periods = p]
          /\ ghost \in Ghost /\ ghost.asked < MaxAsked
      BY <1>0, <1>1 DEF Reserve, Asks, Data
    <3>2. p \in Nat /\ ghost.asked + 1 \in 0..MaxAsked
      BY <3>1, AccountsAssumption DEF Ghost
    <3> HIDE DEF p
    <3>3. QED
      BY <3>1, <3>2, Zenon DEF Ghost
  <2>3. QED
    BY <1>0, <1>1, <2>1, <2>2 DEF Data, Reserve
<1>2. ASSUME NEW q, Ask(r, q)
      PROVE  ghost' \in Ghost
  BY <1>0, <1>2, AccountsAssumption DEF Data, Ghost, Ask, Asks
<1>3. ASSUME NEW g, VerifyStart(r, g) \/ GuessStart(r, g) \/ LoginStart(r, g)
      PROVE  Data' /\ UNCHANGED <<rcode, grants>>
  <2>1. ghost' \in Ghost /\ UNCHANGED <<vcode, rcode, attempts, flags, bucket, grants>>
    BY <1>2, <1>3 DEF VerifyStart, GuessStart, LoginStart
  <2>2. QED
    BY <1>0, <2>1 DEF Data
<1>4. ASSUME NEW t, RefreshRead(r, t) \/ Logout(r, t)
      PROVE  Data' /\ UNCHANGED <<rcode, grants>>
  <2>1. ghost' \in Ghost /\ UNCHANGED <<vcode, rcode, attempts, flags, bucket, grants>>
    BY <1>2, <1>4 DEF RefreshRead, Logout
  <2>2. QED
    BY <1>0, <2>1 DEF Data
<1>5. CASE ResetAsk(r)
  BY <1>0, <1>2, <1>5 DEF ResetAsk, Data
<1>6. CASE LogoutAll(r) \/ \E v \in grants : ResetPassword(r, v)
  <2>1. ghost' = [Ended(Families) EXCEPT !.asked = @ + 1] /\ ghost.asked < MaxAsked
        /\ UNCHANGED <<vcode, rcode, attempts, flags, bucket, grants>>
    BY <1>6 DEF LogoutAll, ResetPassword, Asks
  <2>2. ghost' \in Ghost
    <3>1. ghost \in Ghost /\ ghost.ended \cup Families \in SUBSET Nat
      BY <1>0 DEF Data, Ghost
    <3>2. ghost' = [ghost EXCEPT !.ended = @ \cup Families, !.asked = @ + 1]
      BY <2>1, <3>1 DEF Ended, Ghost
    <3>3. ghost.asked + 1 \in 0..MaxAsked
      BY <2>1, <3>1, AccountsAssumption DEF Ghost
    <3>4. QED
      BY <3>1, <3>2, <3>3, Zenon DEF Ghost
  <2>3. QED
    BY <1>0, <2>1, <2>2 DEF Data
<1>7. QED
  BY <1>1, <1>3, <1>4, <1>5, <1>6 DEF Endpoint

(* So does a step on a request's way.                                       *)
LEMMA StepData ==
  ASSUME TypeInv, NEW r \in Requests, Step(r) \/ Crash(r)
  PROVE  Data'
<1>0. Data /\ Holds(req[r]) /\ \A t \in Tokens : t \in Nat
  BY DEF TypeInv, TypeOK, Data, Buckets, RequestsHold, TokensNumbered, Tokens
<1> USE DEF rows, redis, Data
<1>1. CASE Register(r)
  <2>1. ghost' \in Ghost
    BY <1>0, <1>1 DEF Register, Ghost
  <2>2. QED
    BY <1>0, <1>1, <2>1 DEF Register
<1>2. CASE IssueCode(r)
  <2>1. ghost' \in Ghost /\ vcode' \in [code : Nat, failed : Nat]
    <3>1. ghost \in Ghost /\ ghost.code + 1 \in Nat /\ ghost.mails + 1 \in Nat /\ 0 \in Nat
      BY <1>0 DEF Ghost
    <3>2. QED
      BY <1>2, <3>1, Zenon DEF IssueCode, Ghost
  <2>2. QED
    BY <1>0, <1>2, <2>1 DEF IssueCode
<1>3. ASSUME NEW b \in Buckets, Count(b) \/ Reset(b)
      PROVE  bucket' \in [Buckets -> Nat]
  BY <1>0, <1>3 DEF Count, Reset
<1>4. CASE Verify(r)
  <2>1. ghost' \in Ghost
    BY <1>0, <1>4 DEF Verify, Ghost
  <2>2. vcode' \in [code : Nat, failed : Nat]
    BY <1>0, <1>4 DEF Verify, AfterWrong, NoCode
  <2>3. bucket' \in [Buckets -> Nat]
    BY <1>0, <1>3, <1>4 DEF Verify, Buckets
  <2>4. QED
    BY <1>0, <1>4, <2>1, <2>2, <2>3 DEF Verify
<1>5. CASE ClearBucket(r)
  BY <1>0, <1>3, <1>5 DEF ClearBucket, Holds
<1>6. CASE Login(r)
  <2>1. bucket' \in [Buckets -> Nat]
    BY <1>3, <1>6 DEF Login, Buckets
  <2>2. QED
    BY <1>0, <1>6, <2>1 DEF Login
<1>7. CASE \/ Resend(r) \/ NewSession(r) \/ Rotate(r) \/ Retire(r) \/ GuessGrant(r) \/ Crash(r)
  <2>1. UNCHANGED <<vcode, rcode, attempts, flags, bucket, ghost>>
    BY <1>7 DEF Resend, NewSession, Rotate, Retire, GuessGrant, Crash
  <2>2. QED
    BY <1>0, <2>1
<1>8. CASE RevokeFamily(r)
  <2>1. req[r].family \in Nat
    BY <1>0, <1>8 DEF RevokeFamily, Holds
  <2>2. ghost' \in Ghost
    BY <1>0, <1>8, <2>1 DEF RevokeFamily, Ended, Ghost
  <2>3. QED
    BY <1>0, <1>8, <2>2 DEF RevokeFamily
<1>9. CASE ResetIssue(r)
  <2>1. ghost' \in Ghost /\ rcode' \in Nat
    <3>1. ghost \in Ghost /\ rcode \in Nat /\ ghost.code + 1 \in Nat /\ 0 \in Nat
      BY <1>0 DEF Ghost
    <3>2. CASE Exists /\ user.active
      BY <1>9, <3>1, <3>2, Zenon DEF ResetIssue, Ghost
    <3>3. CASE ~(Exists /\ user.active)
      BY <1>9, <3>1, <3>3 DEF ResetIssue
    <3>4. QED
      BY <3>2, <3>3
  <2>2. QED
    BY <1>0, <1>9, <2>1 DEF ResetIssue
<1>10. CASE GuessCompare(r)
  <2>1. ghost' \in Ghost
    BY <1>0, <1>10 DEF GuessCompare, Ghost
  <2>2. QED
    BY <1>0, <1>10, <2>1 DEF GuessCompare
<1>11. CASE GuessWrong(r)
  <2>1. bucket' \in [Buckets -> Nat]
    BY <1>3, <1>11 DEF GuessWrong, Buckets
  <2>2. rcode' \in Nat /\ attempts' \in Nat /\ flags' \subseteq {"lock", "verify", "reset"}
    <3>1. CASE req[r].last
      <4>1. rcode' = 0 /\ attempts' = 0 /\ flags' = flags \cup {"lock"}
        BY <1>11, <3>1, Zenon DEF GuessWrong
      <4>2. QED
        BY <1>0, <4>1
    <3>2. CASE ~req[r].last
      BY <1>0, <1>11, <3>2 DEF GuessWrong
    <3>3. QED
      BY <3>1, <3>2
  <2>3. QED
    BY <1>0, <1>11, <2>1, <2>2 DEF GuessWrong
<1>12. CASE GuessCount(r) \/ GuessTake(r) \/ GuessFree(r)
  <2>1. rcode' \in Nat /\ attempts' \in Nat
    BY <1>0, <1>12 DEF GuessCount, GuessTake, GuessFree
  <2>2. UNCHANGED <<vcode, flags, bucket, ghost>>
    BY <1>12 DEF GuessCount, GuessTake, GuessFree
  <2>3. QED
    BY <1>0, <2>1, <2>2
<1>13. QED
  BY <1>1, <1>2, <1>4, <1>5, <1>6, <1>7, <1>8, <1>9, <1>10, <1>11, <1>12 DEF Step

(* And so does time.                                                        *)
LEMMA TimeData ==
  ASSUME TypeInv, QuietTime
  PROVE  Data' /\ UNCHANGED <<req, grants>> /\ (rcode' = rcode \/ rcode' = 0)
<1>0. Data /\ DOMAIN bucket = Buckets
  BY DEF TypeInv, TypeOK, Data, Buckets
<1> USE DEF rows, redis, Data
<1>1. ASSUME NEW b \in Buckets, WindowEnds(b)
      PROVE  Data' /\ UNCHANGED <<req, grants>> /\ (rcode' = rcode \/ rcode' = 0)
  BY <1>0, <1>1 DEF WindowEnds, Reset
<1>2. ASSUME NEW k, FlagLapses(k)
      PROVE  Data' /\ UNCHANGED <<req, grants>> /\ (rcode' = rcode \/ rcode' = 0)
  BY <1>0, <1>2 DEF FlagLapses
<1>3. CASE VerificationExpires \/ ResetExpires
  <2>1. /\ UNCHANGED <<bucket, flags, ghost, req, grants>>
        /\ rcode' \in {rcode, 0} /\ attempts' \in {attempts, 0} /\ vcode' \in {vcode, NoCode}
    BY <1>3 DEF VerificationExpires, ResetExpires
  <2>2. QED
    BY <1>0, <2>1 DEF NoCode
<1>4. QED
  BY <1>0, <1>1, <1>2, <1>3 DEF QuietTime

(* Reset tokens and live reset codes are of accounts that exist.            *)
LEMMA GrantsAndCodes ==
  ASSUME TypeInv, [Next]_vars, UserGrows
  PROVE  grants' \subseteq 0..user'.version /\ CodeHasAccount'
<1>0. /\ grants \subseteq 0..user.version /\ user.version \in Int /\ user'.version \in Int
      /\ user.version <= user'.version /\ CodeHasAccount
  BY DEF TypeInv, TypeOK, UserGrows, User, NoUser
<1>1. ASSUME UNCHANGED grants
      PROVE  grants' \subseteq 0..user'.version
  BY <1>0, <1>1
<1>2. ASSUME rcode' = rcode \/ rcode' = 0
      PROVE  CodeHasAccount'
  BY <1>0, <1>2 DEF CodeHasAccount, UserGrows
<1> USE DEF rows, redis
<1>3. CASE UNCHANGED vars
  BY <1>1, <1>2, <1>3 DEF vars
<1>4. ASSUME NEW r \in Requests, Endpoint(r)
      PROVE  UNCHANGED <<rcode, grants>>
  BY <1>4 DEF Endpoint, Reserve, VerifyStart, GuessStart, LoginStart, RefreshRead, Logout,
     ResetAsk, LogoutAll, ResetPassword
<1>5. ASSUME NEW r \in Requests,
             \/ Register(r) \/ Resend(r) \/ IssueCode(r) \/ Verify(r) \/ ClearBucket(r)
             \/ Login(r) \/ NewSession(r) \/ Rotate(r) \/ Retire(r) \/ RevokeFamily(r)
             \/ GuessCount(r) \/ GuessCompare(r) \/ GuessWrong(r)
             \/ GuessTake(r) \/ GuessFree(r) \/ Crash(r)
      PROVE  UNCHANGED grants /\ (rcode' = rcode \/ rcode' = 0)
  BY <1>5 DEF Register, Resend, IssueCode, Verify, ClearBucket, Login, NewSession, Rotate,
     Retire, RevokeFamily, GuessCount, GuessCompare, GuessWrong, GuessTake, GuessFree, Crash
<1>6. ASSUME NEW r \in Requests, ResetIssue(r)
      PROVE  UNCHANGED grants /\ CodeHasAccount'
  BY <1>0, <1>2, <1>6 DEF ResetIssue, CodeHasAccount, Exists
<1>7. ASSUME NEW r \in Requests, GuessGrant(r)
      PROVE  UNCHANGED rcode /\ grants' \subseteq 0..user'.version
  <2>1. user.version \in Nat
    BY <1>7 DEF GuessGrant, TypeInv, TypeOK, RequestsHold, Holds, Exists, User
  <2>2. user' = user /\ rcode' = rcode /\ grants' = grants \cup {user.version}
    BY <1>7 DEF GuessGrant
  <2>3. user'.version = user.version /\ user.version \in 0..user.version
    BY <2>1, <2>2
  <2>4. QED
    BY <1>0, <2>2, <2>3
<1>8. QED
  BY <1>1, <1>2, <1>3, <1>4, <1>5, <1>6, <1>7, TimeData DEF Next, Step, QuietTime

(* Every step keeps every type.                                             *)
LEMMA NextTypeInv ==
  ASSUME TypeInv, [Next]_vars
  PROVE  TypeInv'
<1>1. UserGrows /\ TokensGrow /\ TokensNumbered'
  BY AccountGoesOn
<1>2. grants' \subseteq 0..user'.version /\ CodeHasAccount'
  BY <1>1, GrantsAndCodes
<1>3. RequestsHold' /\ Data'
  <2>1. ASSUME UNCHANGED req
        PROVE  RequestsHold'
    BY <1>1, <2>1 DEF TypeInv, RequestsHold, Holds, UserGrows, TokensGrow
  <2>2. CASE UNCHANGED vars
    BY <2>1, <2>2 DEF vars, TypeInv, TypeOK, Data, Buckets
  <2>3. CASE \E r \in Requests : Endpoint(r)
    BY <1>1, <2>3, EndpointHolds, EndpointData
  <2>4. CASE \E r \in Requests : Step(r) \/ Crash(r)
    BY <1>1, <2>4, StepHolds, StepData
  <2>5. CASE QuietTime
    BY <2>1, <2>5, TimeData
  <2>6. QED
    BY <2>2, <2>3, <2>4, <2>5 DEF Next, QuietTime
<1>4. TypeOK'
  <2>1. \A t \in Tokens' : tokens'[t] \in RefreshToken
    BY <1>1 DEF TokensNumbered, Tokens
  <2>2. QED
    BY <1>1, <1>2, <1>3, <2>1 DEF TypeOK, Data, Buckets, UserGrows
<1>5. QED
  BY <1>1, <1>2, <1>3, <1>4 DEF TypeInv

(* A new or verified account has every type.                                *)
LEMMA InitTypeInv == Init => TypeInv
<1> SUFFICES ASSUME Init PROVE TypeInv
  OBVIOUS
<1>1. tokens = <<>> /\ Tokens = {} /\ Cardinality(Tokens) = 0
  BY FS_EmptySet DEF Init, Tokens
<1>2. TokensNumbered
  BY <1>1 DEF TokensNumbered, Init
<1>3. RequestsHold
  BY DEF RequestsHold, Holds, Init, Idle
<1>4. user \in User \cup {NoUser} /\ grants \subseteq 0..user.version
  <2>1. user = NoUser \/ user = [active |-> TRUE, version |-> 0]
    BY DEF Init
  <2>2. [active |-> TRUE, version |-> 0] \in User
    BY DEF User
  <2>3. QED
    BY <2>1, <2>2, Zenon DEF Init
<1>5. ghost \in Ghost
  BY AccountsAssumption DEF Init, Ghost
<1>6. bucket \in [{"login", "verify", "reset", "send"} -> Nat]
  BY DEF Init
<1>7. vcode \in [code : Nat, failed : Nat] /\ CodeHasAccount
  BY DEF Init, NoCode, CodeHasAccount
<1>8. QED
  BY <1>1, <1>2, <1>3, <1>4, <1>5, <1>6, <1>7 DEF TypeInv, TypeOK, Init

(* Type correctness: rows, keys and counters stay well formed, and no reset *)
(* token is of a version to come.                                           *)
THEOREM TypeCorrect == Spec => []TypeOK
<1>1. TypeInv /\ [Next]_vars => TypeInv'
  BY NextTypeInv
<1>2. TypeInv => TypeOK
  BY DEF TypeInv
<1>3. QED
  BY <1>1, <1>2, InitTypeInv, PTL DEF Spec

-----------------------------------------------------------------------------
(* Sessions.                                                                *)

(* What a token goes on from: a login whose password it proves, or a token  *)
(* that a refresh has read.                                                 *)
GoesOnFrom(token) ==
  \/ token.family \notin Tokens /\ token.proved = token.version
  \/ \E r \in Requests :
       LET old == tokens[req[r].token] IN
       /\ req[r].op = "rotate"
       /\ token.family = old.family /\ token.version = old.version
       /\ token.proved = old.proved
       /\ old.late \/ (req[r].open /\ old.family \in ghost.ended) => token.late

OneMore ==
  /\ ghost'.ended = ghost.ended
  /\ \E t : /\ t \notin Tokens /\ Tokens' = Tokens \cup {t}
            /\ GoesOnFrom(tokens'[t]) /\ \A u \in Tokens : tokens'[u] = tokens[u]

NoneMore ==
  /\ Tokens' = Tokens
  /\ \A t \in Tokens : tokens[t].family \in ghost'.ended \ ghost.ended => tokens'[t].revoked
  /\ ghost.ended \subseteq ghost'.ended

(* A step issues one token, or none, and then ends no session whose tokens  *)
(* it does not revoke.                                                      *)
LEMMA TokenSteps ==
  ASSUME TypeInv, [Next]_vars
  PROVE  OneMore \/ NoneMore
<1>0. /\ ghost \in Ghost /\ Cardinality(Tokens) \in Nat
      /\ \A t \in Tokens : tokens[t] \in RefreshToken
      /\ Tokens = 1..Cardinality(Tokens)
  BY DEF TypeInv, TypeOK, TokensNumbered, Tokens
<1>1. CASE Quiet \/ UNCHANGED vars
  BY <1>1 DEF Quiet, vars, NoneMore, Tokens
<1>2. ASSUME NEW r \in Requests, Register(r) \/ Verify(r)
      PROVE  NoneMore
  BY <1>0, <1>2 DEF Register, Verify, NoneMore, Tokens, Ghost
<1>3. ASSUME NEW r \in Requests, NewSession(r)
      PROVE  OneMore
  <2> DEFINE n == Cardinality(Tokens)
             new == [family |-> n + 1, revoked |-> FALSE, version |-> req[r].version,
                     proved |-> req[r].version, late |-> FALSE]
  <2>1. req[r].version \in Nat
    BY <1>3 DEF NewSession, TypeInv, RequestsHold, Holds
  <2>2. new \in RefreshToken /\ Issue(new) /\ ghost' = ghost
    BY <1>0, <1>3, <2>1 DEF RefreshToken, NewSession
  <2>3. new.family = n + 1 /\ new.proved = new.version
    OBVIOUS
  <2> HIDE DEF new
  <2>4. n + 1 \notin Tokens /\ Tokens' = Tokens \cup {n + 1} /\ tokens'[n + 1] = new
        /\ \A u \in Tokens : tokens'[u] = tokens[u]
    BY <2>2, IssueAdds
  <2>5. QED
    BY <2>2, <2>3, <2>4 DEF OneMore, GoesOnFrom
<1>4. ASSUME NEW r \in Requests, Rotate(r)
      PROVE  OneMore
  <2> DEFINE n == Cardinality(Tokens)
             old == tokens[req[r].token]
             late == old.late \/ (req[r].open /\ old.family \in ghost.ended)
             new == [old EXCEPT !.revoked = FALSE, !.version = req[r].version, !.late = late]
  <2>1. req[r].token \in Tokens /\ req[r].version = old.version
    BY <1>4 DEF Rotate, TypeInv, RequestsHold, Holds
  <2>2. old \in RefreshToken
    BY <1>0, <2>1
  <2>3. /\ new \in RefreshToken /\ new.family = old.family /\ new.version = old.version
        /\ new.proved = old.proved /\ new.late = late
    <3>1. late \in BOOLEAN
      BY Zenon
    <3> HIDE DEF late, old
    <3>2. QED
      BY <2>1, <2>2, <3>1 DEF RefreshToken
  <2>4. Issue(new) /\ ghost' = ghost /\ req[r].op = "rotate"
    BY <1>4 DEF Rotate
  <2> HIDE DEF new
  <2>5. n + 1 \notin Tokens /\ Tokens' = Tokens \cup {n + 1} /\ tokens'[n + 1] = new
        /\ \A u \in Tokens : tokens'[u] = tokens[u]
    BY <2>3, <2>4, IssueAdds
  <2>6. GoesOnFrom(new)
    BY <2>3, <2>4, Zenon DEF GoesOnFrom
  <2>7. QED
    BY <2>4, <2>5, <2>6 DEF OneMore
<1>5. ASSUME NEW r \in Requests, Retire(r)
      PROVE  NoneMore
  BY <1>5 DEF Retire, NoneMore, Tokens
<1>6. ASSUME NEW families, tokens' = Revoked(families), ghost'.ended = ghost.ended \cup families
      PROVE  NoneMore
  BY <1>6, RevokingGrows DEF NoneMore
<1>7. ASSUME NEW r \in Requests, RevokeFamily(r)
      PROVE  NoneMore
  BY <1>0, <1>6, <1>7 DEF RevokeFamily, Ended, Ghost
<1>8. ASSUME NEW r \in Requests, LogoutAll(r) \/ \E v \in grants : ResetPassword(r, v)
      PROVE  NoneMore
  BY <1>0, <1>6, <1>8 DEF LogoutAll, ResetPassword, Ended, Ghost
<1>9. QED
  <2>1. ASSUME NEW r, QuietEndpoint(r) \/ QuietStep(r) \/ QuietTime
        PROVE  Quiet
    BY <2>1, QuietSteps
  <2>2. QED
    BY <1>1, <1>2, <1>3, <1>4, <1>5, <1>7, <1>8, <2>1, Zenon
       DEF Next, Endpoint, Step, QuietEndpoint, QuietStep, QuietTime

(* A request that becomes a refresh has just found its token unused.        *)
LEMMA NewRefreshes ==
  ASSUME TypeInv, [Next]_vars, NEW r \in Requests, req'[r].op = "rotate", req'[r] # req[r]
  PROVE  \E t \in Tokens : /\ req'[r].token = t /\ ~tokens[t].revoked
                           /\ ~req'[r].open => tokens[t].family \in ghost.ended
<1>0. \A s \in Requests : \A q : Becomes(s, q) => (req'[r] = q \/ req'[r] = req[r])
  BY DEF TypeInv, RequestsHold, Becomes
<1>1. ASSUME NEW s \in Requests, NEW q, Becomes(s, q), q.op # "rotate"
      PROVE  FALSE
  BY <1>0, <1>1
<1> USE DEF Ask, Asks
<1>2. ASSUME NEW s \in Requests, NEW op \in {"register", "resend"}, Reserve(s, op)
      PROVE  FALSE
  <2>1. PICK q : Becomes(s, q) /\ q.op # "rotate"
    BY <1>2 DEF Reserve, Idle
  <2>2. QED
    BY <1>1, <2>1
<1>3. ASSUME NEW s \in Requests, NEW g, VerifyStart(s, g) \/ GuessStart(s, g) \/ LoginStart(s, g)
      PROVE  FALSE
  <2>1. PICK q : Becomes(s, q) /\ q.op # "rotate"
    BY <1>3 DEF VerifyStart, GuessStart, LoginStart
  <2>2. QED
    BY <1>1, <2>1
<1>4. ASSUME NEW s \in Requests, NEW t \in Tokens, Logout(s, t)
      PROVE  FALSE
  BY <1>1, <1>4 DEF Logout
<1>5. ASSUME NEW s \in Requests, NEW t \in Tokens, RefreshRead(s, t)
      PROVE  /\ req'[r].token = t /\ ~tokens[t].revoked
             /\ ~req'[r].open => tokens[t].family \in ghost.ended
  <2> DEFINE q == [op |-> "rotate", token |-> t, version |-> user.version,
                   open |-> tokens[t].family \notin ghost.ended]
  <2>1. ~tokens[t].revoked /\ Becomes(s, q)
    BY <1>1, <1>5 DEF RefreshRead, Replayed
  <2>2. req'[r] = q
    BY <1>0, <2>1
  <2>3. req'[r].token = t
    BY <2>2
  <2>4. req'[r].open = (tokens[t].family \notin ghost.ended)
    BY <2>2
  <2>5. QED
    BY <2>1, <2>3, <2>4, Zenon
<1>6. ASSUME NEW s \in Requests, \/ LogoutAll(s) \/ ResetAsk(s)
                                 \/ \E v \in grants : ResetPassword(s, v)
      PROVE  FALSE
  <2>1. PICK q : Becomes(s, q) /\ q.op # "rotate"
    BY <1>6 DEF LogoutAll, ResetAsk, ResetPassword, Idle
  <2>2. QED
    BY <1>1, <2>1
<1>7. ASSUME NEW s \in Requests, Step(s) \/ Crash(s)
      PROVE  FALSE
  <2>1. PICK q : Becomes(s, q) /\ q.op # "rotate"
    BY <1>7 DEF Step, Crash, Done, Idle, Register, Resend, IssueCode, Verify, ClearBucket,
       Login, NewSession, Rotate, Retire, RevokeFamily, ResetIssue, GuessCount, GuessCompare,
       GuessWrong, GuessTake, GuessFree, GuessGrant
  <2>2. QED
    BY <1>1, <2>1
<1>8. CASE QuietTime \/ UNCHANGED vars
  BY <1>8, TimeData DEF vars
<1>9. QED
  BY <1>2, <1>3, <1>4, <1>5, <1>6, <1>7, <1>8, Zenon DEF Next, Endpoint, QuietTime

(* Every step keeps sessions to the password they began with, and ended     *)
(* ones ended.                                                              *)
LEMMA NextSessionInv ==
  ASSUME SessionInv, [Next]_vars
  PROVE  SessionInv'
<1>0. TypeInv /\ TypeInv' /\ TokensGrow
  BY NextTypeInv, AccountGoesOn DEF SessionInv
<1>1. /\ ghost.ended \subseteq Tokens
      /\ \A r \in Requests : req[r].op = "rotate" => req[r].token \in Tokens
  BY <1>0 DEF TypeInv, TokensNumbered, RequestsHold, Holds
<1>2. LateRefreshes'
  <2> SUFFICES ASSUME NEW r \in Requests, req'[r].op = "rotate", ~req'[r].open
               PROVE  tokens'[req'[r].token].late
    BY DEF LateRefreshes
  <2>1. CASE req'[r] = req[r]
    <3>1. req[r].op = "rotate" /\ ~req[r].open /\ req[r].token \in Tokens
      BY <1>1, <2>1
    <3>2. QED
      BY <1>0, <2>1, <3>1 DEF SessionInv, LateRefreshes, TokensGrow
  <2>2. CASE req'[r] # req[r]
    <3>1. PICK t \in Tokens : /\ req'[r].token = t /\ ~tokens[t].revoked
                             /\ tokens[t].family \in ghost.ended
      BY <1>0, <2>2, NewRefreshes
    <3>2. tokens[t].late
      BY <3>1 DEF SessionInv, EndedSessionsStayEnded
    <3>3. QED
      BY <1>0, <3>1, <3>2 DEF TokensGrow
  <2>3. QED
    BY <2>1, <2>2
<1>3. CASE OneMore
  <2>1. PICK t : /\ t \notin Tokens /\ Tokens' = Tokens \cup {t}
                 /\ GoesOnFrom(tokens'[t]) /\ \A u \in Tokens : tokens'[u] = tokens[u]
    BY <1>3 DEF OneMore
  <2>2. tokens'[t].proved = tokens'[t].version
    BY <1>1, <2>1 DEF GoesOnFrom, SessionInv, TokensProved
  <2>3. tokens'[t].family \in ghost.ended => tokens'[t].late
    BY <1>1, <2>1 DEF GoesOnFrom, SessionInv, LateRefreshes
  <2>4. TokensProved'
    BY <2>1, <2>2 DEF SessionInv, TokensProved
  <2>5. EndedSessionsStayEnded'
    BY <1>3, <2>1, <2>3 DEF SessionInv, EndedSessionsStayEnded, OneMore
  <2>6. QED
    BY <1>0, <1>2, <2>4, <2>5 DEF SessionInv
<1>4. CASE NoneMore
  <2>1. TokensProved'
    BY <1>0, <1>4 DEF SessionInv, TokensProved, TokensGrow, NoneMore
  <2>2. EndedSessionsStayEnded'
    BY <1>0, <1>4 DEF SessionInv, EndedSessionsStayEnded, TokensGrow, NoneMore
  <2>3. QED
    BY <1>0, <1>2, <2>1, <2>2 DEF SessionInv
<1>5. QED
  BY <1>0, <1>3, <1>4, TokenSteps

(* Sessions are kept so in every state.                                     *)
LEMMA SessionInvariance == Spec => []SessionInv
<1>1. Init => SessionInv
  <2> SUFFICES ASSUME Init PROVE SessionInv
    OBVIOUS
  <2>1. Tokens = {} /\ \A r \in Requests : req[r].op = "idle"
    BY DEF Init, Tokens, Idle
  <2>2. QED
    BY <2>1, InitTypeInv DEF SessionInv, TokensProved, EndedSessionsStayEnded, LateRefreshes
<1>2. SessionInv /\ [Next]_vars => SessionInv'
  BY NextSessionInv
<1>3. QED
  BY <1>1, <1>2, PTL DEF Spec

(* A password reset ends the sessions before it, also when a login or a     *)
(* refresh read the account before the reset and issues after it.           *)
THEOREM ResetVoidsSessions == Spec => []OldPasswordEndsSessions
<1>1. SessionInv => OldPasswordEndsSessions
  BY DEF SessionInv, TokensProved, OldPasswordEndsSessions
<1>2. QED
  BY <1>1, SessionInvariance, PTL

(* A session that a logout, a replay or a logout of all has ended goes on   *)
(* only through a refresh that had read its token before.                   *)
THEOREM SessionsStayEnded == Spec => []EndedSessionsStayEnded
<1>1. SessionInv => EndedSessionsStayEnded
  BY DEF SessionInv
<1>2. QED
  BY <1>1, SessionInvariance, PTL

-----------------------------------------------------------------------------
(* Limits.  Each argument counts the requests that have yet to do something *)
(* as if they had done it already.                                          *)

(* One request joins or leaves a set of requests.                           *)
LEMMA OneMoves ==
  ASSUME NEW S \in SUBSET Requests, NEW T \in SUBSET Requests, NEW r \in Requests,
         \A s \in Requests \ {r} : s \in T => s \in S
  PROVE  /\ Cardinality(S) \in Nat /\ Cardinality(T) \in Nat /\ Cardinality(Requests) \in Nat
         /\ Cardinality(T) <= Cardinality(Requests)
         /\ Cardinality(T) <= Cardinality(S) + 1
         /\ (r \in T => r \in S) => Cardinality(T) <= Cardinality(S)
         /\ r \in S \ T => Cardinality(T) + 1 <= Cardinality(S)
<1>1. IsFiniteSet(Requests) /\ IsFiniteSet(S) /\ IsFiniteSet(T)
  BY AccountsAssumption, FS_Subset
<1>2. /\ Cardinality(S) \in Nat /\ Cardinality(T) \in Nat /\ Cardinality(Requests) \in Nat
      /\ Cardinality(T) <= Cardinality(Requests)
  BY <1>1, FS_CardinalityType, FS_Subset
<1>3. (r \in T => r \in S) => Cardinality(T) <= Cardinality(S)
  <2> SUFFICES ASSUME r \in T => r \in S PROVE Cardinality(T) <= Cardinality(S)
    OBVIOUS
  <2>1. T \subseteq S
    OBVIOUS
  <2>2. QED
    BY <1>1, <2>1, FS_Subset
<1>4. r \in S \ T => Cardinality(T) + 1 <= Cardinality(S)
  <2> SUFFICES ASSUME r \in S \ T PROVE Cardinality(T) + 1 <= Cardinality(S)
    OBVIOUS
  <2>1. T \subseteq S \ {r} /\ IsFiniteSet(S \ {r}) /\ Cardinality(S \ {r}) = Cardinality(S) - 1
    BY <1>1, FS_RemoveElement
  <2>2. Cardinality(T) <= Cardinality(S \ {r})
    BY <2>1, FS_Subset
  <2>3. QED
    BY <1>2, <2>1, <2>2
<1>5. Cardinality(T) <= Cardinality(S) + 1
  <2>1. T \subseteq S \cup {r}
    OBVIOUS
  <2>2. IsFiniteSet(S \cup {r}) /\ Cardinality(S \cup {r}) <= Cardinality(S) + 1
    <3>1. CASE r \in S
      <4>1. S \cup {r} = S
        BY <3>1
      <4>2. IsFiniteSet(S \cup {r}) /\ Cardinality(S \cup {r}) = Cardinality(S)
        BY <1>1, <4>1, Zenon
      <4>3. QED
        BY <1>2, <4>2
    <3>2. CASE r \notin S
      <4>1. IsFiniteSet(S \cup {r}) /\ Cardinality(S \cup {r}) = Cardinality(S) + 1
        BY <1>1, <3>2, FS_AddElement, Zenon
      <4>2. QED
        BY <1>2, <4>1
    <3>3. QED
      BY <3>1, <3>2
  <2>3. Cardinality(T) <= Cardinality(S \cup {r}) /\ Cardinality(S \cup {r}) \in Nat
    BY <2>1, <2>2, FS_Subset, FS_CardinalityType
  <2>4. QED
    BY <1>2, <2>2, <2>3
<1>6. QED
  BY <1>2, <1>3, <1>4, <1>5

(* A step is one request's, and no other changes; or time's, and none does. *)
LEMMA OneRequestMoves ==
  ASSUME TypeInv, NEW r \in Requests, Endpoint(r) \/ Step(r) \/ Crash(r)
  PROVE  \A s \in Requests \ {r} : req'[s] = req[s]
<1>1. \E q : Becomes(r, q)
  <2>1. CASE Endpoint(r)
    BY <2>1 DEF Endpoint, Reserve, VerifyStart, GuessStart, LoginStart, RefreshRead, Logout,
       LogoutAll, ResetAsk, ResetPassword, Ask, Asks
  <2>2. CASE Step(r) \/ Crash(r)
    BY <2>2 DEF Step, Crash, Done, Register, Resend, IssueCode, Verify, ClearBucket,
       Login, NewSession, Rotate, Retire, RevokeFamily, ResetIssue, GuessCount, GuessCompare,
       GuessWrong, GuessTake, GuessFree, GuessGrant
  <2>3. QED
    BY <2>1, <2>2
<1>2. QED
  BY <1>1 DEF Becomes, TypeInv, RequestsHold

(* A verification code dies with the wrong guess that reaches its limit.    *)
LEMMA NextAttemptsCounted ==
  ASSUME TypeInv, AttemptsCounted, [Next]_vars
  PROVE  AttemptsCounted'
<1>0. /\ ghost \in Ghost /\ vcode \in [code : Nat, failed : Nat]
      /\ MaxAttempts \in Nat /\ MaxAttempts > 0
  BY AccountsAssumption DEF TypeInv, TypeOK
<1>1. ASSUME vcode' = vcode \/ vcode' = NoCode, ghost'.vtried = ghost.vtried
      PROVE  AttemptsCounted'
  BY <1>1 DEF AttemptsCounted
<1> USE DEF rows, redis
<1>2. ASSUME NEW r \in Requests, Endpoint(r)
      PROVE  AttemptsCounted'
  <2>1. vcode' = vcode /\ ghost'.vtried = ghost.vtried
    BY <1>0, <1>2 DEF Endpoint, Reserve, VerifyStart, GuessStart, LoginStart, RefreshRead, Logout,
       LogoutAll, ResetAsk, ResetPassword, Ask, Asks, Ended, Ghost
  <2>2. QED
    BY <1>1, <2>1
<1>3. ASSUME NEW r \in Requests, IssueCode(r)
      PROVE  AttemptsCounted'
  BY <1>0, <1>3 DEF IssueCode, AttemptsCounted, Ghost
<1>4. ASSUME NEW r \in Requests, Verify(r)
      PROVE  AttemptsCounted'
  <2>1. CASE (vcode' = vcode \/ vcode' = NoCode) /\ ghost'.vtried = ghost.vtried
    BY <1>0, <1>1, <1>4, <2>1 DEF Verify, Ghost, AttemptsCounted
  <2>2. CASE vcode # NoCode /\ vcode' = AfterWrong(vcode) /\ ghost'.vtried = ghost.vtried + 1
    <3>1. ghost.vtried = vcode.failed /\ vcode.failed < MaxAttempts /\ vcode.failed \in Nat
      BY <1>0, <2>2 DEF AttemptsCounted
    <3>2. CASE vcode.failed + 1 >= MaxAttempts
      BY <1>0, <2>2, <3>1, <3>2 DEF AfterWrong, AttemptsCounted
    <3>3. CASE vcode.failed + 1 < MaxAttempts
      BY <1>0, <2>2, <3>1, <3>3 DEF AfterWrong, AttemptsCounted
    <3>4. QED
      BY <1>0, <3>1, <3>2, <3>3
  <2>3. QED
    BY <1>0, <1>4, <2>1, <2>2 DEF Verify, Ghost
<1>5. ASSUME NEW r \in Requests,
             \/ Register(r) \/ Resend(r) \/ ClearBucket(r)
             \/ Login(r) \/ NewSession(r) \/ Rotate(r) \/ Retire(r) \/ RevokeFamily(r)
             \/ ResetIssue(r) \/ GuessCount(r) \/ GuessCompare(r) \/ GuessWrong(r)
             \/ GuessTake(r) \/ GuessFree(r) \/ GuessGrant(r) \/ Crash(r)
      PROVE  AttemptsCounted'
  <2>1. vcode' = vcode /\ ghost'.vtried = ghost.vtried
    BY <1>0, <1>5 DEF Register, Resend, ClearBucket, Login, NewSession, Rotate, Retire,
       RevokeFamily, ResetIssue, GuessCount, GuessCompare, GuessWrong, GuessTake, GuessFree,
       GuessGrant, Crash, Ended, Ghost
  <2>2. QED
    BY <1>1, <2>1
<1>6. CASE QuietTime \/ UNCHANGED vars
  <2>1. (vcode' = vcode \/ vcode' = NoCode) /\ ghost' = ghost
    BY <1>6 DEF QuietTime, WindowEnds, FlagLapses, VerificationExpires, ResetExpires, vars
  <2>2. QED
    BY <1>1, <2>1
<1>7. QED
  BY <1>2, <1>3, <1>4, <1>5, <1>6, Zenon DEF Next, Step, QuietTime

(* A mail is sent, or reserved, only by the request that began a cooldown.  *)
LEMMA NextMailsReserved ==
  ASSUME TypeInv, MailsReserved, [Next]_vars
  PROVE  MailsReserved'
<1> DEFINE n == Cardinality(Sending)
           m == Cardinality(Sending')
<1>0. ghost \in Ghost /\ ghost.mails \in Nat /\ ghost.periods \in Nat
      /\ (n \in Nat => ghost.mails + n <= ghost.periods)
  BY DEF TypeInv, TypeOK, MailsReserved, Ghost
<1>1. ASSUME UNCHANGED <<req, ghost>>
      PROVE  MailsReserved'
  <2>1. Sending' = Sending
    BY <1>1 DEF Sending
  <2>2. QED
    BY <1>1, <2>1 DEF MailsReserved
<1>2. ASSUME NEW r \in Requests, Endpoint(r) \/ Step(r) \/ Crash(r)
      PROVE  /\ n \in Nat /\ m \in Nat /\ m <= n + 1
             /\ (r \in Sending' => r \in Sending) => m <= n
             /\ r \in Sending \ Sending' => m + 1 <= n
  <2>1. \A s \in Requests \ {r} : s \in Sending' => s \in Sending
    BY <1>2, OneRequestMoves DEF Sending
  <2>2. Sending \in SUBSET Requests /\ Sending' \in SUBSET Requests
    BY DEF Sending
  <2>3. QED
    BY <2>1, <2>2, OneMoves
<1> HIDE DEF n, m
<1>3. ASSUME NEW r \in Requests, Endpoint(r) \/ Step(r) \/ Crash(r),
             \/ /\ ghost'.mails = ghost.mails /\ ghost'.periods = ghost.periods
                /\ r \in Sending' => r \in Sending
             \/ /\ ghost'.mails = ghost.mails /\ ghost'.periods = ghost.periods + 1
             \/ /\ ghost'.mails = ghost.mails + 1 /\ ghost'.periods = ghost.periods
                /\ r \in Sending \ Sending'
      PROVE  MailsReserved'
  <2>1. ghost'.mails + m <= ghost'.periods
    BY <1>0, <1>2, <1>3
  <2>2. QED
    BY <2>1 DEF MailsReserved, m
<1>4. \A r \in Requests : \A q : Becomes(r, q) => req'[r] = q
  BY DEF TypeInv, RequestsHold, Becomes
<1> USE DEF rows, redis
<1>5. ASSUME NEW r \in Requests, NEW op \in {"register", "resend"}, Reserve(r, op)
      PROVE  MailsReserved'
  <2>1. CASE Free("verify")
    BY <1>0, <1>3, <1>5, <2>1 DEF Reserve, Ghost, Endpoint
  <2>2. CASE ~Free("verify")
    <3>1. ~MaySend /\ ghost'.mails = ghost.mails /\ ghost'.periods = ghost.periods
      BY <1>0, <1>5, <2>2 DEF Reserve, MaySend, Ghost
    <3>2. req'[r] = IF op = "resend" THEN Idle ELSE [op |-> op, send |-> FALSE]
      <4>1. MaySend = FALSE
        BY <2>2, Zenon DEF MaySend
      <4>2. Becomes(r, IF op = "resend" THEN Idle ELSE [op |-> op, send |-> FALSE])
        BY <1>5, <4>1 DEF Reserve, Asks
      <4>3. QED
        BY <1>4, <4>2
    <3>3. r \notin Sending'
      BY <1>5, <3>2 DEF Sending, Idle
    <3>4. QED
      BY <1>3, <1>5, <3>1, <3>3 DEF Endpoint
  <2>3. QED
    BY <2>1, <2>2
<1>6. ASSUME NEW r \in Requests, QuietEndpoint(r) \/ LogoutAll(r) \/ \E v \in grants : ResetPassword(r, v),
             \A op \in {"register", "resend"} : ~Reserve(r, op)
      PROVE  MailsReserved'
  <2>1. PICK q : Becomes(r, q) /\ q.op \notin {"register", "resend", "issue"}
    <3>1. ASSUME NEW g, VerifyStart(r, g) \/ GuessStart(r, g) \/ LoginStart(r, g)
          PROVE  \E q : Becomes(r, q) /\ q.op \notin {"register", "resend", "issue"}
      BY <3>1 DEF VerifyStart, GuessStart, LoginStart, Ask, Asks
    <3>2. ASSUME NEW t, RefreshRead(r, t) \/ Logout(r, t)
          PROVE  \E q : Becomes(r, q) /\ q.op \notin {"register", "resend", "issue"}
      BY <3>2 DEF RefreshRead, Logout, Ask, Asks
    <3>3. ASSUME LogoutAll(r) \/ ResetAsk(r) \/ \E v \in grants : ResetPassword(r, v)
          PROVE  \E q : Becomes(r, q) /\ q.op \notin {"register", "resend", "issue"}
      BY <3>3 DEF LogoutAll, ResetAsk, ResetPassword, Ask, Asks, Idle
    <3>4. QED
      BY <1>6, <3>1, <3>2, <3>3 DEF QuietEndpoint
  <2>2. r \notin Sending'
    BY <1>4, <2>1 DEF Sending
  <2>3. ghost'.mails = ghost.mails /\ ghost'.periods = ghost.periods
    BY <1>0, <1>6 DEF QuietEndpoint, VerifyStart, GuessStart, LoginStart, RefreshRead, Logout,
       LogoutAll, ResetAsk, ResetPassword, Ask, Ended, Ghost
  <2>4. Endpoint(r)
    BY <1>6 DEF QuietEndpoint, Endpoint
  <2>5. QED
    BY <1>3, <2>2, <2>3, <2>4
<1>7. ASSUME NEW r \in Requests, Register(r)
      PROVE  MailsReserved'
  <2>1. CASE Exists
    <3>1. r \notin Sending'
      BY <1>4, <1>7, <2>1 DEF Register, Done, Idle, Sending
    <3>2. CASE req[r].send
      <4>1. r \in Sending
        BY <1>7, <3>2 DEF Register, Sending
      <4>2. ghost'.mails = ghost.mails + 1 /\ ghost'.periods = ghost.periods
        BY <1>0, <1>7, <2>1, <3>2 DEF Register, Ghost
      <4>3. QED
        BY <1>3, <1>7, <3>1, <4>1, <4>2 DEF Step
    <3>3. CASE ~req[r].send
      <4>1. ghost'.mails = ghost.mails /\ ghost'.periods = ghost.periods
        BY <1>0, <1>7, <2>1, <3>3 DEF Register, Ghost
      <4>2. QED
        BY <1>3, <1>7, <3>1, <4>1 DEF Step
    <3>4. QED
      BY <3>2, <3>3
  <2>2. CASE ~Exists
    <3>1. ghost' = ghost
      BY <1>7, <2>2 DEF Register
    <3>2. r \in Sending' => r \in Sending
      BY <1>4, <1>7, <2>2 DEF Register, Done, Idle, Sending
    <3>3. QED
      BY <1>3, <1>7, <3>1, <3>2 DEF Step
  <2>3. QED
    BY <2>1, <2>2
<1>8. ASSUME NEW r \in Requests, Resend(r)
      PROVE  MailsReserved'
  <2>1. ghost' = ghost /\ r \in Sending
    BY <1>8 DEF Resend, Sending
  <2>2. QED
    BY <1>3, <1>8, <2>1 DEF Step
<1>9. ASSUME NEW r \in Requests, IssueCode(r)
      PROVE  MailsReserved'
  <2>1. r \in Sending \ Sending'
    BY <1>4, <1>9 DEF IssueCode, Sending, Done, Idle
  <2>2. ghost'.mails = ghost.mails + 1 /\ ghost'.periods = ghost.periods
    BY <1>0, <1>9 DEF IssueCode, Ghost
  <2>3. QED
    BY <1>3, <1>9, <2>1, <2>2 DEF Step
<1>10. ASSUME NEW r \in Requests,
              \/ Verify(r) \/ ClearBucket(r) \/ Login(r) \/ NewSession(r) \/ Rotate(r)
              \/ Retire(r) \/ RevokeFamily(r) \/ ResetIssue(r) \/ GuessCount(r)
              \/ GuessCompare(r) \/ GuessWrong(r) \/ GuessTake(r) \/ GuessFree(r)
              \/ GuessGrant(r) \/ Crash(r)
       PROVE  MailsReserved'
  <2>1. PICK q : Becomes(r, q) /\ q.op \notin {"register", "resend", "issue"}
    BY <1>10 DEF Verify, ClearBucket, Login, NewSession, Rotate, Retire, RevokeFamily,
       ResetIssue, GuessCount, GuessCompare, GuessWrong, GuessTake, GuessFree, GuessGrant,
       Crash, Done, Idle
  <2>2. r \notin Sending'
    BY <1>4, <2>1 DEF Sending
  <2>3. ghost'.mails = ghost.mails /\ ghost'.periods = ghost.periods
    BY <1>0, <1>10 DEF Verify, ClearBucket, Login, NewSession, Rotate, Retire, RevokeFamily,
       ResetIssue, GuessCount, GuessCompare, GuessWrong, GuessTake, GuessFree, GuessGrant,
       Crash, Ended, Ghost
  <2>4. QED
    BY <1>3, <1>10, <2>2, <2>3 DEF Step
<1>11. CASE QuietTime \/ UNCHANGED vars
  <2>1. UNCHANGED <<req, ghost>>
    BY <1>11 DEF QuietTime, WindowEnds, FlagLapses, VerificationExpires, ResetExpires, vars
  <2>2. QED
    BY <1>1, <2>1
<1>12. QED
  BY <1>5, <1>6, <1>7, <1>8, <1>9, <1>10, <1>11, Zenon
     DEF Next, Endpoint, QuietEndpoint, Step, QuietTime

(* How a step may treat a budget: begin it anew, leave it to the requests   *)
(* that had passed the check before, count one of them, or let one more     *)
(* pass while the budget is not used up.                                    *)
Spends(r, b) ==
  \/ bucket'[b] = 0
  \/ bucket'[b] = bucket[b] /\ (r \in Pending(b)' => r \in Pending(b))
  \/ bucket'[b] = bucket[b] + 1 /\ r \in Pending(b) \ Pending(b)'
  \/ bucket'[b] = bucket[b] /\ bucket[b] < FailureLimit

Guarded == {"login", "verify", "reset"}

(* A step that treats a budget so overruns it by no more than is in flight. *)
LEMMA SpendsWithin ==
  ASSUME TypeInv, BudgetsReserved, FailureLimit > 0, NEW b \in Guarded, NEW r \in Requests,
         Spends(r, b), \A s \in Requests \ {r} : req'[s] = req[s]
  PROVE  bucket'[b] + Cardinality(Pending(b)') < FailureLimit + Cardinality(Requests)
<1> DEFINE n == Cardinality(Pending(b))
           m == Cardinality(Pending(b)')
           all == Cardinality(Requests)
<1>1. bucket[b] \in Nat /\ FailureLimit \in Nat
  BY AccountsAssumption DEF TypeInv, TypeOK, Guarded
<1>2. /\ n \in Nat /\ m \in Nat /\ all \in Nat /\ m <= all
      /\ (r \in Pending(b)' => r \in Pending(b)) => m <= n
      /\ r \in Pending(b) \ Pending(b)' => m + 1 <= n
  <2>1. \A s \in Requests \ {r} : s \in Pending(b)' => s \in Pending(b)
    BY DEF Pending
  <2>2. Pending(b) \in SUBSET Requests /\ Pending(b)' \in SUBSET Requests
    BY DEF Pending
  <2>3. QED
    BY <2>1, <2>2, OneMoves
<1>3. bucket[b] + n < FailureLimit + all
  BY DEF BudgetsReserved, Guarded
<1> HIDE DEF n, m, all
<1>4. bucket'[b] + m < FailureLimit + all
  BY <1>1, <1>2, <1>3 DEF Spends
<1>5. QED
  BY <1>4 DEF m, all

(* Every endpoint treats every budget so.                                   *)
LEMMA EndpointSpends ==
  ASSUME TypeInv, FailureLimit > 0, NEW r \in Requests, Endpoint(r), NEW b \in Guarded
  PROVE  Spends(r, b)
<1>1. /\ \A q : Becomes(r, q) => req'[r] = q
      /\ bucket \in [{"login", "verify", "reset", "send"} -> Nat]
  BY DEF TypeInv, TypeOK, RequestsHold, Becomes
<1> USE DEF rows, redis
<1>2. ASSUME NEW q, Becomes(r, q), bucket'[b] = bucket[b],
             q.op \notin {"login", "verify", "count", "compare", "wrong"}
      PROVE  Spends(r, b)
  BY <1>1, <1>2 DEF Spends, Pending, Guarded
<1>3. ASSUME NEW op \in {"register", "resend"}, Reserve(r, op)
      PROVE  Spends(r, b)
  <2>1. bucket'[b] = bucket[b]
    BY <1>1, <1>3 DEF Reserve, Guarded
  <2>2. PICK q : Becomes(r, q) /\ q.op \in {"idle", "register", "resend"}
    BY <1>3 DEF Reserve, Asks, Idle
  <2>3. QED
    BY <1>2, <2>1, <2>2
<1>4. ASSUME NEW k \in Guarded, NEW q, UnderLimit(k), Becomes(r, q), bucket' = bucket,
             q.op = IF k = "reset" THEN "count" ELSE k
      PROVE  Spends(r, b)
  BY <1>1, <1>4 DEF Spends, Pending, Guarded, UnderLimit
<1>5. ASSUME NEW g, VerifyStart(r, g) \/ GuessStart(r, g) \/ LoginStart(r, g)
      PROVE  Spends(r, b)
  <2>1. CASE VerifyStart(r, g)
    BY <1>4, <2>1 DEF VerifyStart, Ask, Asks, Guarded
  <2>2. CASE GuessStart(r, g)
    BY <1>4, <2>2 DEF GuessStart, Ask, Asks, Guarded
  <2>3. CASE LoginStart(r, g)
    BY <1>4, <2>3 DEF LoginStart, Ask, Asks, Guarded
  <2>4. QED
    BY <1>5, <2>1, <2>2, <2>3
<1>6. ASSUME NEW t, RefreshRead(r, t) \/ Logout(r, t)
      PROVE  Spends(r, b)
  BY <1>2, <1>6 DEF RefreshRead, Logout, Ask, Asks
<1>7. CASE LogoutAll(r) \/ ResetAsk(r) \/ \E v \in grants : ResetPassword(r, v)
  BY <1>2, <1>7 DEF LogoutAll, ResetAsk, ResetPassword, Ask, Asks, Idle
<1>8. QED
  BY <1>3, <1>5, <1>6, <1>7 DEF Endpoint

(* So does every step on a request's way: a failure is counted by a request *)
(* that passed the check, and only once.                                    *)
LEMMA StepSpends ==
  ASSUME TypeInv, FailureLimit > 0, NEW r \in Requests, Step(r) \/ Crash(r), NEW b \in Guarded
  PROVE  Spends(r, b)
<1>1. /\ \A q : Becomes(r, q) => req'[r] = q
      /\ bucket \in [{"login", "verify", "reset", "send"} -> Nat]
      /\ Holds(req[r]) /\ b \in {"login", "verify", "reset", "send"}
  BY DEF TypeInv, TypeOK, RequestsHold, Becomes, Guarded
<1> USE DEF rows, redis
<1>2. ASSUME NEW q, Becomes(r, q), bucket'[b] = bucket[b],
             q.op \notin {"login", "verify", "count", "compare", "wrong"}
      PROVE  Spends(r, b)
  BY <1>1, <1>2 DEF Spends, Pending, Guarded
<1>3. CASE \/ Register(r) \/ Resend(r) \/ IssueCode(r) \/ NewSession(r) \/ Rotate(r) \/ Retire(r)
           \/ RevokeFamily(r) \/ ResetIssue(r) \/ GuessTake(r) \/ GuessFree(r) \/ GuessGrant(r)
           \/ Crash(r)
  <2>1. bucket' = bucket
    BY <1>3 DEF Register, Resend, IssueCode, NewSession, Rotate, Retire, RevokeFamily, ResetIssue,
       GuessTake, GuessFree, GuessGrant, Crash
  <2>2. PICK q : Becomes(r, q) /\ q.op \in {"idle", "issue", "retire", "free", "clear"}
    BY <1>3 DEF Register, Resend, IssueCode, NewSession, Rotate, Retire, RevokeFamily, ResetIssue,
       GuessTake, GuessFree, GuessGrant, Crash, Done, Idle
  <2>3. QED
    BY <1>2, <2>1, <2>2
<1>4. ASSUME NEW k \in Buckets, NEW q, Becomes(r, q), q.op \in {"idle", "clear", "grant", "pair"},
             Reset(k) \/ (Count(k) /\ k \in Guarded /\ r \in Pending(k))
      PROVE  Spends(r, b)
  <2>1. CASE b # k
    BY <1>1, <1>2, <1>4, <2>1 DEF Reset, Count
  <2>2. CASE b = k /\ Reset(k)
    BY <1>1, <2>2 DEF Reset, Spends
  <2>3. CASE b = k /\ Count(k) /\ r \in Pending(k)
    <3>1. bucket'[b] = bucket[b] + 1
      BY <1>1, <2>3 DEF Count
    <3>2. r \notin Pending(b)'
      BY <1>1, <1>4 DEF Pending
    <3>3. QED
      BY <2>3, <3>1, <3>2 DEF Spends
  <2>4. QED
    BY <1>4, <2>1, <2>2, <2>3
<1>5. CASE Verify(r)
  <2>1. CASE bucket' = bucket /\ Becomes(r, [op |-> "clear", bucket |-> "verify"])
    BY <1>2, <2>1
  <2>2. CASE Count("verify") /\ Done(r)
    <3>1. r \in Pending("verify")
      BY <1>5 DEF Verify, Pending
    <3>2. QED
      BY <1>4, <2>2, <3>1 DEF Done, Idle, Buckets, Guarded
  <2>3. QED
    BY <1>5, <2>1, <2>2 DEF Verify
<1>6. CASE ClearBucket(r)
  <2>1. PICK q : Becomes(r, q) /\ q.op \in {"idle", "grant"}
    BY <1>6 DEF ClearBucket, Done, Idle
  <2>2. Reset(req[r].bucket) /\ req[r].bucket \in Buckets
    BY <1>1, <1>6 DEF ClearBucket, Holds
  <2>3. QED
    BY <1>4, <2>1, <2>2
<1>7. CASE Login(r)
  <2>1. PICK q : Becomes(r, q) /\ q.op \in {"idle", "pair"}
    BY <1>7 DEF Login, Done, Idle
  <2>2. (Reset("login") \/ Count("login")) /\ r \in Pending("login")
    BY <1>7 DEF Login, Pending
  <2>3. QED
    BY <1>4, <2>1, <2>2 DEF Buckets, Guarded
<1>8. CASE GuessCount(r) \/ GuessCompare(r)
  <2>1. bucket' = bucket /\ r \in Pending("reset")
    BY <1>8 DEF GuessCount, GuessCompare, Pending
  <2>2. PICK q : Becomes(r, q) /\ q.op \in {"compare", "take", "wrong"}
    BY <1>8 DEF GuessCount, GuessCompare
  <2>3. r \in Pending(b)' => r \in Pending(b)
    BY <1>1, <2>1, <2>2 DEF Pending, Guarded
  <2>4. QED
    BY <2>1, <2>3 DEF Spends
<1>9. CASE GuessWrong(r)
  <2>1. Count("reset") /\ Done(r) /\ r \in Pending("reset")
    BY <1>9 DEF GuessWrong, Pending
  <2>2. QED
    BY <1>4, <2>1 DEF Done, Idle, Buckets, Guarded
<1>10. QED
  BY <1>3, <1>5, <1>6, <1>7, <1>8, <1>9 DEF Step

(* A budget, checked before a guess and counted after it, is overrun by no  *)
(* more than what is in flight.                                             *)
LEMMA NextBudgetsReserved ==
  ASSUME TypeInv, BudgetsReserved, [Next]_vars
  PROVE  BudgetsReserved'
<1> SUFFICES ASSUME FailureLimit > 0, NEW b \in Guarded
             PROVE  bucket'[b] + Cardinality(Pending(b)') < FailureLimit + Cardinality(Requests)
  BY DEF BudgetsReserved, Guarded
<1>1. CASE \E r \in Requests : Endpoint(r) \/ Step(r) \/ Crash(r)
  BY <1>1, EndpointSpends, StepSpends, OneRequestMoves, SpendsWithin
<1>2. ASSUME UNCHANGED req, bucket'[b] = bucket[b] \/ bucket'[b] = 0
      PROVE  bucket'[b] + Cardinality(Pending(b)') < FailureLimit + Cardinality(Requests)
  <2>1. Pending(b)' = Pending(b)
    BY <1>2 DEF Pending
  <2>2. /\ bucket[b] \in Nat /\ FailureLimit \in Nat
        /\ bucket[b] + Cardinality(Pending(b)) < FailureLimit + Cardinality(Requests)
    BY AccountsAssumption DEF TypeInv, TypeOK, Guarded, BudgetsReserved
  <2>3. Cardinality(Pending(b)) \in Nat /\ Cardinality(Requests) \in Nat
    BY AccountsAssumption, FS_Subset, FS_CardinalityType DEF Pending
  <2>4. QED
    BY <1>2, <2>1, <2>2, <2>3
<1>3. CASE QuietTime \/ UNCHANGED vars
  <2>1. bucket \in [Buckets -> Nat] /\ b \in Buckets
    BY DEF TypeInv, TypeOK, Guarded, Buckets
  <2>2. UNCHANGED req /\ (bucket'[b] = bucket[b] \/ bucket'[b] = 0)
    BY <1>3, <2>1 DEF QuietTime, WindowEnds, FlagLapses, VerificationExpires, ResetExpires, vars,
       Reset, rows
  <2>3. QED
    BY <1>2, <2>2
<1>4. QED
  BY <1>1, <1>3 DEF Next, QuietTime

(* How a step may treat a reset code: end it; leave it to the guesses under *)
(* way; count one guess; compare one; begin a new counter for a request     *)
(* that had won; or issue it.                                               *)
Tries(r) ==
  \/ rcode' = 0 /\ ghost'.rtried = ghost.rtried
  \/ /\ UNCHANGED <<rcode, attempts>> /\ ghost'.rtried = ghost.rtried
     /\ (r \in Comparing' => r \in Comparing) /\ (r \in Freeing' => r \in Freeing)
  \/ /\ rcode' = rcode /\ attempts' = attempts + 1 /\ ghost'.rtried = ghost.rtried
     /\ r \notin Freeing' /\ (r \in Comparing' => attempts < MaxAttempts)
  \/ /\ UNCHANGED <<rcode, attempts>> /\ ghost'.rtried = ghost.rtried + 1 /\ rcode # 0
     /\ r \in Comparing \ Comparing' /\ r \notin Freeing'
  \/ /\ rcode' = rcode /\ attempts' = 0 /\ ghost'.rtried = ghost.rtried
     /\ r \in Freeing \ Freeing' /\ r \notin Comparing'
  \/ attempts' = 0 /\ ghost'.rtried = 0 /\ r \notin Comparing' \cup Freeing'

(* Products with the limit grow with their other factor.                    *)
LEMMA Products ==
  ASSUME NEW m \in Nat, m > 0
  PROVE  /\ \A i \in Nat : m * i \in Nat /\ i <= m * i /\ m * (i + 1) = m * i + m
         /\ \A i, j \in Nat : i <= j => m * i <= m * j
         /\ \A i, j \in Nat : m * (i + j) = m * i + m * j
<1>1. \A i \in Nat : m * i \in Nat /\ i <= m * i /\ m * (i + 1) = m * i + m
  OBVIOUS
<1>2. \A i, j \in Nat : i <= j => m * i <= m * j
  OBVIOUS
<1>3. \A i, j \in Nat : m * (i + j) = m * i + m * j
  OBVIOUS
<1>4. QED
  BY <1>1, <1>2, <1>3

(* A code just issued: of the requests in flight each can try it within the *)
(* limit, by comparing what it had counted or by freeing the counter, and   *)
(* the one that issued it is not among them.                                *)
LEMMA FreshCode ==
  ASSUME NEW r \in Requests, NEW C \in SUBSET (Requests \ {r}), NEW F \in SUBSET (Requests \ {r}),
         C \cap F = {}
  PROVE  Cardinality(C) + MaxAttempts + MaxAttempts * Cardinality(F)
           <= MaxAttempts * Cardinality(Requests)
<1> DEFINE c == Cardinality(C)
           f == Cardinality(F)
           n == Cardinality(Requests)
<1>1. IsFiniteSet(Requests \ {r}) /\ Cardinality(Requests \ {r}) = n - 1 /\ n \in Nat
  BY AccountsAssumption, FS_RemoveElement, FS_CardinalityType
<1>2. IsFiniteSet(C) /\ IsFiniteSet(F) /\ c \in Nat /\ f \in Nat
  BY <1>1, FS_Subset, FS_CardinalityType
<1>3. Cardinality(C \cup F) = c + f - Cardinality(C \cap F) /\ Cardinality(C \cap F) = 0
  BY <1>2, FS_Union, FS_EmptySet
<1>4. Cardinality(C \cup F) <= n - 1
  <2>1. C \cup F \in SUBSET (Requests \ {r})
    OBVIOUS
  <2>2. QED
    BY <1>1, <2>1, FS_Subset
<1> HIDE DEF c, f, n
<1>5. c + (f + 1) <= n /\ c + (f + 1) \in Nat /\ f + 1 \in Nat
  BY <1>1, <1>2, <1>3, <1>4
<1>6. MaxAttempts \in Nat /\ MaxAttempts > 0
  BY AccountsAssumption
<1>7. MaxAttempts * (c + (f + 1)) <= MaxAttempts * n
  BY <1>1, <1>5, <1>6, Products
<1>8. MaxAttempts * (c + (f + 1)) = MaxAttempts * c + (MaxAttempts * f + MaxAttempts)
  BY <1>2, <1>5, <1>6, Products
<1>9. c <= MaxAttempts * c /\ MaxAttempts * c \in Nat /\ MaxAttempts * f \in Nat
      /\ MaxAttempts * n \in Nat
  BY <1>1, <1>2, <1>6, Products
<1>10. QED
  <2>1. c + MaxAttempts + MaxAttempts * f <= MaxAttempts * n
    BY <1>2, <1>6, <1>7, <1>8, <1>9
  <2>2. QED
    BY <2>1 DEF c, f, n

(* A step that treats the code so keeps the tries at it within the limit    *)
(* for each request in flight.                                              *)
LEMMA TriesWithin ==
  ASSUME TypeInv, TriesReserved, NEW r \in Requests, Tries(r),
         \A s \in Requests \ {r} : req'[s] = req[s]
  PROVE  TriesReserved'
<1> DEFINE c == Cardinality(Comparing)
           d == Cardinality(Comparing')
           f == Cardinality(Freeing)
           g == Cardinality(Freeing')
           all == MaxAttempts * Cardinality(Requests)
<1>1. /\ c \in Nat /\ d \in Nat /\ d <= c + 1
      /\ (r \in Comparing' => r \in Comparing) => d <= c
      /\ r \in Comparing \ Comparing' => d + 1 <= c
  <2>1. \A s \in Requests \ {r} : s \in Comparing' => s \in Comparing
    BY DEF Comparing
  <2>2. Comparing \in SUBSET Requests /\ Comparing' \in SUBSET Requests
    BY DEF Comparing
  <2>3. QED
    BY <2>1, <2>2, OneMoves
<1>2. /\ f \in Nat /\ g \in Nat /\ Cardinality(Requests) \in Nat
      /\ (r \in Freeing' => r \in Freeing) => g <= f
      /\ r \in Freeing \ Freeing' => g + 1 <= f
  <2>1. \A s \in Requests \ {r} : s \in Freeing' => s \in Freeing
    BY DEF Freeing
  <2>2. Freeing \in SUBSET Requests /\ Freeing' \in SUBSET Requests
    BY DEF Freeing
  <2>3. QED
    BY <2>1, <2>2, OneMoves
<1>3. /\ MaxAttempts \in Nat /\ MaxAttempts > 0 /\ attempts \in Nat
      /\ ghost.rtried \in Nat
  BY AccountsAssumption DEF TypeInv, TypeOK, Ghost
<1>4. /\ MaxAttempts * f \in Nat /\ MaxAttempts * g \in Nat /\ all \in Nat
      /\ g <= f => MaxAttempts * g <= MaxAttempts * f
      /\ g + 1 <= f => MaxAttempts * g + MaxAttempts <= MaxAttempts * f
  <2>1. MaxAttempts * (g + 1) = MaxAttempts * g + MaxAttempts
    BY <1>2, <1>3, Products
  <2>2. g + 1 \in Nat /\ (g + 1 <= f => MaxAttempts * (g + 1) <= MaxAttempts * f)
    BY <1>2, <1>3, Products
  <2>3. QED
    BY <1>2, <1>3, <2>1, <2>2, Products
<1>5. /\ ghost.rtried <= all
      /\ rcode # 0 => ghost.rtried + c + Left + MaxAttempts * f <= all
  BY DEF TriesReserved
<1>6. r \notin Comparing' \cup Freeing' => d + MaxAttempts + MaxAttempts * g <= all
  <2> SUFFICES ASSUME r \notin Comparing' \cup Freeing'
               PROVE  d + MaxAttempts + MaxAttempts * g <= all
    OBVIOUS
  <2>1. /\ Comparing' \in SUBSET (Requests \ {r}) /\ Freeing' \in SUBSET (Requests \ {r})
        /\ Comparing' \cap Freeing' = {}
    BY DEF Comparing, Freeing
  <2>2. QED
    BY <2>1, FreshCode
<1>7. Left \in Nat /\ Left' = (IF attempts' < MaxAttempts THEN MaxAttempts - attempts' ELSE 0)
      /\ Left <= MaxAttempts
  BY <1>3 DEF Left
<1> DEFINE mf == MaxAttempts * f
           mg == MaxAttempts * g
<1> HIDE DEF c, d, f, g, all, mf, mg
<1>8. /\ ghost'.rtried <= all
      /\ rcode' # 0 => ghost'.rtried + d + Left' + mg <= all
  <2>0. /\ mf \in Nat /\ mg \in Nat /\ all \in Nat /\ (g <= f => mg <= mf)
        /\ g + 1 <= f => mg + MaxAttempts <= mf
        /\ rcode # 0 => ghost.rtried + c + Left + mf <= all
        /\ r \notin Comparing' \cup Freeing' => d + MaxAttempts + mg <= all
    BY <1>4, <1>5, <1>6 DEF mf, mg
  <2>1. CASE rcode' = 0 /\ ghost'.rtried = ghost.rtried
    BY <1>5, <2>1
  <2>2. CASE /\ UNCHANGED <<rcode, attempts>> /\ ghost'.rtried = ghost.rtried
             /\ (r \in Comparing' => r \in Comparing) /\ (r \in Freeing' => r \in Freeing)
    <3>1. Left' = Left /\ d <= c /\ mg <= mf
      BY <1>1, <1>2, <2>0, <2>2 DEF Left
    <3>2. QED
      BY <1>1, <1>3, <1>5, <1>7, <2>0, <2>2, <3>1
  <2>3. CASE /\ rcode' = rcode /\ attempts' = attempts + 1 /\ ghost'.rtried = ghost.rtried
             /\ r \notin Freeing' /\ (r \in Comparing' => attempts < MaxAttempts)
    <3>1. mg <= mf
      BY <1>2, <2>0, <2>3
    <3>2. d + Left' <= c + Left
      <4>1. CASE attempts < MaxAttempts
        BY <1>1, <1>3, <1>7, <2>3, <4>1 DEF Left
      <4>2. CASE ~(attempts < MaxAttempts)
        BY <1>1, <1>3, <1>7, <2>3, <4>2 DEF Left
      <4>3. QED
        BY <4>1, <4>2
    <3>3. Left' \in Nat
      BY <1>3, <1>7, <2>3
    <3>4. QED
      BY <1>1, <1>3, <1>5, <1>7, <2>0, <2>3, <3>1, <3>2, <3>3
  <2>4. CASE /\ UNCHANGED <<rcode, attempts>> /\ ghost'.rtried = ghost.rtried + 1 /\ rcode # 0
             /\ r \in Comparing \ Comparing' /\ r \notin Freeing'
    <3>1. Left' = Left /\ d + 1 <= c /\ mg <= mf
      BY <1>1, <1>2, <2>0, <2>4 DEF Left
    <3>2. QED
      BY <1>1, <1>3, <1>5, <1>7, <2>0, <2>4, <3>1
  <2>5. CASE /\ rcode' = rcode /\ attempts' = 0 /\ ghost'.rtried = ghost.rtried
             /\ r \in Freeing \ Freeing' /\ r \notin Comparing'
    <3>1. Left' = MaxAttempts /\ d <= c /\ mg + MaxAttempts <= mf
      BY <1>1, <1>2, <1>3, <1>7, <2>0, <2>5
    <3>2. QED
      BY <1>1, <1>3, <1>5, <1>7, <2>0, <2>5, <3>1
  <2>6. CASE attempts' = 0 /\ ghost'.rtried = 0 /\ r \notin Comparing' \cup Freeing'
    <3>1. Left' = MaxAttempts
      BY <1>3, <1>7, <2>6
    <3>2. QED
      BY <1>1, <1>3, <2>0, <2>6, <3>1
  <2>7. QED
    BY <2>1, <2>2, <2>3, <2>4, <2>5, <2>6 DEF Tries
<1>9. QED
  BY <1>8 DEF TriesReserved, all, d, g, mg

(* Every endpoint treats the reset code so.                                 *)
LEMMA EndpointTries ==
  ASSUME TypeInv, NEW r \in Requests, Endpoint(r)
  PROVE  Tries(r)
<1>1. ghost \in Ghost /\ \A q : Becomes(r, q) => req'[r] = q
  BY DEF TypeInv, TypeOK, RequestsHold, Becomes
<1> USE DEF rows, redis
<1>2. UNCHANGED <<rcode, attempts>> /\ ghost'.rtried = ghost.rtried
  BY <1>1 DEF Endpoint, Reserve, VerifyStart, GuessStart, LoginStart, RefreshRead, Logout,
     LogoutAll, ResetAsk, ResetPassword, Ask, Asks, Ended, Ghost
<1>3. \E q : Becomes(r, q) /\ q.op \notin {"compare", "free"}
  <2>1. ASSUME NEW op \in {"register", "resend"}, Reserve(r, op)
        PROVE  \E q : Becomes(r, q) /\ q.op \notin {"compare", "free"}
    BY <2>1 DEF Reserve, Asks, Idle
  <2>2. ASSUME NEW g, VerifyStart(r, g) \/ GuessStart(r, g) \/ LoginStart(r, g)
        PROVE  \E q : Becomes(r, q) /\ q.op \notin {"compare", "free"}
    BY <2>2 DEF VerifyStart, GuessStart, LoginStart, Ask, Asks
  <2>3. ASSUME NEW t, RefreshRead(r, t) \/ Logout(r, t)
        PROVE  \E q : Becomes(r, q) /\ q.op \notin {"compare", "free"}
    BY <2>3 DEF RefreshRead, Logout, Ask, Asks
  <2>4. ASSUME LogoutAll(r) \/ ResetAsk(r) \/ \E v \in grants : ResetPassword(r, v)
        PROVE  \E q : Becomes(r, q) /\ q.op \notin {"compare", "free"}
    BY <2>4 DEF LogoutAll, ResetAsk, ResetPassword, Ask, Asks, Idle
  <2>5. QED
    BY <2>1, <2>2, <2>3, <2>4 DEF Endpoint
<1>4. r \notin Comparing' /\ r \notin Freeing'
  BY <1>1, <1>3 DEF Comparing, Freeing
<1>5. QED
  BY <1>2, <1>4 DEF Tries

(* So does every step on a request's way.                                   *)
LEMMA StepTries ==
  ASSUME TypeInv, NEW r \in Requests, Step(r) \/ Crash(r)
  PROVE  Tries(r)
<1>1. /\ ghost \in Ghost /\ (\A q : Becomes(r, q) => req'[r] = q)
      /\ attempts \in Nat /\ MaxAttempts \in Nat /\ CodeHasAccount /\ Holds(req[r])
  BY AccountsAssumption DEF TypeInv, TypeOK, RequestsHold, Becomes
<1> USE DEF rows, redis
<1>2. ASSUME NEW q, Becomes(r, q), q.op \notin {"compare", "free"}
      PROVE  r \notin Comparing' /\ r \notin Freeing'
  BY <1>1, <1>2 DEF Comparing, Freeing
<1>3. CASE \/ Register(r) \/ Resend(r) \/ IssueCode(r) \/ Verify(r) \/ ClearBucket(r)
           \/ Login(r) \/ NewSession(r) \/ Rotate(r) \/ Retire(r) \/ RevokeFamily(r)
           \/ GuessGrant(r) \/ Crash(r)
  <2>1. UNCHANGED <<rcode, attempts>> /\ ghost'.rtried = ghost.rtried
    BY <1>1, <1>3 DEF Register, Resend, IssueCode, Verify, ClearBucket, Login, NewSession,
       Rotate, Retire, RevokeFamily, GuessGrant, Crash, Ended, Ghost
  <2>2. PICK q : Becomes(r, q) /\ q.op \notin {"compare", "free"}
    BY <1>3 DEF Register, Resend, IssueCode, Verify, ClearBucket, Login, NewSession,
       Rotate, Retire, RevokeFamily, GuessGrant, Crash, Done, Idle
  <2>3. QED
    BY <1>2, <2>1, <2>2 DEF Tries
<1>4. CASE ResetIssue(r)
  <2>1. r \notin Comparing' /\ r \notin Freeing'
    BY <1>2, <1>4 DEF ResetIssue, Done, Idle
  <2>2. CASE Exists /\ user.active
    <3>1. attempts' = 0 /\ ghost'.rtried = 0
      BY <1>1, <1>4, <2>2 DEF ResetIssue, Ghost
    <3>2. QED
      BY <2>1, <3>1 DEF Tries
  <2>3. CASE ~(Exists /\ user.active)
    <3>1. rcode' = 0 /\ ghost' = ghost
      BY <1>1, <1>4, <2>3 DEF ResetIssue, CodeHasAccount
    <3>2. QED
      BY <3>1 DEF Tries
  <2>4. QED
    BY <2>2, <2>3
<1>5. CASE GuessCount(r)
  <2>1. /\ rcode' = rcode /\ attempts' = attempts + 1 /\ ghost' = ghost
        /\ Becomes(r, [op |-> "compare", guess |-> req[r].guess, attempt |-> attempts + 1])
    BY <1>5 DEF GuessCount
  <2>2. r \notin Freeing' /\ (r \in Comparing' => attempts < MaxAttempts)
    BY <1>1, <2>1 DEF Comparing, Freeing
  <2>3. QED
    BY <2>1, <2>2 DEF Tries
<1>6. CASE GuessCompare(r)
  <2>1. r \notin Comparing' /\ r \notin Freeing'
    BY <1>2, <1>6 DEF GuessCompare
  <2>2. UNCHANGED <<rcode, attempts>>
    BY <1>6 DEF GuessCompare
  <2>3. CASE ghost'.rtried = ghost.rtried
    BY <2>1, <2>2, <2>3 DEF Tries
  <2>4. CASE /\ ghost'.rtried = ghost.rtried + 1 /\ rcode # 0 /\ req[r].attempt <= MaxAttempts
    <3>1. r \in Comparing
      BY <1>6, <2>4 DEF GuessCompare, Comparing
    <3>2. QED
      BY <2>1, <2>2, <2>4, <3>1 DEF Tries
  <2>5. QED
    BY <1>1, <1>6, <2>3, <2>4 DEF GuessCompare, Ghost
<1>7. CASE GuessWrong(r)
  <2>1. r \notin Comparing' /\ r \notin Freeing' /\ ghost' = ghost
    BY <1>2, <1>7 DEF GuessWrong, Done, Idle
  <2>2. rcode' = 0 \/ UNCHANGED <<rcode, attempts>>
    BY <1>7, Zenon DEF GuessWrong
  <2>3. QED
    BY <2>1, <2>2 DEF Tries
<1>8. CASE GuessTake(r)
  BY <1>8 DEF GuessTake, Tries
<1>9. CASE GuessFree(r)
  <2>1. /\ rcode' = rcode /\ attempts' = 0 /\ ghost' = ghost /\ r \in Freeing
    BY <1>9 DEF GuessFree, Freeing
  <2>2. r \notin Comparing' /\ r \notin Freeing'
    BY <1>2, <1>9 DEF GuessFree
  <2>3. QED
    BY <2>1, <2>2 DEF Tries
<1>10. QED
  BY <1>3, <1>4, <1>5, <1>6, <1>7, <1>8, <1>9 DEF Step

(* A reset code is tried at most its limit for each request in flight.      *)
LEMMA NextTriesReserved ==
  ASSUME TypeInv, TriesReserved, [Next]_vars
  PROVE  TriesReserved'
<1>1. CASE \E r \in Requests : Endpoint(r) \/ Step(r) \/ Crash(r)
  BY <1>1, EndpointTries, StepTries, OneRequestMoves, TriesWithin
<1>2. CASE QuietTime \/ UNCHANGED vars
  <2>1. /\ UNCHANGED <<req, ghost>>
        /\ rcode' = 0 \/ UNCHANGED <<rcode, attempts>>
    BY <1>2 DEF QuietTime, WindowEnds, FlagLapses, VerificationExpires, ResetExpires, vars, redis,
       rows
  <2>2. Comparing' = Comparing /\ Freeing' = Freeing
    BY <2>1 DEF Comparing, Freeing
  <2>3. QED
    BY <2>1, <2>2 DEF TriesReserved, Left
<1>3. QED
  BY <1>1, <1>2 DEF Next, QuietTime

(* The limits hold in every state, what is in flight counted in.            *)
LEMMA LimitInvariance == Spec => []LimitInv
<1>1. Init => LimitInv
  <2> SUFFICES ASSUME Init PROVE LimitInv
    OBVIOUS
  <2>1. \A r \in Requests : req[r].op = "idle"
    BY DEF Init, Idle
  <2>2. Sending = {} /\ \A b \in Guarded : Pending(b) = {}
    BY <2>1 DEF Sending, Pending, Guarded
  <2>3. Cardinality({}) = 0 /\ Cardinality(Requests) \in Nat
    BY AccountsAssumption, FS_EmptySet, FS_CardinalityType
  <2>4. AttemptsCounted /\ MailsReserved
    BY <2>2, <2>3, AccountsAssumption DEF Init, AttemptsCounted, MailsReserved
  <2>5. BudgetsReserved
    <3>1. \A b \in Guarded : bucket[b] = 0
      BY DEF Init, Guarded
    <3>2. \A b \in Guarded : Cardinality(Pending(b)) = 0
      BY <2>2, <2>3, Zenon
    <3>3. FailureLimit \in Nat
      BY AccountsAssumption
    <3>4. QED
      BY <2>3, <3>1, <3>2, <3>3 DEF BudgetsReserved, Guarded
  <2>6. TriesReserved
    BY <2>3, AccountsAssumption, Products DEF Init, TriesReserved
  <2>7. QED
    BY <2>4, <2>5, <2>6, InitTypeInv DEF LimitInv
<1>2. LimitInv /\ [Next]_vars => LimitInv'
  BY NextTypeInv, NextAttemptsCounted, NextMailsReserved, NextBudgetsReserved,
     NextTriesReserved DEF LimitInv
<1>3. QED
  BY <1>1, <1>2, PTL DEF Spec

(* Guesses are bounded however they overlap: the verification code by its   *)
(* limit, a reset code by its limit for each request in flight, and a       *)
(* budget by what was in flight when it was used up.                        *)
THEOREM GuessesAreBounded == Spec => []GuessesBounded
<1>1. LimitInv => GuessesBounded
  <2> SUFFICES ASSUME LimitInv PROVE GuessesBounded
    OBVIOUS
  <2>1. ghost.vtried <= MaxAttempts /\ ghost.rtried <= MaxAttempts * Cardinality(Requests)
    BY DEF LimitInv, AttemptsCounted, TriesReserved
  <2>2. ASSUME FailureLimit > 0, NEW b \in Guarded
        PROVE  bucket[b] < FailureLimit + Cardinality(Requests)
    <3>1. Cardinality(Pending(b)) \in Nat /\ Cardinality(Requests) \in Nat
      BY AccountsAssumption, FS_Subset, FS_CardinalityType DEF Pending
    <3>2. /\ bucket[b] \in Nat /\ FailureLimit \in Nat
          /\ bucket[b] + Cardinality(Pending(b)) < FailureLimit + Cardinality(Requests)
      BY <2>2, AccountsAssumption
         DEF LimitInv, BudgetsReserved, Guarded, TypeInv, TypeOK
    <3>3. QED
      BY <3>1, <3>2
  <2>3. QED
    BY <2>1, <2>2 DEF GuessesBounded, Guarded
<1>2. QED
  BY <1>1, LimitInvariance, PTL

(* Verification mails never outnumber the cooldowns begun, though a request *)
(* sends its mail long after it reserved it.                                *)
THEOREM MailsAreLimited == Spec => []MailsWithinCooldowns
<1>1. LimitInv => MailsWithinCooldowns
  <2> SUFFICES ASSUME LimitInv PROVE MailsWithinCooldowns
    OBVIOUS
  <2>1. Cardinality(Sending) \in Nat /\ ghost.mails \in Nat /\ ghost.periods \in Nat
    BY AccountsAssumption, FS_Subset, FS_CardinalityType DEF LimitInv, TypeInv, TypeOK, Ghost, Sending
  <2>2. QED
    BY <2>1 DEF LimitInv, MailsReserved, MailsWithinCooldowns
<1>2. QED
  BY <1>1, LimitInvariance, PTL
============================================================================
