------------------------------ MODULE Accounts ------------------------------
(***************************************************************************)
(* One account: services/auth_service.py (registration, verification,       *)
(* login, refresh tokens), password_reset.py, verification_cooldown.py and  *)
(* rate_limit_service.py, behind the handlers of routers/auth.py.           *)
(*                                                                         *)
(* Requests for the account overlap.  Postgres rows change a transaction at *)
(* a time and Redis keys a command (or a MULTI) at a time; what a request   *)
(* read before is what it goes on with, since sessions do not expire what   *)
(* they loaded at commit.  A code is the number of its issue, a guess the   *)
(* number it is right for, and the password the number of resets before it, *)
(* which is also the account's token_version.  Keys and windows expire at   *)
(* any time.                                                                *)
(***************************************************************************)
EXTENDS Integers, FiniteSets

CONSTANTS
  Requests,       \* requests that can be in progress at once
  MaxAttempts,    \* email_verification_max_attempts, password_reset_max_attempts
  FailureLimit,   \* the per-account limits on failed logins and wrong codes
  SendLimit,      \* email_verification_send_limit
  MaxTokens,      \* bound: refresh tokens issued in a behaviour
  MaxAsked        \* bound: requests made in a behaviour

ASSUME AccountsAssumption ==
  /\ {MaxAttempts, FailureLimit, SendLimit, MaxTokens, MaxAsked} \subseteq Nat
  /\ MaxAttempts > 0 /\ IsFiniteSet(Requests)

VARIABLES
  user,      \* the users row: "none", or [active, version]
  vcode,     \* the email_verification_codes row: [code, failed], or NoCode
  rcode,     \* Redis: the live password reset code, 0 for none
  attempts,  \* Redis: guesses counted against it
  flags,     \* Redis: the keys held of "lock", "verify" and "reset" (cooldowns)
  bucket,    \* rate_limit_buckets of this window: [login, verify, reset, send]
  tokens,    \* refresh_tokens: a function from 1..n
  grants,    \* the versions reset tokens were granted under
  req,       \* req[r]: one request
  ghost      \* history: see Ghost

vars == <<user, vcode, rcode, attempts, flags, bucket, tokens, grants, req, ghost>>
redis == <<rcode, attempts, flags>>
rows == <<user, vcode, bucket, tokens>>

NoUser == [active |-> FALSE, version |-> -1]
NoCode == [code |-> 0, failed |-> 0]
Idle == [op |-> "idle"]

(* The users row: is_active is derived from email_verified_at.              *)
User == [active : BOOLEAN, version : Nat]

(* A refresh token: its row, the version signed into it, and two facts      *)
(* about its past: the password its session began with, and whether a       *)
(* refresh that overlapped the end of the session issued it.                *)
RefreshToken == [family : Nat, revoked : BOOLEAN, version : Nat,
                 proved : Nat, late : BOOLEAN]

(* History: codes issued, wrong guesses at the live codes, mails sent,      *)
(* cooldowns begun, sessions ended and requests made.                       *)
Ghost == [code : Nat, vtried : Nat, rtried : Nat, mails : Nat, periods : Nat,
          ended : SUBSET Nat, asked : 0..MaxAsked]

Exists == user # NoUser
Tokens == DOMAIN tokens

-----------------------------------------------------------------------------
(* Limits: rate_limit_service.py and verification_cooldown.py.              *)

(* ensure_under_limit: a check that counts nothing; 0 switches it off.      *)
UnderLimit(b) == FailureLimit = 0 \/ bucket[b] < FailureLimit

(* enforce, as the failed guesses use it: counted, whatever it answers.     *)
Count(b) == bucket' = [bucket EXCEPT ![b] = IF FailureLimit > 0 THEN @ + 1 ELSE @]

Reset(b) == bucket' = [bucket EXCEPT ![b] = 0]

(* claim: SET NX takes the cooldown if it is free.                          *)
Free(k) == k \notin flags

(* otp_matches: codes of two issues, accounts or purposes never match.      *)
OtpMatches(guess, code) == guess = code

(* A bucket's window ends: its row counts no more.                          *)
WindowEnds(b) ==
  /\ bucket[b] > 0
  /\ Reset(b)
  /\ UNCHANGED <<user, vcode, tokens, redis, grants, req, ghost>>

(* A lock or a cooldown lapses.                                             *)
FlagLapses(k) ==
  /\ k \in flags
  /\ flags' = flags \ {k}
  /\ UNCHANGED <<rows, rcode, attempts, grants, req, ghost>>

-----------------------------------------------------------------------------
Becomes(r, state) == req' = [req EXCEPT ![r] = state]
Done(r) == Becomes(r, Idle)

(* A new request, within the bound on them.                                 *)
Asks(r, state) ==
  /\ req[r] = Idle /\ ghost.asked < MaxAsked
  /\ Becomes(r, state)

Ask(r, state) ==
  /\ Asks(r, state)
  /\ ghost' = [ghost EXCEPT !.asked = @ + 1]

(* Registration and verification.                                           *)

(* Mutant: the cooldown only limits resends.                                *)
MaySendMutant == TRUE

(* _reserve_verification_send: the cooldown, then the window's limit.       *)
MaySend == Free("verify") /\ (SendLimit = 0 \/ bucket.send < SendLimit)

(* register_user and resend_verification up to the lookup, which comes      *)
(* after the reservation so that a refusal says nothing of the account.     *)
Reserve(r, op) ==
  /\ Asks(r, IF op = "resend" /\ ~MaySend THEN Idle ELSE [op |-> op, send |-> MaySend])
  /\ flags' = flags \cup {"verify"}
  /\ bucket' = [bucket EXCEPT !.send = IF Free("verify") /\ SendLimit > 0 THEN @ + 1 ELSE @]
  /\ ghost' = [ghost EXCEPT !.asked = @ + 1,
                 !.periods = IF Free("verify") THEN @ + 1 ELSE @]
  /\ UNCHANGED <<user, vcode, tokens, rcode, attempts, grants>>

(* register_user: an address that has an account gets a notice instead; the *)
(* unique index settles two registrations at once.                          *)
Register(r) ==
  /\ req[r].op = "register"
  /\ IF Exists
       THEN /\ ghost' = [ghost EXCEPT !.mails = IF req[r].send THEN @ + 1 ELSE @]
            /\ Done(r) /\ UNCHANGED user
       ELSE /\ user' = [active |-> FALSE, version |-> 0]
            /\ IF req[r].send THEN Becomes(r, [op |-> "issue"]) ELSE Done(r)
            /\ UNCHANGED ghost
  /\ UNCHANGED <<vcode, bucket, tokens, redis, grants>>

(* resend_verification: silent for unknown and verified addresses.          *)
Resend(r) ==
  /\ req[r].op = "resend"
  /\ IF Exists /\ ~user.active THEN Becomes(r, [op |-> "issue"]) ELSE Done(r)
  /\ UNCHANGED <<rows, redis, grants, ghost>>

(* issue_verification_code and the mail: one upsert replaces the code and   *)
(* its failed attempts.                                                     *)
IssueCode(r) ==
  /\ req[r].op = "issue"
  /\ vcode' = [code |-> ghost.code + 1, failed |-> 0]
  /\ ghost' = [ghost EXCEPT !.code = @ + 1, !.vtried = 0, !.mails = @ + 1]
  /\ Done(r)
  /\ UNCHANGED <<user, bucket, tokens, redis, grants>>

(* verify_email: the budget and the account, before the row lock.           *)
VerifyStart(r, guess) ==
  /\ UnderLimit("verify")
  /\ Ask(r, [op |-> "verify", guess |-> guess, open |-> Exists /\ ~user.active])
  /\ UNCHANGED <<rows, redis, grants>>

(* Mutant: the guess that reaches the limit leaves the code alive.          *)
AfterWrongMutant(v) ==
  IF v.failed + 1 > MaxAttempts THEN NoCode ELSE [v EXCEPT !.failed = @ + 1]

(* The code row after a wrong guess.                                        *)
AfterWrong(v) ==
  IF v.failed + 1 >= MaxAttempts THEN NoCode ELSE [v EXCEPT !.failed = @ + 1]

(* Under FOR UPDATE: a right guess spends the code and activates, a wrong   *)
(* one counts against the code and, in the same commit, the address.        *)
Verify(r) ==
  LET live == req[r].open /\ vcode # NoCode
      right == live /\ OtpMatches(req[r].guess, vcode.code)
  IN
  /\ req[r].op = "verify"
  /\ IF right
       THEN /\ user' = [user EXCEPT !.active = TRUE]
            /\ vcode' = NoCode
            /\ Becomes(r, [op |-> "clear", bucket |-> "verify"])
            /\ UNCHANGED <<bucket, ghost>>
       ELSE /\ vcode' = IF live THEN AfterWrong(vcode) ELSE vcode
            /\ ghost' = [ghost EXCEPT !.vtried = IF live THEN @ + 1 ELSE @]
            /\ Count("verify")
            /\ Done(r) /\ UNCHANGED user
  /\ UNCHANGED <<tokens, redis, grants>>

(* The failures of the address are forgotten, in a transaction of its own.  *)
ClearBucket(r) ==
  /\ req[r].op = "clear"
  /\ Reset(req[r].bucket)
  /\ IF req[r].bucket = "reset" THEN Becomes(r, [op |-> "grant"]) ELSE Done(r)
  /\ UNCHANGED <<user, vcode, tokens, redis, grants, ghost>>

(* Expiry of the code, found by verify_email or the periodic purge.         *)
VerificationExpires ==
  /\ vcode # NoCode
  /\ vcode' = NoCode
  /\ UNCHANGED <<user, bucket, tokens, redis, grants, req, ghost>>

-----------------------------------------------------------------------------
(* Sessions.                                                                *)

(* authenticate_user up to bcrypt: the hash and the version are read now.   *)
LoginStart(r, password) ==
  /\ UnderLimit("login")
  /\ Ask(r, [op |-> "login", password |-> password, row |-> user])
  /\ UNCHANGED <<rows, redis, grants>>

(* After bcrypt, against the row as it was read; without one, the failure   *)
(* is counted all the same.                                                 *)
Login(r) ==
  LET right == req[r].row # NoUser /\ req[r].password = req[r].row.version IN
  /\ req[r].op = "login"
  /\ IF right THEN Reset("login") ELSE Count("login")
  /\ IF right /\ req[r].row.active
       THEN Becomes(r, [op |-> "pair", version |-> req[r].row.version])
       ELSE Done(r)
  /\ UNCHANGED <<user, vcode, tokens, redis, grants, ghost>>

(* issue_token_pair: a row, and tokens signed with the version as read.     *)
Issue(token) ==
  /\ Cardinality(Tokens) < MaxTokens
  /\ tokens' = [t \in Tokens \cup {Cardinality(Tokens) + 1} |->
                  IF t \in Tokens THEN tokens[t] ELSE token]

NewSession(r) ==
  /\ req[r].op = "pair"
  /\ Issue([family |-> Cardinality(Tokens) + 1, revoked |-> FALSE,
            version |-> req[r].version, proved |-> req[r].version, late |-> FALSE])
  /\ Done(r)
  /\ UNCHANGED <<user, vcode, bucket, redis, grants, ghost>>

(* Mutant: the version in the token is not compared with the account's.     *)
SessionOpenMutant(t) == TRUE

(* The token's version is still the account's.                              *)
SessionOpen(t) == tokens[t].version = user.version

(* Mutant: a token already used is rotated again.                           *)
ReplayedMutant(t) == FALSE

Replayed(t) == tokens[t].revoked

(* refresh_token_pair, up to the new token: a used token ends its family,   *)
(* an expired one or one of another version is refused.                     *)
RefreshRead(r, t) ==
  /\ IF Replayed(t)
       THEN Ask(r, [op |-> "family", family |-> tokens[t].family])
       ELSE /\ SessionOpen(t)
            /\ Ask(r, [op |-> "rotate", token |-> t, version |-> user.version,
                       open |-> tokens[t].family \notin ghost.ended])
  /\ UNCHANGED <<rows, redis, grants>>

(* The new token is committed first, then the old one is revoked.           *)
Rotate(r) ==
  LET old == tokens[req[r].token] IN
  /\ req[r].op = "rotate"
  /\ Issue([old EXCEPT !.revoked = FALSE, !.version = req[r].version,
              !.late = @ \/ (req[r].open /\ old.family \in ghost.ended)])
  /\ Becomes(r, [op |-> "retire", token |-> req[r].token])
  /\ UNCHANGED <<user, vcode, bucket, redis, grants, ghost>>

Retire(r) ==
  /\ req[r].op = "retire"
  /\ tokens' = [tokens EXCEPT ![req[r].token].revoked = TRUE]
  /\ Done(r)
  /\ UNCHANGED <<user, vcode, bucket, redis, grants, ghost>>

Revoked(families) ==
  [t \in Tokens |-> IF tokens[t].family \in families
                      THEN [tokens[t] EXCEPT !.revoked = TRUE] ELSE tokens[t]]

Ended(families) == [ghost EXCEPT !.ended = @ \cup families]

(* revoke_refresh_token: the family of the token a logout names.            *)
Logout(r, t) ==
  /\ Ask(r, [op |-> "family", family |-> tokens[t].family])
  /\ UNCHANGED <<rows, redis, grants>>

(* _revoke_family, for a logout or a replay.                                *)
RevokeFamily(r) ==
  /\ req[r].op = "family"
  /\ tokens' = Revoked({req[r].family})
  /\ ghost' = Ended({req[r].family})
  /\ Done(r)
  /\ UNCHANGED <<user, vcode, bucket, redis, grants>>

Families == {tokens[t].family : t \in Tokens}

(* logout_all: revoke_all_for_user, one statement; the version stays.       *)
LogoutAll(r) ==
  /\ Exists /\ user.active
  /\ Asks(r, Idle)
  /\ tokens' = Revoked(Families)
  /\ ghost' = [Ended(Families) EXCEPT !.asked = @ + 1]
  /\ UNCHANGED <<user, vcode, bucket, redis, grants>>

-----------------------------------------------------------------------------
(* Password reset.                                                          *)

(* request_code: the lock, then the cooldown; silent for other accounts.    *)
ResetAsk(r) ==
  /\ Free("lock") /\ Free("reset")
  /\ Ask(r, [op |-> "code"])
  /\ flags' = flags \cup {"reset"}
  /\ UNCHANGED <<rows, rcode, attempts, grants>>

(* One MULTI: the new code, without the attempts used on the old one.       *)
ResetIssue(r) ==
  /\ req[r].op = "code"
  /\ attempts' = 0
  /\ IF Exists /\ user.active
       THEN /\ rcode' = ghost.code + 1
            /\ ghost' = [ghost EXCEPT !.code = @ + 1, !.rtried = 0]
       ELSE UNCHANGED <<rcode, ghost>>
  /\ Done(r)
  /\ UNCHANGED <<rows, flags, grants>>

(* verify_code: the lock and the budget ...                                 *)
GuessStart(r, guess) ==
  /\ Free("lock") /\ UnderLimit("reset")
  /\ Ask(r, [op |-> "count", guess |-> guess])
  /\ UNCHANGED <<rows, redis, grants>>

(* ... the attempt is counted before the code is read ...                   *)
GuessCount(r) ==
  /\ req[r].op = "count"
  /\ attempts' = attempts + 1
  /\ Becomes(r, [op |-> "compare", guess |-> req[r].guess, attempt |-> attempts + 1])
  /\ UNCHANGED <<rows, rcode, flags, grants, ghost>>

(* ... and the code only within the limit.                                  *)
GuessCompare(r) ==
  LET try == req[r].attempt <= MaxAttempts /\ rcode # 0
      right == try /\ OtpMatches(req[r].guess, rcode)
  IN
  /\ req[r].op = "compare"
  /\ ghost' = [ghost EXCEPT !.rtried = IF try /\ ~right THEN @ + 1 ELSE @]
  /\ Becomes(r, IF right THEN [op |-> "take"]
                         ELSE [op |-> "wrong", last |-> req[r].attempt = MaxAttempts])
  /\ UNCHANGED <<rows, redis, grants>>

(* A wrong guess: the last one of a code kills it and locks resets, in one  *)
(* MULTI; then the address' budget.                                         *)
GuessWrong(r) ==
  /\ req[r].op = "wrong"
  /\ IF req[r].last
       THEN rcode' = 0 /\ attempts' = 0 /\ flags' = flags \cup {"lock"}
       ELSE UNCHANGED redis
  /\ Count("reset")
  /\ Done(r)
  /\ UNCHANGED <<user, vcode, tokens, grants, ghost>>

(* A right guess: of several, the one whose DEL finds a code goes on.       *)
GuessTake(r) ==
  /\ req[r].op = "take"
  /\ IF rcode # 0 THEN Becomes(r, [op |-> "free"]) ELSE Done(r)
  /\ rcode' = 0
  /\ UNCHANGED <<rows, attempts, flags, grants, ghost>>

(* The attempts go, in a command of its own, then the failures ...          *)
GuessFree(r) ==
  /\ req[r].op = "free"
  /\ attempts' = 0
  /\ Becomes(r, [op |-> "clear", bucket |-> "reset"])
  /\ UNCHANGED <<rows, rcode, flags, grants, ghost>>

(* Mutant: the reset token is made out for the version after the reset.     *)
GuessGrantMutant(r) ==
  /\ req[r].op = "grant"
  /\ grants' = grants \cup {user.version + 1}
  /\ Done(r)
  /\ UNCHANGED <<rows, redis, ghost>>

(* ... and the reset token carries the version the account has now.         *)
GuessGrant(r) ==
  /\ req[r].op = "grant"
  /\ grants' = grants \cup {user.version}
  /\ Done(r)
  /\ UNCHANGED <<rows, redis, ghost>>

(* The code expires; its counter, renewed by each guess, no sooner.         *)
ResetExpires ==
  /\ rcode # 0 \/ attempts # 0
  /\ rcode' = 0
  /\ attempts' = IF rcode # 0 THEN attempts ELSE 0
  /\ UNCHANGED <<rows, flags, grants, req, ghost>>

(* reset_password: a compare-and-set on the version the token was granted   *)
(* under, and every refresh token revoked in the same commit.               *)
ResetPassword(r, v) ==
  /\ user.version = v
  /\ Asks(r, Idle)
  /\ user' = [user EXCEPT !.version = @ + 1]
  /\ tokens' = Revoked(Families)
  /\ ghost' = [Ended(Families) EXCEPT !.asked = @ + 1]
  /\ UNCHANGED <<vcode, bucket, redis, grants>>

-----------------------------------------------------------------------------
(* The process stops: the request ends where it is.                         *)
Crash(r) ==
  /\ req[r] # Idle
  /\ Done(r)
  /\ UNCHANGED <<rows, redis, grants, ghost>>

(* A new address, or an account verified before.                            *)
Init ==
  /\ user \in {NoUser, [active |-> TRUE, version |-> 0]}
  /\ vcode = NoCode /\ rcode = 0 /\ attempts = 0 /\ flags = {}
  /\ bucket = [login |-> 0, verify |-> 0, reset |-> 0, send |-> 0]
  /\ tokens = <<>> /\ grants = {}
  /\ req = [r \in Requests |-> Idle]
  /\ ghost = [code |-> 0, vtried |-> 0, rtried |-> 0, mails |-> 0, periods |-> 0,
              ended |-> {}, asked |-> 0]

(* A guess is right for the last code issued, or for none; a password is    *)
(* the one the account has, or the one before, if there was one.            *)
Guesses == {0, ghost.code}
Passwords == {user.version, user.version - 1}

Endpoint(r) ==
  \/ \E op \in {"register", "resend"} : Reserve(r, op)
  \/ \E g \in Guesses : VerifyStart(r, g) \/ GuessStart(r, g)
  \/ \E p \in Passwords : LoginStart(r, p)
  \/ \E t \in Tokens : RefreshRead(r, t) \/ Logout(r, t)
  \/ LogoutAll(r) \/ ResetAsk(r)
  \/ \E v \in grants : ResetPassword(r, v)

Step(r) ==
  \/ Register(r) \/ Resend(r) \/ IssueCode(r) \/ Verify(r) \/ ClearBucket(r)
  \/ Login(r) \/ NewSession(r) \/ Rotate(r) \/ Retire(r) \/ RevokeFamily(r)
  \/ ResetIssue(r) \/ GuessCount(r) \/ GuessCompare(r) \/ GuessWrong(r)
  \/ GuessTake(r) \/ GuessFree(r) \/ GuessGrant(r)

Next ==
  \/ \E r \in Requests : Endpoint(r) \/ Step(r) \/ Crash(r)
  \/ \E b \in DOMAIN bucket : WindowEnds(b)
  \/ \E k \in flags : FlagLapses(k)
  \/ VerificationExpires \/ ResetExpires

Spec == Init /\ [][Next]_vars

-----------------------------------------------------------------------------
(* What should hold.                                                        *)

(* Every variable has its type; no reset token is of a version to come.     *)
TypeOK ==
  /\ user \in User \cup {NoUser}
  /\ vcode \in [code : Nat, failed : Nat]
  /\ rcode \in Nat /\ attempts \in Nat /\ flags \subseteq {"lock", "verify", "reset"}
  /\ bucket \in [{"login", "verify", "reset", "send"} -> Nat]
  /\ \A t \in Tokens : tokens[t] \in RefreshToken
  /\ grants \subseteq 0..user.version /\ ghost \in Ghost

(* Whatever guesses, resends and crashes overlap:                           *)
(*  - no more wrong guesses reach one verification code than its limit      *)
(*    (verify_email: "The row is locked FOR UPDATE, so parallel guesses     *)
(*    cannot exceed");                                                      *)
(*  - a reset code is tried at most its limit for each request in flight: a *)
(*    guess counted before a new code is issued may still be compared with  *)
(*    it, and a winner of the old code may free the new one's counter once  *)
(*    (verify_code counts, reads and deletes in separate commands);         *)
(*  - the budget of an address, checked before a guess and counted after    *)
(*    it, is overrun by no more than what was in flight.                    *)
GuessesBounded ==
  /\ ghost.vtried <= MaxAttempts
  /\ ghost.rtried <= MaxAttempts * Cardinality(Requests)
  /\ FailureLimit > 0 =>
       \A b \in {"login", "verify", "reset"} :
         bucket[b] < FailureLimit + Cardinality(Requests)

(* A token that still works belongs to a session begun with the password    *)
(* the account has now, though a login or refresh read the row before a     *)
(* reset and issued after it (reset_password: "voids every access and       *)
(* refresh token").                                                         *)
OldPasswordEndsSessions ==
  \A t \in Tokens : ~tokens[t].revoked /\ tokens[t].version = user.version
                      => tokens[t].proved = user.version

(* After a logout, a replay or a logout of all, a session goes on only      *)
(* through a refresh that had read its token before (routers/auth.py: "End  *)
(* the session the refresh token belongs to").                              *)
EndedSessionsStayEnded ==
  \A t \in Tokens : tokens[t].family \in ghost.ended /\ ~tokens[t].revoked
                      => tokens[t].late

(* Verification mails, notices included, never outnumber the cooldowns      *)
(* begun (register_user: "repeated registration cannot mail-bomb anyone").  *)
MailsWithinCooldowns == ghost.mails <= ghost.periods
=============================================================================
