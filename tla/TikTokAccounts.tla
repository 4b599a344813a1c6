----------------------------- MODULE TikTokAccounts -----------------------------
(***************************************************************************)
(* One TikTok account: its row in public.tiktok_accounts, the direct posts *)
(* of its BullMQ lane, controlled verifications (a process of their own),  *)
(* OAuth logins and the operator.  services/tiktok-accounts.ts reads the   *)
(* row, asks TikTok for new tokens and writes the row back, status         *)
(* included, in separate awaits and without comparing.                     *)
(* services/tiktok-direct-post-queue.ts, tiktok-protocol.ts,               *)
(* tiktok-controlled-verification.ts and publishers/tiktok.ts call it.     *)
(***************************************************************************)
EXTENDS Naturals, Sequences

CONSTANTS
  Post,         \* publish requests that reach enqueueTikTokDirectPost
  Verify,       \* controlled verifications
  MaxTokens,    \* bound on refresh tokens TikTok issues
  MaxExpiries,  \* bound on access tokens that grow old
  MaxDisables,  \* bound on the operator's "disabled"
  MaxCrashes    \* bound on crashes of the API process

ASSUME TikTokAssumption ==
  /\ Post \cap Verify = {}
  /\ MaxTokens \in Nat \ {0}
  /\ MaxExpiries \in Nat /\ MaxDisables \in Nat /\ MaxCrashes \in Nat

Caller == Post \cup Verify

VARIABLES
  account,      \* the row: status, refresh token, whether the access token is fresh
  valid,        \* the refresh tokens TikTok accepts
  issued,       \* refresh tokens issued so far
  pc,           \* where each call is
  copy,         \* the row as each call that asks for new tokens read it
  got,          \* the refresh token each call, and the login, got from TikTok
  login,        \* refresh token an OAuth callback is about to store, or 0
  lane,         \* waiting posts of the account's BullMQ queue
  open,         \* the lane's worker runs in this process
  stalls,       \* how often each post was cut off and queued again
  published,    \* history: posts that reached TikTok, by request
  told,         \* history: the last status a login, an operator or a verification decided
  stale,        \* history: calls whose copy of the row was overtaken by a write
  spoiled,      \* history: such a call has written since a login or an operator did
  lost,         \* history: a new token was lost, and the row's is refused
  expiries, disables, crashes

row == <<account, valid, issued>>
calls == <<pc, copy, got>>
queue == <<lane, open, stalls>>
history == <<published, told, stale, spoiled, lost>>
bounds == <<expiries, disables, crashes>>
vars == <<row, calls, login, queue, history, bounds>>

Status == {"active", "controlled_verified", "reauthorization_required", "revoked", "disabled"}
Usable == {"active", "controlled_verified"}
Token == 1..MaxTokens
Row == [status : Status, refresh : Token, fresh : BOOLEAN]
Holding == {"refreshing", "storing", "denied", "posting", "polling", "promoting"}
Place == {"idle", "checked", "queued", "reading", "over"} \cup Holding
Working == {"reading"} \cup Holding

(* After a login, and perhaps a verification; nothing published since.      *)
Init ==
  /\ account \in [status : Usable, refresh : {1}, fresh : BOOLEAN]
  /\ valid = {1} /\ issued = 1
  /\ pc = [c \in Caller |-> "idle"]
  /\ copy = [c \in Caller |-> account]
  /\ got = [c \in Caller |-> 1]
  /\ login = 0
  /\ lane = <<>> /\ open = FALSE /\ stalls = [p \in Post |-> 0]
  /\ published = [c \in Caller |-> 0]
  /\ told = account.status /\ stale = {} /\ spoiled = FALSE /\ lost = FALSE
  /\ expiries = 0 /\ disables = 0 /\ crashes = 0

Goes(c, p) == pc' = [pc EXCEPT ![c] = p]
Holders == {c \in Caller : pc[c] \in Holding}

(* The row is written by a call that holds a copy of it, ...                *)
WrittenBy(c, r) ==
  /\ account' = r
  /\ stale' = stale \cup (Holders \ {c})
  /\ spoiled' = (spoiled \/ c \in stale)

(* ... or by a login or the operator, whose word counts.                    *)
Decided(r) ==
  /\ account' = r /\ told' = r.status
  /\ stale' = stale \cup Holders
  /\ spoiled' = FALSE

-----------------------------------------------------------------------------
(* TikTokVideoPublisher.createResult reads the status before it enqueues;   *)
(* anything but controlled_verified, or a read that fails, is exported to   *)
(* the studio instead.                                                      *)
PublisherChecks(p) ==
  /\ pc[p] = "idle"
  /\ \/ account.status = "controlled_verified" /\ Goes(p, "checked")
     \/ Goes(p, "over")
  /\ UNCHANGED <<row, copy, got, login, queue, history, bounds>>

(* createLane starts the worker if there is none.                           *)
Enqueue(p) ==
  /\ pc[p] = "checked"
  /\ Goes(p, "queued")
  /\ lane' = Append(lane, p) /\ open' = TRUE
  /\ UNCHANGED <<row, copy, got, login, stalls, history, bounds>>

(* The lane's worker, with concurrency 1.                                   *)
Take ==
  /\ open /\ lane # <<>>
  /\ \A p \in Post : pc[p] \notin Working
  /\ Goes(Head(lane), "reading") /\ lane' = Tail(lane)
  /\ UNCHANGED <<row, copy, got, login, open, stalls, history, bounds>>

(* verifyTikTokControlledAccount looks for an active account first.         *)
VerifyChecks(v) ==
  /\ pc[v] = "idle"
  /\ \/ account.status = "active" /\ Goes(v, "reading")
     \/ Goes(v, "over")
  /\ UNCHANGED <<row, copy, got, login, queue, history, bounds>>

(* getTikTokAccessToken: one SELECT, and a decision on what it returned.  A *)
(* token that is still fresh ends the call with a RangeError: mapRow gets   *)
(* the object that mapSecretRow has mapped already, and asks for the ISO    *)
(* form of a date that is not there.  So only a refreshed token is used.    *)
ReadsRow(c) ==
  /\ pc[c] = "reading"
  /\ stale' = stale \ {c}
  /\ \/ /\ account.status \in Usable /\ ~account.fresh
        /\ copy' = [copy EXCEPT ![c] = account] /\ Goes(c, "refreshing")
     \/ /\ account.status \notin Usable \/ account.fresh
        /\ Goes(c, "over") /\ UNCHANGED copy
  /\ UNCHANGED <<row, got, login, queue, published, told, spoiled, lost, bounds>>

(* TikTok takes a refresh token in, and hands out the same or a new one.    *)
Grants(old, new) ==
  \/ new = old /\ UNCHANGED <<valid, issued>>
  \/ /\ issued < MaxTokens /\ issued' = issued + 1 /\ new = issued'
     /\ valid' = (valid \ {old}) \cup {new}

(* refreshTikTokAccount: new tokens, "invalid_grant", or no answer, which   *)
(* ends the call whether or not TikTok has changed the token.               *)
RefreshAnswers(c) ==
  /\ pc[c] = "refreshing"
  /\ \/ /\ copy[c].refresh \in valid
        /\ \E new \in Token :
             /\ Grants(copy[c].refresh, new)
             /\ \/ Goes(c, "storing") /\ got' = [got EXCEPT ![c] = new] /\ UNCHANGED lost
                \/ Goes(c, "over") /\ lost' = (lost \/ valid' # valid) /\ UNCHANGED got
     \/ copy[c].refresh \notin valid /\ Goes(c, "denied") /\ UNCHANGED <<valid, issued, got, lost>>
     \/ Goes(c, "over") /\ UNCHANGED <<valid, issued, got, lost>>
  /\ UNCHANGED <<account, copy, login, queue, published, told, stale, spoiled, bounds>>

(* Mutant: only the access token of the answer is kept.                     *)
StoresOldToken(c) ==
  /\ pc[c] = "storing"
  /\ WrittenBy(c, [status |-> copy[c].status, refresh |-> copy[c].refresh, fresh |-> TRUE])
  /\ Goes(c, "posting")
  /\ UNCHANGED <<valid, issued, copy, got, login, queue, published, told, lost, bounds>>

(* Mutant: the account counts as active after a refresh, as after a login.  *)
StoresActive(c) ==
  /\ pc[c] = "storing"
  /\ WrittenBy(c, [status |-> "active", refresh |-> got[c], fresh |-> TRUE])
  /\ Goes(c, "posting")
  /\ UNCHANGED <<valid, issued, copy, got, login, queue, published, told, lost, bounds>>

(* persistRefreshedTokens: an upsert with the status that was read.  Its    *)
(* own answer may be lost.                                                  *)
Stores(c) ==
  /\ pc[c] = "storing"
  /\ WrittenBy(c, [status |-> copy[c].status, refresh |-> got[c], fresh |-> TRUE])
  /\ Goes(c, "posting") \/ Goes(c, "over")
  /\ UNCHANGED <<valid, issued, copy, got, login, queue, published, told, lost, bounds>>

(* Mutant: after "invalid_grant" the call starts over.                      *)
DeniedRetries(c) ==
  /\ pc[c] = "denied"
  /\ Goes(c, "reading")
  /\ UNCHANGED <<row, copy, got, login, queue, history, bounds>>

(* "invalid_grant": the status is set, whatever the row is by then.         *)
Denied(c) ==
  /\ pc[c] = "denied"
  /\ WrittenBy(c, [account EXCEPT !.status = "reauthorization_required"])
  /\ Goes(c, "over")
  /\ UNCHANGED <<valid, issued, copy, got, login, queue, published, told, lost, bounds>>

(* A statement of the call fails and changes nothing: nobody catches that.  *)
(* The token that was to be stored is gone with the call.                   *)
StatementFails(c) ==
  /\ pc[c] \in {"reading", "storing", "denied", "promoting"}
  /\ Goes(c, "over")
  /\ lost' = (lost \/ (pc[c] = "storing" /\ account.refresh \notin valid))
  /\ UNCHANGED <<row, copy, got, login, queue, published, told, stale, spoiled, bounds>>

(* executeTikTokDirectPostWithAccessToken, up to the last chunk: it reaches *)
(* TikTok or fails on the way.                                              *)
Uploads(c) ==
  /\ pc[c] = "posting"
  /\ \/ Goes(c, "polling") /\ published' = [published EXCEPT ![c] = @ + 1]
     \/ Goes(c, "over") /\ UNCHANGED published
  /\ UNCHANGED <<row, copy, got, login, queue, told, stale, spoiled, lost, bounds>>

(* Mutant: a lane with two attempts, which repeats a post that failed.      *)
PolledTwice(c) ==
  /\ pc[c] = "polling"
  /\ \/ Goes(c, "over") /\ UNCHANGED lane
     \/ c \in Post /\ published[c] < 3 /\ Goes(c, "queued") /\ lane' = Append(lane, c)
     \/ c \in Verify /\ Goes(c, "promoting") /\ UNCHANGED lane
  /\ UNCHANGED <<row, copy, got, login, open, stalls, history, bounds>>

(* Then the status is polled; a verification must hear "published".         *)
Polled(c) ==
  /\ pc[c] = "polling"
  /\ \/ Goes(c, "over")
     \/ c \in Verify /\ Goes(c, "promoting")
  /\ UNCHANGED <<row, copy, got, login, queue, history, bounds>>

(* setTikTokAccountStatus, whatever the status is by then.  From a call     *)
(* that was not overtaken it is a decision.                                 *)
Promotes(v) ==
  /\ pc[v] = "promoting"
  /\ WrittenBy(v, [account EXCEPT !.status = "controlled_verified"])
  /\ told' = IF v \in stale THEN told ELSE "controlled_verified"
  /\ Goes(v, "over")
  /\ UNCHANGED <<valid, issued, copy, got, login, queue, published, lost, bounds>>

-----------------------------------------------------------------------------
(* exchangeTikTokAuthorizationCode: TikTok issues tokens, and may or may    *)
(* not go on accepting the old one; its answer may be lost or incomplete.   *)
LoginGranted ==
  /\ login = 0
  /\ issued < MaxTokens /\ issued' = issued + 1
  /\ valid' \in {valid \cup {issued'}, {issued'}}
  /\ \/ login' = issued' /\ UNCHANGED lost
     \/ login' = 0 /\ lost' = (lost \/ valid' = {issued'})
  /\ UNCHANGED <<account, calls, queue, published, told, stale, spoiled, bounds>>

(* Then the row is upserted as active ...                                   *)
LoginStored ==
  /\ login # 0
  /\ Decided([status |-> "active", refresh |-> login, fresh |-> TRUE])
  /\ login' = 0 /\ lost' = FALSE
  /\ UNCHANGED <<valid, issued, calls, queue, published, bounds>>

(* ... or the upsert fails, and the callback with it.                       *)
LoginFails ==
  /\ login # 0
  /\ login' = 0 /\ lost' = (lost \/ account.refresh \notin valid)
  /\ UNCHANGED <<row, calls, queue, published, told, stale, spoiled, bounds>>

(* The operator disables the account in the data base (or revokes it, which *)
(* every reader takes in the same way).                                     *)
Disable ==
  /\ disables < MaxDisables /\ disables' = disables + 1
  /\ account.status \in Usable
  /\ Decided([account EXCEPT !.status = "disabled"])
  /\ UNCHANGED <<valid, issued, calls, login, queue, published, lost, expiries, crashes>>

(* The access token comes within fifteen minutes of its end.                *)
Expire ==
  /\ expiries < MaxExpiries /\ expiries' = expiries + 1
  /\ account.fresh /\ account' = [account EXCEPT !.fresh = FALSE]
  /\ UNCHANGED <<valid, issued, calls, login, queue, history, disables, crashes>>

(* The API process dies.  BullMQ keeps the lane; the post it was busy with  *)
(* is queued again, once; no worker runs until somebody publishes again.    *)
Crash ==
  /\ crashes < MaxCrashes /\ crashes' = crashes + 1
  /\ LET busy == {p \in Post : pc[p] \in Working}
         again == {p \in busy : stalls[p] = 0}
     IN /\ pc' = [c \in Caller |-> IF c \in again THEN "queued"
                                   ELSE IF c \in busy \/ pc[c] = "checked" THEN "over" ELSE pc[c]]
        /\ \E front \in {<<>>} \cup {<<p>> : p \in again} :
             Len(front) = (IF again = {} THEN 0 ELSE 1) /\ lane' = front \o lane
        /\ stalls' = [p \in Post |-> IF p \in again THEN 1 ELSE stalls[p]]
        /\ lost' = (\/ lost
                    \/ /\ login # 0 \/ \E p \in busy : pc[p] = "storing"
                       /\ account.refresh \notin valid)
  /\ open' = FALSE /\ login' = 0
  /\ UNCHANGED <<row, copy, got, published, told, stale, spoiled, expiries, disables>>

Call(c) ==
  \/ ReadsRow(c) \/ RefreshAnswers(c) \/ Stores(c) \/ Denied(c) \/ Uploads(c) \/ Polled(c)
  \/ StatementFails(c)

Next ==
  \/ \E p \in Post : PublisherChecks(p) \/ Enqueue(p)
  \/ Take
  \/ \E v \in Verify : VerifyChecks(v) \/ Promotes(v)
  \/ \E c \in Caller : Call(c)
  \/ LoginGranted \/ LoginStored \/ LoginFails \/ Disable \/ Expire \/ Crash

Spec == Init /\ [][Next]_vars
(* A worker that runs takes what waits, and the post it is busy with goes   *)
(* on: every request to TikTok is answered or breaks off.                   *)
Works == \E p \in Post : Call(p)
FairSpec == Spec /\ WF_vars(Take) /\ WF_vars(Works)
-----------------------------------------------------------------------------
(* Type invariant.                                                          *)
AccountTypeOK ==
  /\ account \in Row /\ valid \subseteq Token /\ issued \in Token
  /\ pc \in [Caller -> Place] /\ copy \in [Caller -> Row] /\ got \in [Caller -> Token]
  /\ login \in {0} \cup Token
  /\ lane \in Seq(Post) /\ open \in BOOLEAN /\ stalls \in [Post -> 0..1]
  /\ published \in [Caller -> Nat] /\ told \in Status /\ stale \subseteq Caller
  /\ spoiled \in BOOLEAN /\ lost \in BOOLEAN
  /\ expiries \in 0..MaxExpiries /\ disables \in 0..MaxDisables /\ crashes \in 0..MaxCrashes

(* The status of the row is what a login, a verification or the operator    *)
(* decided last, or a refresh token that TikTok really refuses, unless a    *)
(* call whose copy of the row had been overtaken wrote it.                  *)
StatusAsDecided ==
  \/ spoiled
  \/ account.status = told
  \/ account.status = "reauthorization_required" /\ account.refresh \notin valid

(* The stored refresh token is one TikTok accepts, or a call is about to    *)
(* store its successor, or a login is: tokens are only lost with TikTok's   *)
(* answer or a write that fails, or to an overtaken call.                   *)
TokenUsable ==
  account.status \in Usable /\ ~spoiled /\ ~lost =>
    \/ account.refresh \in valid
    \/ \E c \in Caller : pc[c] = "storing" /\ got[c] \in valid
    \/ login # 0

(* Nothing repeats a post but BullMQ, once, after a crash in the middle of  *)
(* it.                                                                      *)
PublishedOnce == \A p \in Post : published[p] <= 1 + stalls[p]

(* The lane never has two posts of the account under way, so they never     *)
(* refresh the account's tokens against each other.                         *)
OnePostAtATime == \A p, q \in Post : pc[p] \in Working /\ pc[q] \in Working => p = q

(* A post that waits while the worker runs is taken and ends.               *)
PostsEnd == \A p \in Post : pc[p] = "queued" /\ open ~> pc[p] = "over" \/ ~open

(* What PostsEnd comes down to: a post under way ends, and one that waits   *)
(* moves up to the head of the lane, and from there to the worker.          *)
Busy(P) == \E p \in P : pc[p] \in Working
Waits(p, n) == open /\ n \in DOMAIN lane /\ lane[n] = p
UnderWayEnds(p) == pc[p] \in Working ~> pc[p] = "over" \/ ~open
MovesUp(p, n) == Waits(p, n + 1) ~> Waits(p, n) \/ ~open
IsTaken(p) == Waits(p, 1) ~> pc[p] \in Working \/ ~open
LaneMoves == \A p \in Post : UnderWayEnds(p) /\ IsTaken(p) /\ \A n \in Nat \ {0} : MovesUp(p, n)

(* The worker has something to do, or nothing waits for it.                 *)
WorkerLive ==
  /\ Busy(Post) => ENABLED <<Works>>_vars
  /\ ~Busy(Post) /\ open /\ lane # <<>> => ENABLED <<Take>>_vars
=============================================================================
