-------------------------- MODULE TikTokAccountsProofs --------------------------
(***************************************************************************)
(* Proofs about TikTokAccounts for any number of posts, verifications,     *)
(* tokens, expiries and crashes: what the row of the account may say when  *)
(* every writer writes back what it read before it asked TikTok.           *)
(***************************************************************************)
EXTENDS TikTokAccounts, TLAPS

-----------------------------------------------------------------------------
(* Every token in the system has been issued, so the next one is new.       *)
TokensKnown ==
  /\ \A t \in valid : t <= issued
  /\ account.refresh <= issued /\ login <= issued
  /\ \A c \in Caller : copy[c].refresh <= issued /\ got[c] <= issued

(* What a login is about to store is valid, and nobody else holds it.       *)
LoginPending ==
  login # 0 =>
    /\ login \in valid /\ account.refresh # login
    /\ \A c \in Caller : copy[c].refresh # login /\ got[c] # login

AtTikTok == {"refreshing", "storing", "denied"}

(* The copy of a call that nobody overtook is the row.                      *)
CopyCurrent ==
  \A c \in Caller :
    /\ pc[c] \in AtTikTok => copy[c].status \in Usable
    /\ pc[c] \in AtTikTok /\ c \notin stale =>
         copy[c].status = account.status /\ copy[c].refresh = account.refresh
    /\ pc[c] \in Holding /\ c \notin stale => account.status \in Usable

DeniedHonestly == \A c \in Caller : pc[c] = "denied" => copy[c].refresh \notin valid

(* A new token has replaced the one it was asked for with.                  *)
Rotated ==
  \A c \in Caller :
    pc[c] = "storing" /\ got[c] # copy[c].refresh => copy[c].refresh \notin valid

Heir == \E c \in Caller : pc[c] = "storing" /\ got[c] \in valid

(* A token that was replaced before it was stored has an heir.              *)
Inherited ==
  ~spoiled /\ ~lost /\ login = 0 =>
    \A c \in Caller : pc[c] = "storing" /\ c \notin stale /\ got[c] \notin valid => Heir

(* The waiting posts are in the lane once each.                             *)
LaneWaits ==
  /\ \A i \in DOMAIN lane : pc[lane[i]] = "queued"
  /\ \A i, j \in DOMAIN lane : lane[i] = lane[j] => i = j

(* Before its upload ends, an attempt has added nothing.                    *)
AttemptsCounted ==
  \A p \in Post :
    /\ pc[p] \in {"idle", "checked"} => published[p] = 0
    /\ pc[p] \in {"queued", "reading", "posting"} \cup AtTikTok => published[p] <= stalls[p]

RowInv ==
  /\ TokensKnown /\ LoginPending /\ CopyCurrent /\ DeniedHonestly /\ Rotated
  /\ StatusAsDecided /\ Inherited /\ TokenUsable
LaneInv == LaneWaits /\ OnePostAtATime /\ AttemptsCounted /\ PublishedOnce
AccountInv == AccountTypeOK /\ RowInv /\ LaneInv

-----------------------------------------------------------------------------
LEMMA InitEstablishes == Init => AccountInv
<1> SUFFICES ASSUME Init PROVE AccountInv
  OBVIOUS
<1> USE TikTokAssumption DEF Init
<1>1. AccountTypeOK
  <2>1. account \in Row /\ valid \subseteq Token /\ issued \in Token
    BY DEF Row, Token, Status, Usable
  <2>2. /\ pc \in [Caller -> Place] /\ copy \in [Caller -> Row]
        /\ got \in [Caller -> Token]
    BY <2>1 DEF Place, Token
  <2>3. lane \in Seq(Post) /\ stalls \in [Post -> 0..1] /\ published \in [Caller -> Nat]
    OBVIOUS
  <2>4. /\ expiries \in 0..MaxExpiries /\ disables \in 0..MaxDisables
        /\ crashes \in 0..MaxCrashes
    OBVIOUS
  <2> QED BY <2>1, <2>2, <2>3, <2>4 DEF AccountTypeOK, Row
<1>2. RowInv
  <2>1. TokensKnown /\ LoginPending
    BY DEF TokensKnown, LoginPending
  <2>2. CopyCurrent /\ DeniedHonestly /\ Rotated /\ Inherited
    BY DEF CopyCurrent, DeniedHonestly, Rotated, Inherited, AtTikTok, Holding
  <2>3. StatusAsDecided /\ TokenUsable
    BY DEF StatusAsDecided, TokenUsable
  <2> QED BY <2>1, <2>2, <2>3 DEF RowInv
<1>3. LaneInv
  BY DEF LaneInv, LaneWaits, OnePostAtATime, AttemptsCounted, PublishedOnce, Working,
         Holding, Caller, AtTikTok
<1> QED BY <1>1, <1>2, <1>3 DEF AccountInv

-----------------------------------------------------------------------------
LEMMA TypeStep ==
  ASSUME AccountTypeOK, LaneWaits, [Next]_vars
  PROVE  AccountTypeOK'
<1> USE TikTokAssumption DEF AccountTypeOK, Goes, Caller
<1>1. ASSUME NEW p \in Post, PublisherChecks(p) \/ Enqueue(p)
      PROVE  AccountTypeOK'
  <2>1. pc' \in [Caller -> Place]
    BY <1>1 DEF PublisherChecks, Enqueue, Place
  <2>2. lane' \in Seq(Post) /\ open' \in BOOLEAN
    <3>1. CASE PublisherChecks(p)
      BY <3>1 DEF PublisherChecks, queue
    <3>2. CASE Enqueue(p)
      <4>1. Append(lane, p) \in Seq(Post)
        OBVIOUS
      <4> QED BY <3>2, <4>1 DEF Enqueue
    <3> QED BY <1>1, <3>1, <3>2
  <2> QED BY <1>1, <2>1, <2>2 DEF PublisherChecks, Enqueue, row, queue, history, bounds
<1>2. CASE Take
  <2>1. Head(lane) \in Post /\ Tail(lane) \in Seq(Post)
    BY <1>2 DEF Take
  <2> QED BY <1>2, <2>1 DEF Take, Place, row, history, bounds
<1>3. ASSUME NEW v \in Verify, VerifyChecks(v)
      PROVE  AccountTypeOK'
  BY <1>3 DEF VerifyChecks, Place, row, queue, history, bounds
<1>4. ASSUME NEW v \in Verify, Promotes(v)
      PROVE  AccountTypeOK'
  BY <1>4 DEF Promotes, WrittenBy, Holders, Place, Row, Status, queue, bounds
<1>5. ASSUME NEW c \in Caller, ReadsRow(c)
      PROVE  AccountTypeOK'
  <2>1. pc' \in [Caller -> Place] /\ copy' \in [Caller -> Row]
    <3>1. \A s \in {"refreshing", "over"} : [pc EXCEPT ![c] = s] \in [Caller -> Place]
      BY DEF Place, Holding
    <3>2. [copy EXCEPT ![c] = account] \in [Caller -> Row]
      OBVIOUS
    <3> QED BY <1>5, <3>1, <3>2 DEF ReadsRow
  <2> QED BY <1>5, <2>1 DEF ReadsRow, row, queue, bounds
<1>6. ASSUME NEW c \in Caller, RefreshAnswers(c)
      PROVE  AccountTypeOK'
  <2>1. copy[c].refresh \in Token
    BY DEF Row
  <2>2. issued < MaxTokens => issued + 1 \in Token
    BY DEF Token
  <2>3. /\ valid' \subseteq Token /\ issued' \in Token /\ got' \in [Caller -> Token]
        /\ lost' \in BOOLEAN
    <3>1. ASSUME NEW new \in Token, Grants(copy[c].refresh, new)
          PROVE  valid' \subseteq Token /\ issued' \in Token
      BY <2>1, <2>2, <3>1 DEF Grants
    <3>2. valid' \subseteq Token /\ issued' \in Token
      BY <1>6, <3>1 DEF RefreshAnswers
    <3>3. got' \in [Caller -> Token]
      BY <1>6 DEF RefreshAnswers
    <3>4. lost' \in BOOLEAN
      BY <1>6 DEF RefreshAnswers
    <3> QED BY <3>2, <3>3, <3>4
  <2>4. pc' \in [Caller -> Place]
    BY <1>6 DEF RefreshAnswers, Place, Holding
  <2> QED BY <1>6, <2>3, <2>4 DEF RefreshAnswers, queue, bounds
<1>7. ASSUME NEW c \in Caller, Stores(c) \/ Denied(c)
      PROVE  AccountTypeOK'
  <2>1. pc' \in [Caller -> Place]
    BY <1>7 DEF Stores, Denied, Place, Holding
  <2>2. account' \in Row
    <3>1. CASE Stores(c)
      <4>1. copy[c].status \in Status
        BY DEF Row
      <4> QED BY <3>1, <4>1 DEF Stores, WrittenBy, Row
    <3>2. CASE Denied(c)
      BY <3>2 DEF Denied, WrittenBy, Row, Status
    <3> QED BY <1>7, <3>1, <3>2
  <2>3. stale' \subseteq Caller /\ spoiled' \in BOOLEAN
    BY <1>7 DEF Stores, Denied, WrittenBy, Holders
  <2> QED BY <1>7, <2>1, <2>2, <2>3 DEF Stores, Denied, queue, bounds
<1>8. ASSUME NEW c \in Caller, Uploads(c) \/ Polled(c)
      PROVE  AccountTypeOK'
  <2>1. pc' \in [Caller -> Place]
    BY <1>8 DEF Uploads, Polled, Place, Holding
  <2>2. published' \in [Caller -> Nat]
    <3>1. published' = [published EXCEPT ![c] = @ + 1] \/ published' = published
      BY <1>8 DEF Uploads, Polled, history
    <3>2. published \in [Caller -> Nat] /\ published[c] + 1 \in Nat
      OBVIOUS
    <3> HIDE DEF AccountTypeOK, Caller
    <3> QED BY <3>1, <3>2
  <2>3. CASE Uploads(c)
    BY <2>1, <2>2, <2>3 DEF Uploads, row, queue, bounds
  <2>4. CASE Polled(c)
    BY <2>1, <2>2, <2>4 DEF Polled, row, queue, history, bounds
  <2> QED BY <1>8, <2>3, <2>4
<1>9. ASSUME NEW c \in Caller, StatementFails(c)
       PROVE  AccountTypeOK'
  <2>1. pc' \in [Caller -> Place] /\ lost' \in BOOLEAN
    BY <1>9 DEF StatementFails, Place
  <2> QED BY <1>9, <2>1 DEF StatementFails, row, queue, bounds
<1>10. CASE LoginGranted
  <2>1. issued' \in Token /\ valid' \subseteq Token
    BY <1>10 DEF LoginGranted, Token
  <2>2. login' \in {0} \cup Token
    BY <1>10, <2>1 DEF LoginGranted
  <2>3. lost' \in BOOLEAN
    BY <1>10 DEF LoginGranted
  <2> QED BY <1>10, <2>1, <2>2, <2>3 DEF LoginGranted, calls, queue, bounds
<1>11. CASE LoginFails
  BY <1>11 DEF LoginFails, row, calls, queue, bounds
<1>12. CASE LoginStored
  BY <1>12 DEF LoginStored, Decided, Holders, Row, Status, calls, queue, bounds
<1>13. CASE Disable
  <2>1. account' \in Row /\ told' \in Status
    BY <1>13 DEF Disable, Decided, Row, Status
  <2>2. stale' \subseteq Caller /\ disables' \in 0..MaxDisables
    BY <1>13 DEF Disable, Decided, Holders
  <2> QED BY <1>13, <2>1, <2>2 DEF Disable, Decided, calls, queue
<1>14. CASE Expire
  <2>1. account' \in Row
    BY <1>14 DEF Expire, Row
  <2>2. expiries' \in 0..MaxExpiries
    BY <1>14 DEF Expire
  <2> QED BY <1>14, <2>1, <2>2 DEF Expire, calls, queue, history
<1>15. CASE Crash
  <2>1. pc' \in [Caller -> Place]
    BY <1>15 DEF Crash, Place
  <2>2. lane' \in Seq(Post)
    <3>1. PICK front \in Seq(Post) : lane' = front \o lane
      <4>1. <<>> \in Seq(Post) /\ \A p \in Post : <<p>> \in Seq(Post)
        OBVIOUS
      <4> QED BY <1>15, <4>1 DEF Crash
    <3> QED BY <3>1
  <2>3. stalls' \in [Post -> 0..1]
    BY <1>15 DEF Crash
  <2>4. lost' \in BOOLEAN /\ crashes' \in 0..MaxCrashes
    BY <1>15 DEF Crash
  <2> QED BY <1>15, <2>1, <2>2, <2>3, <2>4 DEF Crash, row
<1>16. CASE UNCHANGED vars
  BY <1>16 DEF vars, row, calls, queue, history, bounds
<1> QED BY <1>1, <1>2, <1>3, <1>4, <1>5, <1>6, <1>7, <1>8, <1>9, <1>10, <1>11, <1>12,
           <1>13, <1>14, <1>15, <1>16 DEF Next, Call

-----------------------------------------------------------------------------
(* A step that neither touches the row nor begins or ends a wait for TikTok *)
(* keeps what is known of the row.                                          *)
LEMMA QuietStep ==
  ASSUME RowInv, UNCHANGED <<row, copy, got, login, told, stale, spoiled, lost>>,
         \A c \in Caller :
           /\ pc'[c] \in AtTikTok \/ pc[c] = "storing" => pc'[c] = pc[c]
           /\ pc'[c] \in Holding => pc[c] \in Holding
  PROVE  RowInv'
<1> USE DEF RowInv, row
<1>1. TokensKnown' /\ LoginPending'
  BY DEF TokensKnown, LoginPending
<1>2. CopyCurrent' /\ DeniedHonestly' /\ Rotated'
  BY DEF CopyCurrent, DeniedHonestly, Rotated, AtTikTok
<1>3. StatusAsDecided'
  BY DEF StatusAsDecided
<1>4. Inherited' /\ TokenUsable'
  BY DEF Inherited, TokenUsable, Heir, AtTikTok
<1> QED BY <1>1, <1>2, <1>3, <1>4

(* While TikTok accepts the token of the row, nothing is missing: a call    *)
(* that was not overtaken and holds a refused one got a new one for it.     *)
LEMMA RowIsGood ==
  ASSUME CopyCurrent', Rotated', (account.refresh \in valid)'
  PROVE  Inherited' /\ TokenUsable'
BY DEF CopyCurrent, Rotated, Inherited, TokenUsable, AtTikTok

(* A call that ends leaves nothing behind but what it was about to store.   *)
LEMMA StatementFailsStep ==
  ASSUME AccountTypeOK, RowInv, NEW c \in Caller, StatementFails(c)
  PROVE  RowInv'
<1> USE DEF RowInv
<1>1. /\ pc[c] \in {"reading", "storing", "denied", "promoting"} /\ pc'[c] = "over"
      /\ \A d \in Caller \ {c} : pc'[d] = pc[d]
      /\ UNCHANGED <<account, valid, issued, copy, got, login, told, stale, spoiled>>
      /\ ~lost' => ~lost /\ (pc[c] # "storing" \/ account.refresh \in valid)
  BY DEF StatementFails, AccountTypeOK, Goes, row
<1>2. TokensKnown' /\ LoginPending'
  BY <1>1 DEF TokensKnown, LoginPending
<1>3. CopyCurrent' /\ DeniedHonestly' /\ Rotated'
  BY <1>1 DEF CopyCurrent, DeniedHonestly, Rotated, AtTikTok, Holding
<1>4. StatusAsDecided'
  BY <1>1 DEF StatusAsDecided
<1>5. CASE account.refresh \in valid
  BY <1>1, <1>2, <1>3, <1>4, <1>5, RowIsGood
<1>6. CASE account.refresh \notin valid
  <2>1. ~lost' /\ Heir => Heir'
    BY <1>1, <1>6 DEF Heir
  <2>2. Inherited'
    BY <1>1, <1>6, <2>1 DEF Inherited
  <2>3. TokenUsable'
    BY <1>1, <1>6, <2>1 DEF TokenUsable, Heir
  <2> QED BY <1>2, <1>3, <1>4, <2>2, <2>3
<1> QED BY <1>5, <1>6

LEMMA ReadsRowStep ==
  ASSUME AccountTypeOK, RowInv, NEW c \in Caller, ReadsRow(c)
  PROVE  RowInv'
<1> USE DEF RowInv, ReadsRow, row, Goes
<1>1. /\ stale' = stale \ {c}
      /\ pc[c] = "reading" /\ pc'[c] \in {"over", "refreshing"}
      /\ pc'[c] # "over" => account.status \in Usable /\ copy'[c] = account
      /\ copy'[c] \in {copy[c], account}
      /\ \A d \in Caller \ {c} : pc'[d] = pc[d] /\ copy'[d] = copy[d]
  BY DEF AccountTypeOK
<1>2. TokensKnown' /\ LoginPending'
  BY <1>1 DEF TokensKnown, LoginPending
<1>3. CopyCurrent' /\ DeniedHonestly' /\ Rotated'
  BY <1>1 DEF CopyCurrent, DeniedHonestly, Rotated, AtTikTok, Holding
<1>4. StatusAsDecided'
  BY DEF StatusAsDecided
<1>5. Inherited' /\ TokenUsable'
  BY <1>1 DEF Inherited, TokenUsable, Heir
<1> QED BY <1>2, <1>3, <1>4, <1>5

(* TikTok replaces a token only by one that nobody has, and whoever asked   *)
(* becomes its heir or loses it.                                            *)
LEMMA RefreshStep ==
  ASSUME AccountTypeOK, RowInv, NEW c \in Caller, RefreshAnswers(c)
  PROVE  RowInv'
<1> USE DEF RowInv
<1>1. /\ pc[c] = "refreshing" /\ pc'[c] \in {"storing", "denied", "over"}
      /\ \A d \in Caller \ {c} : pc'[d] = pc[d] /\ got'[d] = got[d]
      /\ UNCHANGED <<account, copy, login, told, stale, spoiled>>
  BY DEF RefreshAnswers, Grants, AccountTypeOK, Goes
<1>2. issued \in Nat /\ copy[c].refresh \in Nat /\ login \in Nat
  BY TikTokAssumption DEF AccountTypeOK, Token, Row
<1>3. \/ UNCHANGED <<valid, issued>> /\ got'[c] \in {got[c], copy[c].refresh}
      \/ /\ issued' = issued + 1 /\ got'[c] \in {got[c], issued + 1}
         /\ valid' = (valid \ {copy[c].refresh}) \cup {issued + 1}
  BY DEF RefreshAnswers, Grants, AccountTypeOK
<1>4. pc'[c] = "storing" => got'[c] \in valid'
  BY DEF RefreshAnswers, Grants, AccountTypeOK, Goes
<1>5. pc'[c] = "denied" => valid' = valid /\ copy[c].refresh \notin valid
  BY DEF RefreshAnswers, AccountTypeOK, Goes
<1>6. ~lost' => ~lost /\ (valid' = valid \/ pc'[c] = "storing")
  BY DEF RefreshAnswers, Goes, AccountTypeOK
<1>7. TokensKnown'
  <2>1. /\ valid \subseteq Nat /\ account.refresh \in Nat
        /\ \A d \in Caller : copy[d].refresh \in Nat /\ got[d] \in Nat
    BY TikTokAssumption DEF AccountTypeOK, Token, Row
  <2>2. issued' \in Nat /\ issued <= issued'
    BY <1>2, <1>3
  <2>3. \A t \in valid' : t <= issued'
    <3>1. \A t \in valid : t \in Nat /\ t <= issued
      BY <2>1 DEF TokensKnown
    <3>2. \A t \in valid : t <= issued'
      BY <1>2, <2>2, <3>1
    <3>3. issued + 1 <= issued' \/ valid' = valid
      BY <1>2, <1>3
    <3> QED BY <1>3, <3>2, <3>3
  <2>4. \A d \in Caller : got'[d] <= issued'
    BY <1>1, <1>2, <1>3, <2>1, <2>2 DEF TokensKnown
  <2>5. account.refresh <= issued' /\ login <= issued' /\ \A d \in Caller : copy[d].refresh <= issued'
    BY <1>2, <2>1, <2>2 DEF TokensKnown
  <2> QED BY <1>1, <2>3, <2>4, <2>5 DEF TokensKnown
<1>8. LoginPending'
  BY <1>1, <1>2, <1>3 DEF LoginPending, TokensKnown
<1>9. CopyCurrent'
  BY <1>1 DEF CopyCurrent, AtTikTok, Holding
<1>10. /\ \A t \in Nat : t <= issued /\ t \notin valid => t \notin valid'
  BY <1>2, <1>3
<1>11. DeniedHonestly'
  <2>1. \A d \in Caller : copy[d].refresh \in Nat /\ copy[d].refresh <= issued
    BY TikTokAssumption DEF AccountTypeOK, Token, Row, TokensKnown
  <2> QED BY <1>1, <1>5, <1>10, <2>1 DEF DeniedHonestly
<1>12. Rotated'
  <2>1. pc'[c] = "storing" /\ got'[c] # copy[c].refresh =>
          valid' = (valid \ {copy[c].refresh}) \cup {issued + 1}
    BY DEF RefreshAnswers, Grants, AccountTypeOK, Goes
  <2>2. copy[c].refresh # issued + 1
    BY <1>2 DEF TokensKnown
  <2>3. \A d \in Caller : copy[d].refresh \in Nat /\ copy[d].refresh <= issued
    BY TikTokAssumption DEF AccountTypeOK, Token, Row, TokensKnown
  <2> QED BY <1>1, <1>10, <2>1, <2>2, <2>3 DEF Rotated
<1>13. StatusAsDecided'
  <2>1. account.refresh \in Nat /\ account.refresh <= issued
    BY TikTokAssumption DEF AccountTypeOK, Token, Row, TokensKnown
  <2> QED BY <1>1, <1>10, <2>1 DEF StatusAsDecided
<1>14. CASE pc'[c] = "storing"
  <2>1. Heir'
    BY <1>4, <1>14 DEF Heir
  <2> QED BY <1>7, <1>8, <1>9, <1>11, <1>12, <1>13, <2>1 DEF Inherited, TokenUsable, Heir
<1>15. CASE pc'[c] # "storing"
  <2>1. Heir /\ valid' = valid => Heir'
    BY <1>1 DEF Heir
  <2>2. Inherited'
    BY <1>1, <1>6, <1>15, <2>1 DEF Inherited
  <2>3. TokenUsable'
    BY <1>1, <1>6, <1>15, <2>1 DEF TokenUsable, Heir
  <2> QED BY <1>7, <1>8, <1>9, <1>11, <1>12, <1>13, <2>2, <2>3
<1> QED BY <1>14, <1>15

(* A write from a copy of the row: what the others hold is overtaken.       *)
LEMMA StoresStep ==
  ASSUME AccountTypeOK, RowInv, NEW c \in Caller, Stores(c)
  PROVE  RowInv'
<1> USE DEF RowInv
<1>1. /\ pc[c] = "storing" /\ pc'[c] \in {"posting", "over"}
      /\ \A d \in Caller \ {c} : pc'[d] = pc[d]
      /\ account'.status = copy[c].status /\ account'.refresh = got[c]
      /\ stale' = stale \cup (Holders \ {c}) /\ spoiled' = (spoiled \/ c \in stale)
      /\ UNCHANGED <<valid, issued, copy, got, login, told, lost>>
  BY DEF Stores, WrittenBy, AccountTypeOK, Goes
<1>2. /\ \A d \in Caller : pc'[d] \in AtTikTok => d \in stale'
      /\ \A d \in Caller \ {c} : pc'[d] \in Holding => d \in stale'
  BY <1>1 DEF AtTikTok, Holders, Holding
<1>3. TokensKnown' /\ LoginPending'
  BY <1>1 DEF TokensKnown, LoginPending
<1>4. copy[c].status \in Usable /\ (c \notin stale => copy[c].status = account.status)
  BY <1>1 DEF CopyCurrent, AtTikTok
<1>5. CopyCurrent' /\ DeniedHonestly' /\ Rotated'
  BY <1>1, <1>2, <1>4 DEF CopyCurrent, DeniedHonestly, Rotated, AtTikTok, Holding
<1>6. StatusAsDecided'
  BY <1>1, <1>4 DEF StatusAsDecided, Usable
<1>7. Inherited'
  BY <1>2 DEF Inherited, AtTikTok
<1>8. TokenUsable'
  <2> SUFFICES ASSUME ~spoiled', ~lost', login' = 0, got[c] \notin valid
               PROVE  Heir'
    BY <1>1 DEF TokenUsable, Heir
  <2>1. Heir
    BY <1>1 DEF Inherited
  <2> QED BY <1>1, <2>1 DEF Heir
<1> QED BY <1>3, <1>5, <1>6, <1>7, <1>8

LEMMA DeniedStep ==
  ASSUME AccountTypeOK, RowInv, NEW c \in Caller, Denied(c)
  PROVE  RowInv'
<1> USE DEF RowInv
<1>1. /\ pc[c] = "denied" /\ pc'[c] = "over"
      /\ \A d \in Caller \ {c} : pc'[d] = pc[d]
      /\ account'.status = "reauthorization_required" /\ account'.refresh = account.refresh
      /\ stale' = stale \cup (Holders \ {c}) /\ spoiled' = (spoiled \/ c \in stale)
      /\ UNCHANGED <<valid, issued, copy, got, login, told, lost>>
  BY DEF Denied, WrittenBy, AccountTypeOK, Row, Goes
<1>2. /\ \A d \in Caller : pc'[d] \in AtTikTok => d \in stale'
      /\ \A d \in Caller \ {c} : pc'[d] \in Holding => d \in stale'
  BY <1>1 DEF AtTikTok, Holders, Holding
<1>3. TokensKnown' /\ LoginPending'
  BY <1>1 DEF TokensKnown, LoginPending
<1>4. CopyCurrent' /\ DeniedHonestly' /\ Rotated'
  BY <1>1, <1>2 DEF CopyCurrent, DeniedHonestly, Rotated, AtTikTok, Holding
<1>5. StatusAsDecided'
  BY <1>1 DEF StatusAsDecided, CopyCurrent, DeniedHonestly, AtTikTok
<1>6. Inherited' /\ TokenUsable'
  BY <1>1, <1>2 DEF Inherited, TokenUsable, AtTikTok, Usable
<1> QED BY <1>3, <1>4, <1>5, <1>6

LEMMA PromotesStep ==
  ASSUME AccountTypeOK, RowInv, NEW c \in Verify, Promotes(c)
  PROVE  RowInv'
<1> USE DEF RowInv
<1>1. /\ c \in Caller /\ pc[c] = "promoting" /\ pc'[c] = "over"
      /\ \A d \in Caller \ {c} : pc'[d] = pc[d]
      /\ account'.status = "controlled_verified" /\ account'.refresh = account.refresh
      /\ stale' = stale \cup (Holders \ {c}) /\ spoiled' = (spoiled \/ c \in stale)
      /\ told' = (IF c \in stale THEN told ELSE "controlled_verified")
      /\ UNCHANGED <<valid, issued, copy, got, login, lost>>
  BY DEF Promotes, WrittenBy, AccountTypeOK, Row, Goes, Caller
<1>2. /\ \A d \in Caller : pc'[d] \in AtTikTok => d \in stale'
      /\ \A d \in Caller \ {c} : pc'[d] \in Holding => d \in stale'
  BY <1>1 DEF AtTikTok, Holders, Holding
<1>3. TokensKnown' /\ LoginPending'
  BY <1>1 DEF TokensKnown, LoginPending
<1>4. CopyCurrent' /\ DeniedHonestly' /\ Rotated'
  BY <1>1, <1>2 DEF CopyCurrent, DeniedHonestly, Rotated, AtTikTok, Holding
<1>5. StatusAsDecided'
  BY <1>1 DEF StatusAsDecided
<1>6. Inherited'
  BY <1>2 DEF Inherited, AtTikTok
<1>7. TokenUsable'
  <2> SUFFICES ASSUME ~spoiled', ~lost', login' = 0, account.refresh \notin valid
               PROVE  Heir'
    BY <1>1 DEF TokenUsable, Heir
  <2>1. account.status \in Usable
    BY <1>1 DEF CopyCurrent, Holding
  <2>2. Heir
    BY <1>1, <2>1 DEF TokenUsable, Heir
  <2> QED BY <1>1, <2>2 DEF Heir
<1> QED BY <1>3, <1>4, <1>5, <1>6, <1>7

LEMMA LoginGrantedStep ==
  ASSUME AccountTypeOK, RowInv, LoginGranted
  PROVE  RowInv'
<1> USE DEF RowInv, LoginGranted, calls
<1>1. /\ issued \in Nat /\ valid \subseteq Nat /\ account.refresh \in Nat
      /\ \A d \in Caller : copy[d].refresh \in Nat /\ got[d] \in Nat
  BY TikTokAssumption DEF AccountTypeOK, Token, Row
<1>2. /\ login = 0 /\ issued' = issued + 1
      /\ valid' = valid \cup {issued + 1} \/ valid' = {issued + 1}
      /\ UNCHANGED <<account, pc, copy, got, told, stale, spoiled>>
  BY <1>1
<1>3. \/ login' = issued + 1 /\ login' # 0
      \/ login' = 0 /\ (~lost' => ~lost /\ valid' = valid \cup {issued + 1})
  <2>1. issued + 1 # 0
    BY <1>1
  <2>2. login' = issued' \/ (login' = 0 /\ lost' = (lost \/ valid' = {issued'}))
    OBVIOUS
  <2>3. valid' # {issued'} => valid' = valid \cup {issued + 1}
    BY <1>2
  <2> QED BY <1>2, <2>1, <2>2, <2>3
<1>4. TokensKnown' /\ LoginPending'
  BY <1>1, <1>2, <1>3 DEF TokensKnown, LoginPending
<1>5. CopyCurrent'
  BY <1>2 DEF CopyCurrent
<1>6. DeniedHonestly' /\ StatusAsDecided' /\ Rotated'
  BY <1>1, <1>2 DEF DeniedHonestly, StatusAsDecided, Rotated, TokensKnown
<1>7. CASE login' # 0
  BY <1>4, <1>5, <1>6, <1>7 DEF Inherited, TokenUsable
<1>8. CASE login' = 0
  <2>1. ~lost' => ~lost /\ valid \subseteq valid'
    BY <1>1, <1>3, <1>8
  <2>2. ~lost' /\ Heir => Heir'
    BY <1>2, <2>1 DEF Heir
  <2>3. Inherited'
    BY <1>2, <2>1, <2>2 DEF Inherited
  <2>4. TokenUsable'
    BY <1>2, <2>1, <2>2 DEF TokenUsable, Heir
  <2> QED BY <1>4, <1>5, <1>6, <2>3, <2>4
<1> QED BY <1>7, <1>8

LEMMA LoginFailsStep ==
  ASSUME AccountTypeOK, RowInv, LoginFails
  PROVE  RowInv'
<1> USE DEF RowInv
<1>1. /\ UNCHANGED <<account, valid, issued, pc, copy, got, told, stale, spoiled>>
      /\ login' = 0 /\ (~lost' => account.refresh \in valid)
  BY DEF LoginFails, row, calls
<1>2. TokensKnown' /\ LoginPending'
  BY <1>1, TikTokAssumption DEF TokensKnown, LoginPending, AccountTypeOK, Token
<1>3. CopyCurrent' /\ DeniedHonestly' /\ Rotated' /\ StatusAsDecided'
  BY <1>1 DEF CopyCurrent, DeniedHonestly, Rotated, StatusAsDecided
<1>4. Inherited' /\ TokenUsable'
  <2>1. CASE lost'
    BY <2>1 DEF Inherited, TokenUsable
  <2>2. CASE ~lost'
    BY <1>1, <1>3, <2>2, RowIsGood
  <2> QED BY <2>1, <2>2
<1> QED BY <1>2, <1>3, <1>4

(* A login or the operator overtakes every call.                            *)
LEMMA DecidedStep ==
  ASSUME AccountTypeOK, RowInv, LoginStored \/ Disable
  PROVE  RowInv'
<1> USE DEF RowInv
<1>1. /\ account'.status = told' /\ ~spoiled'
      /\ stale' = stale \cup Holders
      /\ UNCHANGED <<valid, issued, pc, copy, got>>
  BY DEF LoginStored, Disable, Decided, calls, AccountTypeOK, Row
<1>2. \/ login # 0 /\ account'.refresh = login /\ login' = 0
      \/ /\ account'.status = "disabled" /\ account'.refresh = account.refresh
         /\ login' = login /\ lost' = lost
  BY DEF LoginStored, Disable, Decided, AccountTypeOK, Row
<1>3. \A d \in Caller : pc'[d] \in AtTikTok \cup Holding => d \in stale'
  BY <1>1 DEF AtTikTok, Holders, Holding
<1>4. TokensKnown' /\ LoginPending'
  BY <1>1, <1>2, TikTokAssumption DEF TokensKnown, LoginPending, AccountTypeOK, Token
<1>5. CopyCurrent' /\ DeniedHonestly' /\ Rotated'
  BY <1>1, <1>3 DEF CopyCurrent, DeniedHonestly, Rotated
<1>6. StatusAsDecided'
  BY <1>1 DEF StatusAsDecided
<1>7. Inherited'
  BY <1>3 DEF Inherited, AtTikTok
<1>8. TokenUsable'
  BY <1>1, <1>2 DEF TokenUsable, LoginPending, Usable
<1> QED BY <1>4, <1>5, <1>6, <1>7, <1>8

LEMMA ExpireStep ==
  ASSUME AccountTypeOK, RowInv, Expire
  PROVE  RowInv'
<1> USE DEF RowInv
<1>1. /\ account'.status = account.status /\ account'.refresh = account.refresh
      /\ UNCHANGED <<valid, issued, pc, copy, got, login, told, stale, spoiled, lost>>
  BY DEF Expire, calls, history, AccountTypeOK, Row
<1>2. TokensKnown' /\ LoginPending' /\ CopyCurrent' /\ DeniedHonestly' /\ Rotated'
  BY <1>1 DEF TokensKnown, LoginPending, CopyCurrent, DeniedHonestly, Rotated
<1>3. StatusAsDecided' /\ Inherited' /\ TokenUsable'
  BY <1>1 DEF StatusAsDecided, Inherited, Heir, TokenUsable
<1> QED BY <1>2, <1>3

(* A crash loses the tokens that a post or a login was about to store.      *)
LEMMA CrashRowStep ==
  ASSUME AccountTypeOK, RowInv, Crash
  PROVE  RowInv'
<1> USE DEF RowInv
<1>1. /\ UNCHANGED <<account, valid, issued, copy, got, told, stale, spoiled>>
      /\ login' = 0
  BY DEF Crash, row
<1>2. \A c \in Caller : pc'[c] \in {pc[c], "queued", "over"}
  BY DEF Crash
<1>3. TokensKnown' /\ LoginPending'
  BY <1>1, TikTokAssumption DEF TokensKnown, LoginPending, AccountTypeOK, Token
<1>4. CopyCurrent' /\ DeniedHonestly' /\ Rotated'
  BY <1>1, <1>2 DEF CopyCurrent, DeniedHonestly, Rotated, AtTikTok, Holding
<1>5. StatusAsDecided'
  BY <1>1 DEF StatusAsDecided
<1>6. CASE account.refresh \in valid
  BY <1>1, <1>3, <1>4, <1>5, <1>6, RowIsGood
<1>7. CASE account.refresh \notin valid
  <2>1. ~lost' => ~lost /\ login = 0
    BY <1>7 DEF Crash
  <2>2. ~lost' => \A c \in Caller : pc[c] = "storing" => pc'[c] = "storing"
    BY <1>7 DEF Crash, Working, Holding
  <2>3. ~lost' /\ Heir => Heir'
    BY <1>1, <2>2 DEF Heir
  <2>4. Inherited'
    BY <1>1, <1>2, <2>1, <2>3 DEF Inherited
  <2>5. TokenUsable'
    BY <1>1, <2>1, <2>3 DEF TokenUsable, Heir
  <2> QED BY <1>3, <1>4, <1>5, <2>4, <2>5
<1> QED BY <1>6, <1>7

LEMMA RowStep ==
  ASSUME AccountTypeOK, RowInv, LaneWaits, [Next]_vars
  PROVE  RowInv'
<1>1. ASSUME NEW p \in Post, PublisherChecks(p) \/ Enqueue(p)
      PROVE  RowInv'
  <2>1. UNCHANGED <<row, copy, got, login, told, stale, spoiled, lost>>
    BY <1>1 DEF PublisherChecks, Enqueue, history
  <2>2. pc[p] \in {"idle", "checked"} /\ pc'[p] \in {"checked", "queued", "over"}
    BY <1>1 DEF PublisherChecks, Enqueue, Goes, AccountTypeOK, Caller
  <2>3. \A c \in Caller \ {p} : pc'[c] = pc[c]
    BY <1>1 DEF PublisherChecks, Enqueue, Goes, AccountTypeOK
  <2> QED BY <2>1, <2>2, <2>3, QuietStep DEF AtTikTok, Holding
<1>2. CASE Take
  <2>1. UNCHANGED <<row, copy, got, login, told, stale, spoiled, lost>>
    BY <1>2 DEF Take, history
  <2>2. Head(lane) \in Caller /\ pc[Head(lane)] = "queued"
    BY <1>2 DEF Take, LaneWaits, AccountTypeOK, Caller
  <2>3. pc'[Head(lane)] = "reading" /\ \A c \in Caller \ {Head(lane)} : pc'[c] = pc[c]
    BY <1>2, <2>2 DEF Take, Goes, AccountTypeOK
  <2> QED BY <2>1, <2>2, <2>3, QuietStep DEF AtTikTok, Holding
<1>3. ASSUME NEW v \in Verify, VerifyChecks(v)
      PROVE  RowInv'
  <2>1. UNCHANGED <<row, copy, got, login, told, stale, spoiled, lost>>
    BY <1>3 DEF VerifyChecks, history
  <2>2. pc[v] = "idle" /\ pc'[v] \in {"reading", "over"}
    BY <1>3 DEF VerifyChecks, Goes, AccountTypeOK, Caller
  <2>3. \A c \in Caller \ {v} : pc'[c] = pc[c]
    BY <1>3 DEF VerifyChecks, Goes, AccountTypeOK
  <2> QED BY <2>2, <2>1, <2>3, QuietStep DEF AtTikTok, Holding
<1>4. ASSUME NEW c \in Caller, Uploads(c) \/ Polled(c)
      PROVE  RowInv'
  <2>1. UNCHANGED <<row, copy, got, login, told, stale, spoiled, lost>>
    BY <1>4 DEF Uploads, Polled, history
  <2>2. pc[c] \in {"posting", "polling"} /\ pc'[c] \in {"polling", "promoting", "over"}
    BY <1>4 DEF Uploads, Polled, Goes, AccountTypeOK
  <2>3. \A d \in Caller \ {c} : pc'[d] = pc[d]
    BY <1>4 DEF Uploads, Polled, Goes, AccountTypeOK
  <2> QED BY <2>1, <2>2, <2>3, QuietStep DEF AtTikTok, Holding
<1>5. CASE UNCHANGED vars
  BY <1>5, QuietStep DEF vars, row, calls, history
<1> QED BY <1>1, <1>2, <1>3, <1>4, <1>5, ReadsRowStep, RefreshStep, StoresStep, DeniedStep,
           StatementFailsStep, PromotesStep, LoginGrantedStep, LoginFailsStep, DecidedStep, ExpireStep, CrashRowStep
        DEF Next, Call
-----------------------------------------------------------------------------
Attempting == {"reading", "posting"} \cup AtTikTok

(* Where one post may go without the lane noticing.                         *)
Unnoticed(p) ==
  /\ pc[p] = "queued" <=> pc'[p] = "queued"
  /\ pc'[p] \in {"idle", "checked"} => pc[p] \in {"idle", "checked"}
  /\ pc'[p] \in Working => pc[p] \in Working
  /\ pc'[p] \in Attempting => pc[p] \in Attempting

(* Only a post that joins, is taken, is uploaded or is cut off matters.     *)
LEMMA LaneQuiet ==
  ASSUME AccountTypeOK, LaneInv, UNCHANGED <<lane, stalls, published>>,
         \A p \in Post : Unnoticed(p)
  PROVE  LaneInv'
<1> USE DEF LaneInv, Unnoticed
<1>1. LaneWaits'
  <2>1. \A i \in DOMAIN lane : lane[i] \in Post
    BY DEF AccountTypeOK
  <2> QED BY <2>1 DEF LaneWaits
<1>2. OnePostAtATime'
  BY DEF OnePostAtATime
<1>3. AttemptsCounted' /\ PublishedOnce'
  BY DEF AttemptsCounted, PublishedOnce, Attempting
<1> QED BY <1>1, <1>2, <1>3

LEMMA EnqueueStep ==
  ASSUME AccountTypeOK, LaneInv, NEW p \in Post, Enqueue(p)
  PROVE  LaneInv'
<1> USE DEF LaneInv
<1>1. /\ pc[p] = "checked" /\ pc'[p] = "queued" /\ lane' = Append(lane, p)
      /\ \A q \in Post \ {p} : pc'[q] = pc[q]
      /\ UNCHANGED <<stalls, published>>
  BY DEF Enqueue, Goes, AccountTypeOK, history, Caller
<1>2. lane \in Seq(Post) /\ Len(lane) \in Nat /\ DOMAIN lane = 1..Len(lane)
  BY DEF AccountTypeOK
<1>3. LaneWaits'
  <2>1. /\ DOMAIN lane' = 1..(Len(lane) + 1) /\ lane'[Len(lane) + 1] = p
        /\ \A i \in DOMAIN lane : lane'[i] = lane[i]
    BY <1>1, <1>2
  <2>2. \A i \in DOMAIN lane : lane[i] \in Post /\ pc[lane[i]] = "queued" /\ lane[i] # p
    BY <1>1, <1>2 DEF LaneWaits
  <2>3. \A i \in DOMAIN lane' : i \in DOMAIN lane \/ i = Len(lane) + 1
    BY <1>2, <2>1
  <2> QED BY <1>1, <2>1, <2>2, <2>3 DEF LaneWaits
<1>4. OnePostAtATime'
  BY <1>1 DEF OnePostAtATime, Working, Holding
<1>5. AttemptsCounted' /\ PublishedOnce'
  <2>1. \A q \in Post : stalls[q] \in Nat
    BY DEF AccountTypeOK
  <2>2. published[p] = 0
    BY <1>1 DEF AttemptsCounted
  <2> QED BY <1>1, <2>1, <2>2 DEF AttemptsCounted, PublishedOnce, AtTikTok
<1> QED BY <1>3, <1>4, <1>5

LEMMA TakeStep ==
  ASSUME AccountTypeOK, LaneInv, Take
  PROVE  LaneInv'
<1> USE DEF LaneInv
<1> DEFINE p == Head(lane)
<1>1. /\ lane \in Seq(Post) /\ lane # <<>> /\ Len(lane) \in Nat \ {0}
      /\ p \in Post /\ p = lane[1] /\ 1 \in DOMAIN lane
  BY DEF Take, AccountTypeOK
<1>2. /\ pc'[p] = "reading" /\ lane' = Tail(lane)
      /\ \A q \in Post \ {p} : pc'[q] = pc[q]
      /\ \A q \in Post : pc[q] \notin Working
      /\ UNCHANGED <<stalls, published>>
  BY <1>1 DEF Take, Goes, AccountTypeOK, history, Caller
<1>3. pc[p] = "queued"
  BY <1>1 DEF LaneWaits
<1>4. LaneWaits'
  <2>1. \A i \in DOMAIN lane' : i + 1 \in DOMAIN lane /\ lane'[i] = lane[i + 1] /\ i + 1 # 1
    BY <1>1, <1>2
  <2>2. \A i \in DOMAIN lane' : i \in Nat /\ lane'[i] \in Post \ {p}
    BY <1>1, <1>2, <2>1 DEF LaneWaits
  <2>3. \A i \in DOMAIN lane' : pc'[lane'[i]] = "queued"
    BY <1>2, <2>1, <2>2 DEF LaneWaits
  <2>4. \A i, j \in DOMAIN lane' : lane'[i] = lane'[j] => i + 1 = j + 1
    BY <2>1 DEF LaneWaits
  <2> QED BY <2>2, <2>3, <2>4 DEF LaneWaits
<1>5. OnePostAtATime'
  BY <1>2 DEF OnePostAtATime
<1>6. AttemptsCounted' /\ PublishedOnce'
  BY <1>1, <1>2, <1>3 DEF AttemptsCounted, PublishedOnce, AtTikTok
<1> QED BY <1>4, <1>5, <1>6

LEMMA UploadsStep ==
  ASSUME AccountTypeOK, LaneInv, NEW c \in Caller, Uploads(c)
  PROVE  LaneInv'
<1> USE DEF LaneInv
<1>1. /\ pc[c] = "posting" /\ pc'[c] \in {"polling", "over"}
      /\ \A d \in Caller \ {c} : pc'[d] = pc[d] /\ published'[d] = published[d]
      /\ published'[c] \in {published[c], published[c] + 1}
      /\ UNCHANGED <<lane, stalls>>
  BY DEF Uploads, Goes, AccountTypeOK, queue
<1>2. \A p \in Post : p \in Caller /\ published[p] \in Nat /\ stalls[p] \in Nat
  BY DEF AccountTypeOK, Caller
<1>3. LaneWaits'
  <2>1. \A i \in DOMAIN lane : lane[i] \in Caller /\ lane[i] # c
    BY <1>1 DEF LaneWaits, AccountTypeOK, Caller
  <2> QED BY <1>1, <2>1 DEF LaneWaits
<1>4. OnePostAtATime'
  BY <1>1, <1>2 DEF OnePostAtATime, Working, Holding
<1>5. AttemptsCounted' /\ PublishedOnce'
  BY <1>1, <1>2 DEF AttemptsCounted, PublishedOnce, AtTikTok
<1> QED BY <1>3, <1>4, <1>5

(* The post that was cut off is at the front again, and only one was.       *)
LEMMA CrashLaneStep ==
  ASSUME AccountTypeOK, LaneInv, Crash
  PROVE  LaneInv'
<1> USE DEF LaneInv
<1> DEFINE busy == {p \in Post : pc[p] \in Working}
           again == {p \in busy : stalls[p] = 0}
<1>1. \A p \in Post :
        /\ p \in Caller /\ stalls[p] \in 0..1 /\ published[p] \in Nat
        /\ pc'[p] = (IF p \in again THEN "queued"
                     ELSE IF p \in busy \/ pc[p] = "checked" THEN "over" ELSE pc[p])
        /\ stalls'[p] = (IF p \in again THEN 1 ELSE stalls[p])
  BY DEF Crash, AccountTypeOK, Caller
<1>2. published' = published /\ lane \in Seq(Post)
  BY DEF Crash, AccountTypeOK
<1>3. \A p, q \in again : p = q
  BY DEF OnePostAtATime
<1>4. \A i \in DOMAIN lane : lane[i] \in Post /\ pc[lane[i]] = "queued" /\ lane[i] \notin busy
  BY <1>2 DEF LaneWaits, Working, Holding
<1>5. LaneWaits'
  <2>1. CASE again = {}
    <3>1. lane' = <<>> \o lane
      BY <2>1 DEF Crash
    <3>2. lane' = lane
      BY <1>2, <3>1
    <3> QED BY <1>1, <1>4, <2>1, <3>2 DEF LaneWaits
  <2>2. CASE again # {}
    <3>1. PICK p \in again : lane' = <<p>> \o lane
      <4>1. PICK front \in {<<>>} \cup {<<p>> : p \in again} :
              Len(front) = 1 /\ lane' = front \o lane
        BY <2>2 DEF Crash
      <4>2. front # <<>>
        BY <4>1
      <4> QED BY <4>1, <4>2
    <3>2. Len(lane) \in Nat /\ DOMAIN lane = 1..Len(lane) /\ p \in Post
      BY <1>2
    <3>3. /\ DOMAIN lane' = 1..(Len(lane) + 1) /\ lane'[1] = p
          /\ \A i \in DOMAIN lane' : i # 1 => i - 1 \in DOMAIN lane /\ lane'[i] = lane[i - 1]
      <4>1. <<p>> \in Seq(Post) /\ Len(<<p>>) = 1 /\ <<p>>[1] = p
        BY <3>2
      <4>2. /\ lane' \in Seq(Post) /\ Len(lane') = 1 + Len(lane)
            /\ \A i \in 1..(1 + Len(lane)) :
                 lane'[i] = IF i <= 1 THEN <<p>>[i] ELSE lane[i - 1]
        BY <1>2, <3>1, <3>2, <4>1
      <4>3. DOMAIN lane' = 1..(Len(lane) + 1)
        BY <3>2, <4>2
      <4>4. \A i \in 1..(Len(lane) + 1) : i \in Nat /\ (i <= 1 => i = 1) /\ (i # 1 => i - 1 \in 1..Len(lane))
        BY <3>2
      <4>5. lane'[1] = p
        BY <3>2, <4>1, <4>2
      <4>6. \A i \in 1..(Len(lane) + 1) : i # 1 => lane'[i] = lane[i - 1]
        BY <3>2, <4>2, <4>4
      <4>7. \A i \in DOMAIN lane' : i # 1 => i - 1 \in DOMAIN lane /\ lane'[i] = lane[i - 1]
        BY <3>2, <4>3, <4>4, <4>6
      <4> QED BY <4>3, <4>5, <4>7
    <3>4. \A i \in DOMAIN lane' : i \in Nat /\ (i # 1 => lane'[i] # p)
      BY <1>4, <3>2, <3>3
    <3>5. \A i \in DOMAIN lane' : pc'[lane'[i]] = "queued"
      BY <1>1, <1>4, <3>2, <3>3
    <3>6. \A i, j \in DOMAIN lane' : lane'[i] = lane'[j] => i = j
      <4> SUFFICES ASSUME NEW i \in DOMAIN lane', NEW j \in DOMAIN lane', lane'[i] = lane'[j]
                   PROVE  i = j
        OBVIOUS
      <4>1. CASE i = 1 \/ j = 1
        BY <3>3, <3>4, <4>1
      <4>2. CASE i # 1 /\ j # 1
        <5>1. i - 1 = j - 1
          BY <3>3, <4>2 DEF LaneWaits
        <5> QED BY <3>4, <5>1
      <4> QED BY <4>1, <4>2
    <3> QED BY <3>5, <3>6 DEF LaneWaits
  <2> QED BY <2>1, <2>2
<1>6. OnePostAtATime'
  BY <1>1 DEF OnePostAtATime, Working, Holding
<1>7. AttemptsCounted' /\ PublishedOnce'
  <2> SUFFICES ASSUME NEW p \in Post
               PROVE  /\ pc'[p] \in {"idle", "checked"} => published[p] = 0
                      /\ pc'[p] \in {"queued"} \cup Attempting => published[p] <= stalls'[p]
                      /\ published[p] <= 1 + stalls'[p]
    BY <1>2 DEF AttemptsCounted, PublishedOnce, Attempting
  <2>1. CASE p \in again
    BY <1>1, <2>1 DEF PublishedOnce
  <2>2. CASE p \notin again
    BY <1>1, <2>2 DEF PublishedOnce, AttemptsCounted, Working, Holding, Attempting, AtTikTok
  <2> QED BY <2>1, <2>2
<1> QED BY <1>5, <1>6, <1>7

LEMMA LaneStep ==
  ASSUME AccountTypeOK, LaneInv, [Next]_vars
  PROVE  LaneInv'
<1> USE DEF Unnoticed
<1> \A p \in Post : p \in Caller /\ p \notin Verify
  BY TikTokAssumption DEF Caller
<1>1. ASSUME NEW p \in Post, PublisherChecks(p)
      PROVE  LaneInv'
  BY <1>1, LaneQuiet DEF PublisherChecks, Goes, AccountTypeOK, queue, history, Working, Holding,
     Attempting, AtTikTok
<1>2. ASSUME NEW v \in Verify, VerifyChecks(v) \/ Promotes(v)
      PROVE  LaneInv'
  <2>1. UNCHANGED <<lane, stalls, published>>
    BY <1>2 DEF VerifyChecks, Promotes, queue, history
  <2>2. \A p \in Post : pc'[p] = pc[p]
    BY <1>2 DEF VerifyChecks, Promotes, Goes, AccountTypeOK
  <2> QED BY <2>1, <2>2, LaneQuiet
<1>3. ASSUME NEW c \in Caller,
             \/ ReadsRow(c) \/ RefreshAnswers(c) \/ Stores(c) \/ Denied(c)
             \/ Polled(c) \/ StatementFails(c)
      PROVE  LaneInv'
  <2>1. UNCHANGED <<lane, stalls, published>>
    BY <1>3 DEF ReadsRow, RefreshAnswers, Stores, Denied, Polled, StatementFails, queue, history
  <2>2. \A d \in Caller \ {c} : pc'[d] = pc[d]
    BY <1>3 DEF ReadsRow, RefreshAnswers, Stores, Denied, Polled, StatementFails, Goes, AccountTypeOK
  <2>3. /\ pc[c] \in Working
        /\ pc'[c] \in (Working \ {"reading"}) \cup {"over"}
        /\ pc'[c] \in Attempting => pc[c] \in Attempting
    <3>1. CASE ReadsRow(c)
      BY <3>1 DEF ReadsRow, Goes, AccountTypeOK, Working, Holding, Attempting
    <3>2. CASE RefreshAnswers(c)
      BY <3>2 DEF RefreshAnswers, Goes, AccountTypeOK, Working, Holding, Attempting, AtTikTok
    <3>3. CASE Stores(c) \/ Denied(c)
      BY <3>3 DEF Stores, Denied, Goes, AccountTypeOK, Working, Holding, Attempting, AtTikTok
    <3>4. CASE Polled(c)
      BY <3>4 DEF Polled, Goes, AccountTypeOK, Working, Holding, Attempting, AtTikTok
    <3>5. CASE StatementFails(c)
      BY <3>5 DEF StatementFails, Goes, AccountTypeOK, Working, Holding, Attempting, AtTikTok
    <3> QED BY <1>3, <3>1, <3>2, <3>3, <3>4, <3>5
  <2>4. \A p \in Post : Unnoticed(p)
    BY <2>2, <2>3 DEF Working, Holding
  <2> QED BY <2>1, <2>4, LaneQuiet
<1>4. CASE LoginGranted \/ LoginStored \/ LoginFails \/ Disable \/ Expire \/ UNCHANGED vars
  <2>1. UNCHANGED <<pc, lane, stalls, published>>
    BY <1>4 DEF LoginGranted, LoginStored, LoginFails, Disable, Expire, vars, calls, queue, history
  <2> QED BY <2>1, LaneQuiet
<1> QED BY <1>1, <1>2, <1>3, <1>4, EnqueueStep, TakeStep, UploadsStep, CrashLaneStep DEF Next, Call

-----------------------------------------------------------------------------
(* What TikTokAccounts keeps in every state.                                *)
THEOREM AccountInvariant == Spec => []AccountInv
<1>1. Init => AccountInv
  BY InitEstablishes
<1>2. AccountInv /\ [Next]_vars => AccountInv'
  BY TypeStep, RowStep, LaneStep DEF AccountInv, LaneInv
<1> QED BY <1>1, <1>2, PTL DEF Spec

(* Row, tokens, calls and lane are well typed (tiktok-accounts.ts:6-27).    *)
THEOREM AccountTypeCorrect == Spec => []AccountTypeOK
<1>1. AccountInv => AccountTypeOK
  BY DEF AccountInv
<1> QED BY <1>1, AccountInvariant, PTL

(* The status of the row is a decision, or a refusal of the stored token,   *)
(* unless persistRefreshedTokens, "invalid_grant" or a verification wrote   *)
(* from a copy that had been overtaken (tiktok-accounts.ts:280).            *)
THEOREM StatusIsDecided == Spec => []StatusAsDecided
<1>1. AccountInv => StatusAsDecided
  BY DEF AccountInv, RowInv
<1> QED BY <1>1, AccountInvariant, PTL

(* However many refreshes race and whatever statement fails: without an     *)
(* overtaken write, and until the answer or the write with a new token is   *)
(* lost, the account keeps a refresh token that TikTok accepts              *)
(* (tiktok-accounts.ts:259-282, :89-133).                                   *)
THEOREM TokenSurvives == Spec => []TokenUsable
<1>1. AccountInv => TokenUsable
  BY DEF AccountInv, RowInv
<1> QED BY <1>1, AccountInvariant, PTL

(* A request reaches TikTok at most once more than it was cut off and       *)
(* queued again (tiktok-direct-post-queue.ts:40).                           *)
THEOREM PostsAreCounted == Spec => []PublishedOnce
<1>1. AccountInv => PublishedOnce
  BY DEF AccountInv, LaneInv
<1> QED BY <1>1, AccountInvariant, PTL

(* The lane has one post of the account under way, across crashes too       *)
(* (tiktok-direct-post-queue.ts:55).                                        *)
THEOREM LaneIsSequential == Spec => []OnePostAtATime
<1>1. AccountInv => OnePostAtATime
  BY DEF AccountInv, LaneInv
<1> QED BY <1>1, AccountInvariant, PTL
-----------------------------------------------------------------------------
(***************************************************************************)
(* Under FairSpec the lane moves.  A post goes through its places in       *)
(* order, so the worker becomes free, and then it takes the head.          *)
(***************************************************************************)
(* No post promotes the account.                                            *)
NeverPromotes == \A p \in Post : pc[p] # "promoting"

LEMMA NeverPromotesStep == AccountTypeOK /\ NeverPromotes /\ [Next]_vars => NeverPromotes'
<1> SUFFICES ASSUME AccountTypeOK, NeverPromotes, [Next]_vars, NEW p \in Post
             PROVE  pc'[p] # "promoting"
  BY DEF NeverPromotes
<1> USE DEF NeverPromotes, Goes
<1>1. pc \in [Caller -> Place] /\ p \in Caller
  BY DEF AccountTypeOK, Caller
<1>2. ASSUME NEW q \in Post, PublisherChecks(q) \/ Enqueue(q) PROVE pc'[p] # "promoting"
  BY <1>1, <1>2 DEF PublisherChecks, Enqueue
<1>3. CASE Take
  BY <1>1, <1>3 DEF Take
<1>4. ASSUME NEW v \in Verify, VerifyChecks(v) \/ Promotes(v) PROVE pc'[p] # "promoting"
  BY <1>1, <1>4 DEF VerifyChecks, Promotes
<1>5. ASSUME NEW c \in Caller, Call(c) PROVE pc'[p] # "promoting"
  BY <1>1, <1>5, TikTokAssumption
     DEF Call, ReadsRow, RefreshAnswers, Stores, Denied, Uploads, Polled, StatementFails
<1>6. CASE Crash
  BY <1>1, <1>6 DEF Crash
<1>7. CASE UNCHANGED vars \/ LoginGranted \/ LoginStored \/ LoginFails \/ Disable \/ Expire
  BY <1>7 DEF vars, calls, LoginGranted, LoginStored, LoginFails, Disable, Expire
<1>8. QED
  BY <1>2, <1>3, <1>4, <1>5, <1>6, <1>7 DEF Next

WorkerInv == AccountInv /\ NeverPromotes

(* Where the post that the worker is busy with may be after a call of it.   *)
After(s) ==
  CASE s = "reading" -> {"refreshing", "over"}
    [] s = "refreshing" -> {"storing", "denied", "over"}
    [] s = "storing" -> {"posting", "over"}
    [] s = "posting" -> {"polling", "over"}
    [] OTHER -> {"over"}

(* A call of the worker is one of the post it is busy with.                 *)
LEMMA CallMoves ==
  ASSUME WorkerInv, NEW p \in Post, NEW c \in Caller, Call(c), pc[p] \in Working
  PROVE  /\ c \in Post => c = p
         /\ c = p => pc'[p] \in After(pc[p])
         /\ c # p => pc'[p] = pc[p]
         /\ \A q \in Post \ {c} : pc'[q] = pc[q]
<1>1. pc \in [Caller -> Place] /\ p \in Caller /\ Post \subseteq Caller
  BY DEF WorkerInv, AccountInv, AccountTypeOK, Caller
<1>2. pc[c] \in Working
  BY DEF Call, ReadsRow, RefreshAnswers, Stores, Denied, Uploads, Polled, StatementFails, Working, Holding
<1>3. c \in Post => c = p
  BY <1>2 DEF WorkerInv, AccountInv, LaneInv, OnePostAtATime
<1>4. \E s \in Place : Goes(c, s) /\ (c \in Post => s \in After(pc[c]))
  BY TikTokAssumption
     DEF Call, ReadsRow, RefreshAnswers, Stores, Denied, Uploads, Polled, StatementFails, After, Place, Holding
<1>5. QED
  BY <1>1, <1>3, <1>4 DEF Goes

(* A step while the worker is busy: nothing changes for it, the post goes   *)
(* on, or the process dies.                                                 *)
LEMMA BusyMoves ==
  ASSUME WorkerInv, [Next]_vars, NEW p \in Post, pc[p] \in Working
  PROVE  \/ ~Busy(Post)' /\ ~open'
         \/ pc'[p] = pc[p] /\ ~Works
         \/ pc'[p] \in After(pc[p]) /\ \A q \in Post \ {p} : pc'[q] \notin Working
<1>1. pc \in [Caller -> Place] /\ p \in Caller /\ Post \subseteq Caller
  BY DEF WorkerInv, AccountInv, AccountTypeOK, Caller
<1>2. pc[p] \notin After(pc[p]) /\ \A q \in Post \ {p} : pc[q] \notin Working
  BY DEF After, Working, Holding, WorkerInv, AccountInv, LaneInv, OnePostAtATime
<1>3. ASSUME Works PROVE pc'[p] \in After(pc[p]) /\ \A q \in Post \ {p} : pc'[q] = pc[q]
  BY <1>1, <1>3, CallMoves DEF Works
<1>4. ASSUME pc'[p] = pc[p]
      PROVE  pc'[p] = pc[p] /\ ~Works
  BY <1>2, <1>3, <1>4
<1>5. ASSUME NEW q \in Post, PublisherChecks(q) \/ Enqueue(q) PROVE pc'[p] = pc[p]
  BY <1>1, <1>5 DEF PublisherChecks, Enqueue, Goes, Working, Holding
<1>6. ~Take
  BY DEF Take
<1>7. ASSUME NEW v \in Verify, VerifyChecks(v) \/ Promotes(v) PROVE pc'[p] = pc[p]
  BY <1>1, <1>7, TikTokAssumption DEF VerifyChecks, Promotes, Goes
<1>8. ASSUME NEW c \in Caller, Call(c)
      PROVE  \/ pc'[p] = pc[p]
             \/ pc'[p] \in After(pc[p]) /\ \A q \in Post \ {p} : pc'[q] \notin Working
  BY <1>2, <1>8, CallMoves
<1>9. CASE Crash
  BY <1>1, <1>9 DEF Crash, Busy, Working, Holding
<1>10. ASSUME UNCHANGED vars \/ LoginGranted \/ LoginStored \/ LoginFails \/ Disable \/ Expire
       PROVE  pc'[p] = pc[p]
  BY <1>10 DEF vars, calls, LoginGranted, LoginStored, LoginFails, Disable, Expire
<1>11. QED
  BY <1>4, <1>5, <1>6, <1>7, <1>8, <1>9, <1>10 DEF Next

(* Of the posts of P, one is at the place s.                                *)
At(P, s) == \E p \in P : pc[p] = s

(* The worker does not stay with one of the posts of P for ever.            *)
Frees(P) == Busy(P) ~> ~Busy(P)

(* Every place is left for a later one: no post goes back, not even after   *)
(* "invalid_grant".                                                         *)
LEMMA BusyEnds ==
  ASSUME NEW P \in SUBSET Post
  PROVE  FairSpec /\ []WorkerLive => Frees(P)
<1> DEFINE Reading == At(P, "reading")
           Refreshing == At(P, "refreshing")
           Storing == At(P, "storing")
           Denying == At(P, "denied")
           Posting == At(P, "posting")
           Polling == At(P, "polling")
           Free == ~Busy(P)
<1>1. Spec => []WorkerInv
  <2>1. Init => NeverPromotes
    BY DEF Init, NeverPromotes, Caller
  <2>2. AccountInv => AccountTypeOK
    BY DEF AccountInv
  <2>3. QED
    BY <2>1, <2>2, NeverPromotesStep, AccountInvariant, PTL DEF Spec, WorkerInv
<1>2. WorkerInv =>
        Free \/ Reading \/ Refreshing \/ Storing \/ Denying \/ Posting \/ Polling
  BY DEF Busy, At, Working, Holding, WorkerInv, NeverPromotes
<1>3. WorkerLive /\ ~Free => ENABLED <<Works>>_vars
  BY DEF WorkerLive, Busy
<1>4. Reading \/ Refreshing \/ Storing \/ Denying \/ Posting \/ Polling => ~Free
  BY DEF Busy, At, Working, Holding
<1>5. WorkerInv /\ [Next]_vars =>
        /\ Reading => (Reading' /\ ~Works) \/ Refreshing' \/ Free'
        /\ Refreshing => (Refreshing' /\ ~Works) \/ Storing' \/ Denying' \/ Free'
        /\ Storing => (Storing' /\ ~Works) \/ Posting' \/ Free'
        /\ Denying => (Denying' /\ ~Works) \/ Free'
        /\ Posting => (Posting' /\ ~Works) \/ Polling' \/ Free'
        /\ Polling => (Polling' /\ ~Works) \/ Free'
  <2> SUFFICES ASSUME WorkerInv, [Next]_vars, NEW p \in P, pc[p] \in Working, ~Free'
               PROVE  \/ pc'[p] = pc[p] /\ ~Works
                      \/ pc'[p] \in After(pc[p]) /\ pc'[p] # "over"
    BY DEF At, After, Working, Holding
  <2>1. PICK q \in P : pc'[q] \in Working
    BY DEF Busy
  <2>2. Busy(Post)'
    BY <2>1 DEF Busy
  <2>3. "over" \notin Working
    BY DEF Working, Holding
  <2>4. p \in Post /\ q \in Post
    OBVIOUS
  <2>5. QED
    BY <2>1, <2>2, <2>3, <2>4, BusyMoves
<1> HIDE DEF Reading, Refreshing, Storing, Denying, Posting, Polling, Free
<1> DEFINE Fair == FairSpec /\ []WorkerLive
<1>6. Fair => (Polling ~> Free)
  BY <1>1, <1>3, <1>4, <1>5, PTL DEF FairSpec, Spec
<1>7. Fair => (Posting ~> Polling \/ Free)
  BY <1>1, <1>3, <1>4, <1>5, PTL DEF FairSpec, Spec
<1>8. Fair => (Denying ~> Free)
  BY <1>1, <1>3, <1>4, <1>5, PTL DEF FairSpec, Spec
<1>9. Fair => (Storing ~> Posting \/ Free)
  BY <1>1, <1>3, <1>4, <1>5, PTL DEF FairSpec, Spec
<1>10. Fair => (Refreshing ~> Storing \/ Denying \/ Free)
  BY <1>1, <1>3, <1>4, <1>5, PTL DEF FairSpec, Spec
<1>11. Fair => (Reading ~> Refreshing \/ Free)
  BY <1>1, <1>3, <1>4, <1>5, PTL DEF FairSpec, Spec
<1>12. Fair => (~Free ~> Free)
  BY <1>1, <1>2, <1>6, <1>7, <1>8, <1>9, <1>10, <1>11, PTL DEF FairSpec
<1>13. QED
  BY <1>12, PTL DEF Free, Fair, Frees

(* The worker's next post is the head of the lane, and the others move up.  *)
LEMMA WaitersMove ==
  ASSUME WorkerInv, [Next]_vars, NEW p \in Post, NEW n \in Nat \ {0}, Waits(p, n)
  PROVE  \/ open' = FALSE
         \/ Waits(p, n)' /\ ~Take
         \/ Take /\ n = 1 /\ pc'[p] \in Working
         \/ Take /\ n # 1 /\ Waits(p, n - 1)'
<1>1. lane \in Seq(Post) /\ pc \in [Caller -> Place] /\ Post \subseteq Caller
  BY DEF WorkerInv, AccountInv, AccountTypeOK, Caller
<1>2. open /\ n \in 1..Len(lane) /\ lane[n] = p
  BY <1>1 DEF Waits
<1>3. CASE Take
  <2>1. /\ lane' = Tail(lane) /\ open' = open
        /\ pc' = [pc EXCEPT ![Head(lane)] = "reading"]
    BY <1>3 DEF Take, Goes
  <2>2. CASE n = 1
    <3>1. Head(lane) = p
      BY <1>1, <1>2, <2>2
    <3>2. pc'[p] = "reading"
      BY <1>1, <2>1, <3>1
    <3>3. QED
      BY <1>3, <2>2, <3>2 DEF Working
  <2>3. CASE n # 1
    <3>1. n - 1 \in 1..Len(lane') /\ lane'[n - 1] = p
      BY <1>1, <1>2, <2>1, <2>3
    <3>2. lane' \in Seq(Post)
      BY <1>1, <1>2, <2>1
    <3>3. QED
      BY <1>2, <1>3, <2>1, <2>3, <3>1, <3>2 DEF Waits
  <2>4. QED
    BY <2>2, <2>3
<1>4. ASSUME NEW q \in Post, Enqueue(q) PROVE Waits(p, n)'
  <2>1. lane' = Append(lane, q) /\ open'
    BY <1>4 DEF Enqueue
  <2>2. n \in 1..Len(lane') /\ lane'[n] = p /\ lane' \in Seq(Post)
    BY <1>1, <1>2, <2>1
  <2>3. QED
    BY <2>1, <2>2 DEF Waits
<1>5. ASSUME UNCHANGED <<lane, open>> PROVE Waits(p, n)'
  BY <1>5 DEF Waits
<1>6. CASE Crash
  BY <1>6 DEF Crash
<1>7. ASSUME NEW q \in Post, PublisherChecks(q) PROVE UNCHANGED <<lane, open>>
  BY <1>7 DEF PublisherChecks, queue
<1>8. ASSUME NEW v \in Verify, VerifyChecks(v) \/ Promotes(v) PROVE UNCHANGED <<lane, open>>
  BY <1>8 DEF VerifyChecks, Promotes, queue
<1>9. ASSUME NEW c \in Caller, Call(c) PROVE UNCHANGED <<lane, open>>
  BY <1>9 DEF Call, ReadsRow, RefreshAnswers, Stores, Denied, Uploads, Polled, StatementFails, queue
<1>10. ASSUME UNCHANGED vars \/ LoginGranted \/ LoginStored \/ LoginFails \/ Disable \/ Expire
       PROVE  UNCHANGED <<lane, open>>
  BY <1>10 DEF vars, queue, LoginGranted, LoginStored, LoginFails, Disable, Expire
<1>11. CASE ~Take
  BY <1>4, <1>5, <1>6, <1>7, <1>8, <1>9, <1>10, <1>11 DEF Next
<1>12. QED
  BY <1>3, <1>11

(* Nothing but Take makes the worker busy.                                  *)
LEMMA FreeStays == WorkerInv /\ [Next]_vars /\ ~Busy(Post) => ~Busy(Post)' \/ Take
<1> SUFFICES ASSUME WorkerInv, [Next]_vars, ~Busy(Post), ~Take, NEW q \in Post
             PROVE  pc'[q] \notin Working
  BY DEF Busy
<1> USE DEF Goes, Working, Holding
<1>1. pc \in [Caller -> Place] /\ q \in Caller /\ Post \subseteq Caller
  BY DEF WorkerInv, AccountInv, AccountTypeOK, Caller
<1>2. pc[q] \notin Working
  BY DEF Busy
<1>3. ASSUME NEW p \in Post, PublisherChecks(p) \/ Enqueue(p) PROVE pc'[q] \notin Working
  BY <1>1, <1>2, <1>3 DEF PublisherChecks, Enqueue
<1>4. ASSUME NEW v \in Verify, VerifyChecks(v) \/ Promotes(v) PROVE pc'[q] \notin Working
  BY <1>1, <1>2, <1>4, TikTokAssumption DEF VerifyChecks, Promotes
<1>5. ASSUME NEW c \in Caller, Call(c) PROVE pc'[q] \notin Working
  <2>1. pc[c] \in Working /\ \E s \in Place : Goes(c, s)
    BY <1>5 DEF Call, ReadsRow, RefreshAnswers, Stores, Denied, Uploads, Polled, StatementFails, Place
  <2>2. QED
    BY <1>1, <1>2, <2>1
<1>6. CASE Crash
  BY <1>1, <1>2, <1>6 DEF Crash
<1>7. ASSUME UNCHANGED vars \/ LoginGranted \/ LoginStored \/ LoginFails \/ Disable \/ Expire
      PROVE  pc' = pc
  BY <1>7 DEF vars, calls, LoginGranted, LoginStored, LoginFails, Disable, Expire
<1>8. QED
  BY <1>2, <1>3, <1>4, <1>5, <1>6, <1>7 DEF Next

(* The invariant of the row and the lane, and that no post promotes.        *)
LEMMA WorkerInvariant == Spec => []WorkerInv
<1>1. Init => NeverPromotes
  BY DEF Init, NeverPromotes, Caller
<1>2. AccountInv => AccountTypeOK
  BY DEF AccountInv
<1>3. QED
  BY <1>1, <1>2, NeverPromotesStep, AccountInvariant, PTL DEF Spec, WorkerInv

(* It is left because it is over, or because the process died.              *)
LEMMA PostEnds ==
  ASSUME NEW p \in Post
  PROVE  FairSpec /\ []WorkerLive => UnderWayEnds(p)
<1> DEFINE At0 == pc[p] \in Working
           Over == pc[p] = "over" \/ ~open
<1>1. FairSpec /\ []WorkerLive => (At0 ~> ~At0)
  <2>1. Busy({p}) <=> At0
    BY DEF Busy
  <2>2. FairSpec /\ []WorkerLive => Frees({p})
    BY BusyEnds
  <2>3. QED
    BY <2>1, <2>2, PTL DEF Frees
<1>2. WorkerInv /\ [Next]_vars => (At0 => At0' \/ Over')
  <2> SUFFICES ASSUME WorkerInv, [Next]_vars, At0, ~At0' PROVE Over'
    OBVIOUS
  <2>1. pc'[p] \in After(pc[p]) => pc'[p] = "over"
    BY DEF After, Working, Holding
  <2>2. QED
    BY <2>1, BusyMoves
<1> HIDE DEF At0, Over
<1>3. FairSpec /\ []WorkerLive => (At0 ~> Over)
  BY <1>1, <1>2, WorkerInvariant, PTL DEF FairSpec, Spec
<1>4. QED
  BY <1>3 DEF At0, Over, UnderWayEnds

(* Once the worker is free, it takes the head of the lane.                  *)
LEMMA WaiterMovesUp ==
  ASSUME NEW p \in Post, NEW n \in Nat \ {0}
  PROVE  /\ FairSpec /\ []WorkerLive => MovesUp(p, n)
         /\ FairSpec /\ []WorkerLive => IsTaken(p)
<1> DEFINE Second == Waits(p, n + 1)
           Earlier == Waits(p, n)
           First == Waits(p, 1)
           Taken == pc[p] \in Working
           Free == ~Busy(Post)
           Fair == FairSpec /\ []WorkerLive
<1>1. Fair => (~Free ~> Free)
  <2>1. Fair => Frees(Post)
    BY BusyEnds
  <2>2. QED
    BY <2>1, PTL DEF Frees
<1>2. WorkerLive /\ Free /\ (First \/ Second) => ENABLED <<Take>>_vars
  <2>1. First \/ Second => open /\ lane # <<>>
    BY DEF Waits
  <2>2. QED
    BY <2>1 DEF WorkerLive
<1>3. WorkerInv /\ [Next]_vars =>
        /\ Second => (Second' /\ ~Take) \/ Earlier' \/ ~open'
        /\ First => (First' /\ ~Take) \/ Taken' \/ ~open'
  <2> SUFFICES ASSUME WorkerInv, [Next]_vars
               PROVE  /\ Second => (Second' /\ ~Take) \/ Earlier' \/ ~open'
                      /\ First => (First' /\ ~Take) \/ Taken' \/ ~open'
    OBVIOUS
  <2>1. ASSUME First PROVE (First' /\ ~Take) \/ Taken' \/ ~open'
    <3>1. 1 \in Nat \ {0}
      OBVIOUS
    <3>2. QED
      BY <2>1, <3>1, WaitersMove
  <2>2. ASSUME Second PROVE (Second' /\ ~Take) \/ Earlier' \/ ~open'
    <3> DEFINE m == n + 1
    <3>1. m \in Nat \ {0} /\ m # 1 /\ m - 1 = n
      OBVIOUS
    <3> HIDE DEF m
    <3>2. \/ open' = FALSE
          \/ Waits(p, m)' /\ ~Take
          \/ Take /\ m = 1 /\ pc'[p] \in Working
          \/ Take /\ m # 1 /\ Waits(p, m - 1)'
      BY <2>2, <3>1, WaitersMove DEF m
    <3>3. QED
      BY <3>1, <3>2 DEF m
  <2>3. QED
    BY <2>1, <2>2
<1>4. WorkerInv /\ [Next]_vars /\ Free => Free' \/ Take
  BY FreeStays
<1> HIDE DEF Second, Earlier, First, Taken, Free
<1>5. Fair => (First ~> Taken \/ ~open)
  BY <1>1, <1>2, <1>3, <1>4, WorkerInvariant, PTL DEF FairSpec, Spec
<1>6. Fair => (Second ~> Earlier \/ ~open)
  BY <1>1, <1>2, <1>3, <1>4, WorkerInvariant, PTL DEF FairSpec, Spec
<1>7. QED
  BY <1>5, <1>6 DEF Second, Earlier, First, Taken, Fair, MovesUp, IsTaken

(* LaneMoves, which PostsEnd comes down to: a post under way ends, the head *)
(* of the lane is taken, and at every place behind it a post moves up.      *)
THEOREM PostsMoveUp == FairSpec /\ []WorkerLive => LaneMoves
<1>1. ASSUME NEW p \in Post
      PROVE  FairSpec /\ []WorkerLive => UnderWayEnds(p)
  BY PostEnds
<1>2. ASSUME NEW p \in Post
      PROVE  FairSpec /\ []WorkerLive => IsTaken(p)
  BY WaiterMovesUp
<1>3. ASSUME NEW p \in Post, NEW n \in Nat \ {0}
      PROVE  FairSpec /\ []WorkerLive => MovesUp(p, n)
  BY WaiterMovesUp
<1>4. QED
  BY <1>1, <1>2, <1>3 DEF LaneMoves
=============================================================================
