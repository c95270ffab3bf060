------------------------- MODULE ShopperServicesProofs -------------------------
(***************************************************************************)
(* Proofs about the services for shoppers and for the visitors of a        *)
(* playground, which share no state: accounts (ShopperAccounts), the       *)
(* prices of the cart page (CartPrices), the relay of a checkout's status  *)
(* (CheckoutRelay), test checkout (PlaygroundCheckout), the seeding of a   *)
(* store (PlaygroundSeed) and the tour (PlaygroundTour); for any number of *)
(* operations in flight and of sessions, lines, calls, payments, isolates  *)
(* and looks, and whatever Commerce holds.  Each part gives its inductive  *)
(* invariant, the lemmas, and its theorems; the last section puts the      *)
(* parts together, as MCShopperServices does.                              *)
(***************************************************************************)
EXTENDS MCShopperServices, GuestCartProofs, WellFoundedInduction

(***************************************************************************)
(* ShopperAccounts.  Besides the types the inductive invariant needs to    *)
(* know that a session that expired is one Commerce no longer honours, so  *)
(* that a page which clears it clears no live one, that a page about to    *)
(* store a session has one, and that nobody holds a session Commerce has   *)
(* yet to make.                                                            *)
(***************************************************************************)
ExpiredIsDead == \A t \in Tokens : sessions[t].expired => ~sessions[t].live
HoldsASession ==
  \A c \in Clicks : clicks[c].at \in {"record", "revoke", "save"} => clicks[c].token # 0

HoldsOnlyMade ==
  stored <= minted /\ \A c \in Clicks : clicks[c].token <= minted

AccountInv ==
  /\ AccountTypeOK /\ ExpiredIsDead /\ HoldsASession /\ HoldsOnlyMade
  /\ SessionHasLead

SessionRecords ==
  [email : Emails \cup {"none"}, live : BOOLEAN, expired : BOOLEAN]
ClickRecords ==
  [kind : Kinds, at : ClickStages, token : Tokens \cup {0}, code : 0 .. MaxCodes]

-----------------------------------------------------------------------------
\* Sessions keep to their types, whose they are, and only end.
SessionsOnlyEnd ==
  /\ sessions' \in [Tokens -> SessionRecords]
  /\ \A t \in Tokens :
       /\ sessions'[t].email = sessions[t].email
       /\ sessions'[t].live => sessions[t].live
       /\ sessions'[t].expired => sessions[t].expired

\* Ending a session, or not, changes nothing else of it.
LEMMA SessionEnds ==
  ASSUME NEW s \in SessionRecords, NEW b \in BOOLEAN
  PROVE  /\ [s EXCEPT !.live = b] \in SessionRecords
         /\ [s EXCEPT !.live = b].email = s.email
         /\ [s EXCEPT !.live = b].expired = s.expired
         /\ [s EXCEPT !.live = b].live = b
BY DEF SessionRecords

\* Ended sessions keep their person, and none is brought back to life.
LEMMA KillsOnlyEnd ==
  ASSUME AccountTypeOK, NEW ts
  PROVE  /\ Kills(ts) \in [Tokens -> SessionRecords]
         /\ \A t \in Tokens : /\ Kills(ts)[t].email = sessions[t].email
                              /\ Kills(ts)[t].live => sessions[t].live
                              /\ Kills(ts)[t].expired = sessions[t].expired
<1>1. ASSUME NEW t \in Tokens
      PROVE  /\ Kills(ts)[t] \in SessionRecords
             /\ Kills(ts)[t].email = sessions[t].email
             /\ Kills(ts)[t].live => sessions[t].live
             /\ Kills(ts)[t].expired = sessions[t].expired
  <2> DEFINE b == sessions[t].live /\ t \notin ts
  <2>1. sessions[t] \in SessionRecords
    BY DEF AccountTypeOK, SessionRecords
  <2>2. b \in BOOLEAN /\ (b => sessions[t].live)
    OBVIOUS
  <2>3. Kills(ts)[t] = [sessions[t] EXCEPT !.live = b]
    BY DEF Kills
  <2> HIDE DEF b
  <2>4. Kills(ts)[t].live = b
    BY <2>1, <2>2, <2>3, SessionEnds
  <2> QED BY <2>1, <2>2, <2>3, <2>4, SessionEnds
<1>2. Kills(ts) = [t \in Tokens |-> Kills(ts)[t]]
  BY DEF Kills
<1> QED BY <1>1, <1>2

\* So sessions only end.
LEMMA KillsEnds ==
  ASSUME AccountTypeOK, NEW ts, sessions' = Kills(ts)
  PROVE  SessionsOnlyEnd
BY KillsOnlyEnd DEF SessionsOnlyEnd

\* A session Commerce makes is the only one that starts to live.
LEMMA VerifiedMakes ==
  ASSUME AccountTypeOK, NEW email \in Emails, Verified(email)
  PROVE  /\ minted + 1 \in Tokens /\ minted' = minted + 1
         /\ codes' \in [Emails -> 0 .. MaxCodes] /\ sent' = sent
         /\ sessions' \in [Tokens -> SessionRecords]
         /\ sessions'[minted + 1].email = email
         /\ ~sessions'[minted + 1].expired
         /\ \A t \in Tokens \ {minted + 1} :
              /\ sessions'[t].email = sessions[t].email
              /\ sessions'[t].live => sessions[t].live
              /\ sessions'[t].expired => sessions[t].expired
<1> DEFINE base == Kills(IF email = "demo" THEN DemoSessions ELSE {})
           new == [email |-> email, live |-> TRUE, expired |-> FALSE]
<1>1. minted + 1 \in Tokens /\ minted' = minted + 1 /\ sent' = sent
  BY AccountAssumption DEF AccountTypeOK, Verified, Tokens
<1>2. codes' \in [Emails -> 0 .. MaxCodes]
  BY AccountAssumption DEF AccountTypeOK, Verified
<1>3. /\ base \in [Tokens -> SessionRecords]
      /\ \A t \in Tokens : /\ base[t].email = sessions[t].email
                           /\ base[t].live => sessions[t].live
                           /\ base[t].expired => sessions[t].expired
  BY KillsOnlyEnd
<1>4. new \in SessionRecords
  BY DEF SessionRecords
<1>5. sessions' = [base EXCEPT ![minted + 1] = new]
  BY DEF Verified
<1>6. new.email = email /\ ~new.expired
  OBVIOUS
<1> HIDE DEF base, new
<1> QED BY <1>1, <1>2, <1>3, <1>4, <1>5, <1>6

\* What an operation becomes leaves the others as they are.
LEMMA OnlyOneClick ==
  ASSUME AccountTypeOK, NEW c \in Clicks, NEW next \in ClickRecords,
         Becomes(c, next)
  PROVE  /\ clicks' \in [Clicks -> ClickRecords] /\ clicks'[c] = next
         /\ \A d \in Clicks \ {c} : clicks'[d] = clicks[d]
BY DEF AccountTypeOK, ClickRecords, Becomes

\* The next stage of an operation is of the operation's type.
LEMMA StageTyped ==
  ASSUME AccountTypeOK, NEW c \in Clicks, NEW stage \in ClickStages
  PROVE  /\ [clicks[c] EXCEPT !.at = stage] \in ClickRecords
         /\ [clicks[c] EXCEPT !.at = stage].at = stage
         /\ [clicks[c] EXCEPT !.at = stage].token = clicks[c].token
BY DEF AccountTypeOK, ClickRecords

\* An operation that is not under way has its type.
LEMMA NoClickTyped ==
  NoClick \in ClickRecords /\ NoClick.at = "idle" /\ NoClick.token = 0
BY AccountAssumption DEF NoClick, ClickRecords, Kinds, ClickStages

\* A step that makes no session and takes no operation from recording or
\* revoking keeps the invariant.
LEMMA SessionsOnlyEndKeep ==
  ASSUME AccountInv, NEW c \in Clicks, NEW next \in ClickRecords,
         Becomes(c, next),
         next.at \in {"record", "revoke", "save"} => next.token # 0,
         next.token \in {0, stored, clicks[c].token},
         SessionsOnlyEnd \/ sessions' = sessions,
         clicks[c].at \notin {"record", "revoke"},
         leads' = leads, accountLog' = accountLog,
         codes' \in [Emails -> 0 .. MaxCodes], sent' \in 0 .. MaxCodes,
         minted' = minted, stored' \in {0, stored, clicks[c].token}
  PROVE  AccountInv'
<1>0. stored' \in Tokens \cup {0} /\ minted \in Nat
  BY AccountAssumption DEF AccountInv, AccountTypeOK
<1>1. SessionsOnlyEnd
  BY DEF SessionsOnlyEnd, AccountInv, AccountTypeOK, SessionRecords
<1>2. /\ clicks' \in [Clicks -> ClickRecords] /\ clicks'[c] = next
      /\ \A d \in Clicks \ {c} : clicks'[d] = clicks[d]
  BY OnlyOneClick DEF AccountInv
<1>3. AccountTypeOK'
  BY <1>0, <1>1, <1>2
     DEF AccountInv, AccountTypeOK, SessionsOnlyEnd, SessionRecords, ClickRecords
<1>4. ExpiredIsDead' /\ HoldsASession'
  BY <1>1, <1>2 DEF AccountInv, SessionsOnlyEnd, ExpiredIsDead, HoldsASession, At
<1>5. HoldsOnlyMade'
  BY <1>0, <1>2 DEF AccountInv, HoldsOnlyMade
<1>6. SessionHasLead'
  <2> SUFFICES ASSUME NEW t \in Tokens, sessions'[t].email = "shopper",
                      "shopper" \notin leads'
               PROVE  /\ stored' # t
                      /\ \A d \in Clicks :
                           clicks'[d].token = t => clicks'[d].at \in {"record", "revoke"}
                      /\ sessions'[t].live =>
                           t \in accountLog' \/ \E d \in Clicks : clicks'[d].token = t
    BY DEF SessionHasLead
  <2>1. /\ stored # t /\ t # 0
        /\ \A d \in Clicks :
             clicks[d].token = t => clicks[d].at \in {"record", "revoke"}
        /\ sessions[t].live =>
             t \in accountLog \/ \E d \in Clicks : clicks[d].token = t
    BY <1>1 DEF AccountInv, SessionHasLead, SessionsOnlyEnd, Tokens
  <2>2. clicks[c].token # t
    BY <2>1
  <2>3. \A d \in Clicks : clicks'[d].token = t <=> clicks[d].token = t
    BY <1>2, <2>1, <2>2
  <2>4. \A d \in Clicks : clicks'[d].token = t => clicks'[d].at = clicks[d].at
    BY <1>2, <2>1, <2>2
  <2> QED BY <1>1, <2>1, <2>2, <2>3, <2>4 DEF SessionsOnlyEnd
<1> QED BY <1>3, <1>4, <1>5, <1>6 DEF AccountInv

\* An operation that ends, or goes on to another stage.
LEMMA EndKeeps ==
  ASSUME AccountInv, NEW c \in Clicks, ClickEnds(c),
         SessionsOnlyEnd \/ sessions' = sessions,
         clicks[c].at \notin {"record", "revoke"},
         leads' = leads, accountLog' = accountLog,
         codes' \in [Emails -> 0 .. MaxCodes], sent' \in 0 .. MaxCodes,
         minted' = minted, stored' \in {0, stored, clicks[c].token}
  PROVE  AccountInv'
BY NoClickTyped, SessionsOnlyEndKeep DEF ClickEnds

\* A code that is sent stays within the number of codes.
LEMMA SendsTyped ==
  ASSUME AccountTypeOK, NEW email \in Emails, SendsCode(email)
  PROVE  codes' \in [Emails -> 0 .. MaxCodes] /\ sent' \in 0 .. MaxCodes
<1>1. sent + 1 \in 0 .. MaxCodes
  BY AccountAssumption DEF AccountTypeOK, SendsCode
<1> QED BY <1>1 DEF AccountTypeOK, SendsCode

\* What a page finds stored is the session that is stored or none.
LEMMA StoredTyped ==
  AccountTypeOK => StoredSession \in {0, stored} /\ StoredSession \in Tokens \cup {0}
BY DEF AccountTypeOK, StoredSession

\* A denial leaves the session stored or none.
LEMMA DeniedTyped ==
  ASSUME AccountTypeOK, NEW c \in Clicks, Denied(c)
  PROVE  stored' \in {0, stored}
BY StoredTyped DEF Denied

-----------------------------------------------------------------------------
\* The invariant of the accounts holds at the start.
LEMMA AccountsBegin == AccountInit => AccountInv
<1> SUFFICES ASSUME AccountInit PROVE AccountInv
  OBVIOUS
<1>1. AccountTypeOK
  BY AccountAssumption, NoClickTyped
     DEF AccountInit, AccountTypeOK, ClickRecords
<1>2. SessionHasLead /\ ExpiredIsDead
  BY DEF AccountInit, SessionHasLead, LiveSession, ExpiredIsDead
<1>3. HoldsASession /\ HoldsOnlyMade
  BY NoClickTyped DEF AccountInit, HoldsASession, HoldsOnlyMade, At
<1> QED BY <1>1, <1>2, <1>3 DEF AccountInv

\* An operation that begins holds no session it has to record.
LEMMA ClickOnKeeps ==
  ASSUME AccountInv, NEW c \in Clicks, ClickOn(c)
  PROVE  AccountInv'
<1> USE AccountAssumption
<1>1. /\ AccountTypeOK
      /\ StoredSession \in Tokens \cup {0} /\ StoredSession \in {0, stored}
  BY StoredTyped DEF AccountInv
<1>2. PICK next \in ClickRecords :
        /\ Becomes(c, next) /\ next.token \in {0, stored}
        /\ next.at \notin {"record", "revoke", "save"}
  BY <1>1 DEF ClickOn, LoadPage, ClickSave, ClickClear, ClickStart, ClickVerify,
     ClickDemo, ClickSignOut, Begins, ClickRecords, Kinds, ClickStages,
     AccountTypeOK, Emails
<1> QED BY <1>1, <1>2, SessionsOnlyEndKeep DEF ClickOn, At, commerce, AccountTypeOK

\* An operation that had a session to record lets it go: ended, or logged.
LEMMA LetGoKeeps ==
  ASSUME AccountInv, NEW c \in Clicks, ClickEnds(c),
         SessionsOnlyEnd \/ sessions' = sessions,
         UNCHANGED <<codes, sent, minted, leads, stored>>,
         accountLog \subseteq accountLog', accountLog' \subseteq Tokens,
         clicks[c].token \in Tokens =>
           ~sessions'[clicks[c].token].live \/ clicks[c].token \in accountLog'
  PROVE  AccountInv'
<1>1. SessionsOnlyEnd /\ AccountTypeOK
  BY DEF SessionsOnlyEnd, AccountInv, AccountTypeOK, SessionRecords
<1>2. /\ clicks' \in [Clicks -> ClickRecords] /\ clicks'[c] = NoClick
      /\ \A d \in Clicks \ {c} : clicks'[d] = clicks[d]
  BY <1>1, NoClickTyped, OnlyOneClick DEF ClickEnds
<1>3. AccountTypeOK'
  BY <1>1, <1>2 DEF AccountTypeOK, SessionsOnlyEnd, SessionRecords, ClickRecords
<1>4. ExpiredIsDead' /\ HoldsASession'
  BY <1>1, <1>2, NoClickTyped
     DEF AccountInv, SessionsOnlyEnd, ExpiredIsDead, HoldsASession, At
<1>5. HoldsOnlyMade'
  BY <1>1, <1>2, NoClickTyped, AccountAssumption
     DEF AccountInv, AccountTypeOK, HoldsOnlyMade
<1>6. SessionHasLead'
  <2> SUFFICES ASSUME NEW t \in Tokens, sessions'[t].email = "shopper",
                      "shopper" \notin leads'
               PROVE  /\ stored' # t
                      /\ \A d \in Clicks :
                           clicks'[d].token = t => clicks'[d].at \in {"record", "revoke"}
                      /\ sessions'[t].live =>
                           t \in accountLog' \/ \E d \in Clicks : clicks'[d].token = t
    BY DEF SessionHasLead
  <2>1. /\ stored # t /\ t # 0
        /\ \A d \in Clicks :
             clicks[d].token = t => clicks[d].at \in {"record", "revoke"}
        /\ sessions[t].live =>
             t \in accountLog \/ \E d \in Clicks : clicks[d].token = t
    BY <1>1 DEF AccountInv, SessionHasLead, SessionsOnlyEnd, Tokens
  <2>2. \A d \in Clicks : clicks'[d].token = t => clicks'[d] = clicks[d]
    BY <1>2, <2>1, NoClickTyped
  <2>3. ASSUME sessions'[t].live, t \notin accountLog'
        PROVE  \E d \in Clicks : clicks'[d].token = t
    <3>1. PICK d \in Clicks : clicks[d].token = t
      BY <1>1, <2>1, <2>3 DEF SessionsOnlyEnd
    <3>2. d # c
      BY <2>3, <3>1
    <3> QED BY <1>2, <3>1, <3>2
  <2> QED BY <2>1, <2>2, <2>3
<1> QED BY <1>3, <1>4, <1>5, <1>6 DEF AccountInv

\* Refused and lost requests, and codes asked for, make no session.
LEMMA RequestKeeps ==
  ASSUME AccountInv, NEW c \in Clicks,
         Refused(c) \/ DemoRefused(c) \/ LostAnswer(c) \/ StartSignIn(c)
  PROVE  AccountInv'
<1>1. AccountTypeOK
  BY DEF AccountInv
<1>2. CASE Refused(c) \/ DemoRefused(c)
  BY <1>1, <1>2, EndKeeps DEF Refused, DemoRefused, At, commerce, AccountTypeOK
<1>4. CASE LostAnswer(c) /\ clicks[c].at \notin {"record", "revoke"}
  BY <1>1, <1>4, EndKeeps DEF LostAnswer, commerce, AccountTypeOK
<1>5. CASE LostAnswer(c) /\ clicks[c].at \in {"record", "revoke"}
  <2>1. accountLog' = accountLog \cup {clicks[c].token} /\ ClickEnds(c)
        /\ UNCHANGED <<commerce, leads, stored>>
    BY <1>5 DEF LostAnswer
  <2>2. CASE clicks[c].token \in Tokens
    <3>1. accountLog' \subseteq Tokens
      BY <1>1, <2>1, <2>2 DEF AccountTypeOK
    <3> QED BY <2>1, <2>2, <3>1, LetGoKeeps DEF commerce
  <2>3. CASE clicks[c].token \notin Tokens
    BY <1>1, <1>5, <2>3 DEF AccountInv, AccountTypeOK, HoldsASession
  <2> QED BY <2>2, <2>3
<1>3. CASE StartSignIn(c)
  <2>1. codes' \in [Emails -> 0 .. MaxCodes] /\ sent' \in 0 .. MaxCodes
    BY <1>1, <1>3, SendsTyped DEF StartSignIn, Emails
  <2> QED BY <1>1, <1>3, <2>1, EndKeeps DEF StartSignIn, At, AccountTypeOK
<1> QED BY <1>2, <1>3, <1>4, <1>5

\* A session starts to live only here: a shopper's with its request recording
\* it or logged, the demonstration's for another email.
LEMMA VerifyKeeps ==
  ASSUME AccountInv, NEW c \in Clicks, NEW email \in Emails, Verified(email),
         clicks[c].at \notin {"record", "revoke"},
         NEW next \in ClickRecords, Becomes(c, next), next.at # "save",
         \/ next.token = 0 /\ next.at = "idle" /\ accountLog' = accountLog \cup {minted + 1}
         \/ next.token = minted + 1 /\ accountLog' = accountLog,
         email = "shopper" => next.token = 0 \/ next.at = "record",
         UNCHANGED <<leads, stored>>
  PROVE  AccountInv'
<1>1. AccountTypeOK
  BY DEF AccountInv
<1>2. /\ minted + 1 \in Tokens /\ minted' = minted + 1
      /\ codes' \in [Emails -> 0 .. MaxCodes] /\ sent' = sent
      /\ sessions' \in [Tokens -> SessionRecords]
      /\ sessions'[minted + 1].email = email
      /\ ~sessions'[minted + 1].expired
      /\ \A t \in Tokens \ {minted + 1} :
           /\ sessions'[t].email = sessions[t].email
           /\ sessions'[t].live => sessions[t].live
           /\ sessions'[t].expired => sessions[t].expired
  BY <1>1, VerifiedMakes
<1>5. /\ clicks' \in [Clicks -> ClickRecords] /\ clicks'[c] = next
      /\ \A d \in Clicks \ {c} : clicks'[d] = clicks[d]
  BY <1>1, OnlyOneClick
<1>6. AccountTypeOK'
  <2>1. minted' \in 0 .. MaxSessions
    BY <1>2, AccountAssumption DEF Tokens
  <2>2. accountLog' \subseteq Tokens
    BY <1>1, <1>2 DEF AccountTypeOK
  <2> QED BY <1>1, <1>2, <1>5, <2>1, <2>2
             DEF AccountTypeOK, SessionRecords, ClickRecords
<1>7. ExpiredIsDead'
  BY <1>2 DEF AccountInv, ExpiredIsDead
<1>8. HoldsASession'
  BY <1>2, <1>5 DEF AccountInv, HoldsASession, Tokens
<1>9. minted \in Nat /\ stored <= minted /\ \A d \in Clicks : clicks[d].token <= minted
  BY AccountAssumption DEF AccountInv, AccountTypeOK, HoldsOnlyMade
<1>10. HoldsOnlyMade'
  <2>1. stored' <= minted'
    BY <1>1, <1>2, <1>9 DEF AccountTypeOK, Tokens
  <2>2. ASSUME NEW d \in Clicks PROVE clicks'[d].token <= minted'
    <3>1. CASE d = c
      BY <1>2, <1>5, <1>9, <3>1
    <3>2. CASE d # c
      <4>1. clicks[d].token \in Tokens \cup {0}
        BY <1>1 DEF AccountTypeOK
      <4> QED BY <1>2, <1>5, <1>9, <3>2, <4>1 DEF Tokens
    <3> QED BY <3>1, <3>2
  <2> QED BY <2>1, <2>2 DEF HoldsOnlyMade
<1>11. ASSUME NEW t \in Tokens, sessions'[t].email = "shopper", "shopper" \notin leads'
       PROVE  /\ stored' # t
              /\ \A d \in Clicks :
                   clicks'[d].token = t => clicks'[d].at \in {"record", "revoke"}
              /\ sessions'[t].live =>
                   t \in accountLog' \/ \E d \in Clicks : clicks'[d].token = t
  <2>0. t # 0
    BY DEF Tokens
  <2>1. CASE t = minted + 1
    <3>1. stored # t /\ \A d \in Clicks : clicks[d].token # t
      BY <1>1, <1>9, <2>1 DEF AccountTypeOK, Tokens
    <3>2. next.token = 0 \/ next.at = "record"
      BY <1>2, <1>11, <2>1
    <3>3. CASE next.token = 0
      BY <1>5, <2>0, <2>1, <3>1, <3>3
    <3>4. CASE next.token = t /\ next.at = "record"
      BY <1>5, <3>1, <3>4
    <3> QED BY <2>0, <2>1, <3>2, <3>3, <3>4
  <2>2. CASE t # minted + 1
    <3>1. /\ stored # t
          /\ \A d \in Clicks :
               clicks[d].token = t => clicks[d].at \in {"record", "revoke"}
          /\ sessions[t].live =>
               t \in accountLog \/ \E d \in Clicks : clicks[d].token = t
      BY <1>2, <1>11, <2>2 DEF AccountInv, SessionHasLead
    <3>2. clicks[c].token # t /\ next.token # t
      BY <2>0, <2>2, <3>1
    <3>3. \A d \in Clicks : clicks'[d].token = t <=> clicks[d].token = t
      BY <1>5, <3>2
    <3>4. \A d \in Clicks : clicks'[d].token = t => clicks'[d].at = clicks[d].at
      BY <1>5, <3>2
    <3>5. sessions'[t].live => sessions[t].live
      BY <1>2, <2>2
    <3>6. accountLog \subseteq accountLog'
      OBVIOUS
    <3> QED BY <3>1, <3>3, <3>4, <3>5, <3>6
  <2> QED BY <2>1, <2>2
<1> QED BY <1>6, <1>7, <1>8, <1>10, <1>11 DEF AccountInv, SessionHasLead

\* What an operation becomes that has a session made for it.
LEMMA GetsSession ==
  ASSUME AccountTypeOK, NEW c \in Clicks, NEW stage \in ClickStages,
         minted + 1 \in Tokens
  PROVE  LET next == [clicks[c] EXCEPT !.at = stage, !.token = minted + 1] IN
         next \in ClickRecords /\ next.at = stage /\ next.token = minted + 1
BY DEF AccountTypeOK, ClickRecords

\* The session a code buys is held by the operation that bought it, or logged.
LEMMA VerifySignInKeeps ==
  ASSUME AccountInv, NEW c \in Clicks, VerifySignIn(c)
  PROVE  AccountInv'
<1>1. AccountTypeOK /\ clicks[c].at \notin {"record", "revoke"}
  BY DEF AccountInv, VerifySignIn, At
<1>2. CASE ClickEnds(c) /\ UNCHANGED <<commerce, accountLog>>
  BY <1>1, <1>2, EndKeeps DEF VerifySignIn, commerce, AccountTypeOK
<1>3. CASE /\ Verified("shopper") /\ UNCHANGED accountLog
           /\ Becomes(c, [clicks[c] EXCEPT !.at = "record", !.token = minted + 1])
  <2> DEFINE next == [clicks[c] EXCEPT !.at = "record", !.token = minted + 1]
  <2>1. minted + 1 \in Tokens /\ "record" \in ClickStages
    BY <1>1, <1>3, VerifiedMakes DEF Emails, ClickStages
  <2>2. next \in ClickRecords /\ next.at = "record" /\ next.token = minted + 1
    BY <1>1, <2>1, GetsSession
  <2>3. Becomes(c, next)
    BY <1>3
  <2> HIDE DEF next
  <2> QED BY <1>1, <1>3, <2>2, <2>3, VerifyKeeps DEF VerifySignIn, Emails
<1>4. CASE /\ Verified("shopper") /\ ClickEnds(c)
           /\ accountLog' = accountLog \cup {minted + 1}
  BY <1>1, <1>4, NoClickTyped, VerifyKeeps DEF VerifySignIn, ClickEnds, Emails
<1> QED BY <1>2, <1>3, <1>4 DEF VerifySignIn

\* It is let go once its lead is recorded.
LEMMA RecordKeeps ==
  ASSUME AccountInv, NEW c \in Clicks, RecordLead(c)
  PROVE  AccountInv'
<1>1. AccountTypeOK
  BY DEF AccountInv
<1>2. PICK stage \in {"orders", "revoke"} :
        /\ ClickGoes(c, stage)
        /\ leads' \in {leads, leads \cup {"shopper"}}
        /\ "shopper" \in leads' \/ stage = "revoke"
  BY DEF RecordLead
<1> DEFINE next == [clicks[c] EXCEPT !.at = stage]
<1>0. stage \in ClickStages
  BY DEF ClickStages
<1>3. next \in ClickRecords /\ next.at = stage /\ next.token = clicks[c].token
  BY <1>0, <1>1, StageTyped
<1>4. Becomes(c, next)
  BY <1>2 DEF ClickGoes
<1> HIDE DEF next
<1>5. /\ clicks' \in [Clicks -> ClickRecords] /\ clicks'[c] = next
      /\ \A d \in Clicks \ {c} : clicks'[d] = clicks[d]
  BY <1>1, <1>3, <1>4, OnlyOneClick
<1>6. UNCHANGED <<codes, sent, sessions, minted, stored, accountLog>>
  BY DEF RecordLead, commerce
<1>7. AccountTypeOK' /\ ExpiredIsDead'
  BY <1>1, <1>2, <1>3, <1>5, <1>6
     DEF AccountInv, AccountTypeOK, ClickRecords, Emails, ExpiredIsDead
<1>8. \A d \in Clicks : clicks'[d].token = clicks[d].token
  BY <1>3, <1>5
<1>9. HoldsASession' /\ HoldsOnlyMade'
  BY <1>3, <1>5, <1>6, <1>8
     DEF AccountInv, HoldsASession, HoldsOnlyMade, RecordLead, At
<1>10. SessionHasLead'
  <2>1. CASE "shopper" \in leads'
    BY <2>1 DEF SessionHasLead
  <2>2. CASE "shopper" \notin leads'
    <3>1. stage = "revoke" /\ "shopper" \notin leads
      BY <1>2, <2>2
    <3>2. \A d \in Clicks : clicks[d].at \in {"record", "revoke"} =>
                               clicks'[d].at \in {"record", "revoke"}
      BY <1>3, <1>5, <3>1
    <3> QED BY <1>6, <1>8, <3>1, <3>2 DEF AccountInv, SessionHasLead
  <2> QED BY <2>1, <2>2
<1> QED BY <1>7, <1>9, <1>10 DEF AccountInv

\* Or once Commerce has revoked it, or failed to.
LEMMA RevokeKeeps ==
  ASSUME AccountInv, NEW c \in Clicks, Revoke(c)
  PROVE  AccountInv'
<1>1. AccountTypeOK /\ ClickEnds(c) /\ UNCHANGED <<codes, sent, minted, leads, stored>>
  BY DEF AccountInv, Revoke
<1>2. clicks[c].token \in Tokens
  BY <1>1 DEF AccountInv, AccountTypeOK, HoldsASession, Revoke, At
<1>3. CASE sessions' = Kills({clicks[c].token}) /\ UNCHANGED accountLog
  <2>1. sessions[clicks[c].token] \in SessionRecords
    BY <1>1, <1>2 DEF AccountTypeOK, SessionRecords
  <2>2. sessions'[clicks[c].token] = [sessions[clicks[c].token] EXCEPT !.live = FALSE]
    BY <1>2, <1>3 DEF Kills
  <2>3. ~sessions'[clicks[c].token].live
    BY <2>1, <2>2, SessionEnds
  <2>4. accountLog' \subseteq Tokens /\ SessionsOnlyEnd
    BY <1>1, <1>3, KillsEnds DEF AccountTypeOK
  <2> QED BY <1>1, <1>3, <2>3, <2>4, LetGoKeeps
<1>4. CASE accountLog' = accountLog \cup {clicks[c].token} /\ UNCHANGED sessions
  <2>1. accountLog' \subseteq Tokens
    BY <1>1, <1>2, <1>4 DEF AccountTypeOK
  <2> QED BY <1>1, <1>4, <2>1, LetGoKeeps
<1> QED BY <1>3, <1>4 DEF Revoke

\* The demonstration sign-in goes by the same way.
LEMMA DemoKeeps ==
  ASSUME AccountInv, NEW c \in Clicks,
         ClearCode(c) \/ ClearSession(c) \/ StartDemo(c) \/ VerifyDemo(c)
  PROVE  AccountInv'
<1>1. AccountTypeOK /\ clicks[c].at \notin {"record", "revoke"}
  BY DEF AccountInv, ClearCode, ClearSession, StartDemo, VerifyDemo, At
<1>2. CASE ClearCode(c)
  <2>1. codes' \in [Emails -> 0 .. MaxCodes]
    <3>1. 0 \in 0 .. MaxCodes
      BY AccountAssumption
    <3> QED BY <1>1, <1>2, <3>1 DEF ClearCode, AccountTypeOK
  <2>2. "clearSession" \in ClickStages
    BY DEF ClickStages
  <2> QED BY <1>1, <1>2, <2>1, <2>2, StageTyped, SessionsOnlyEndKeep
             DEF ClearCode, ClickGoes, AccountTypeOK
<1>3. CASE ClearSession(c)
  <2>1. "demoStart" \in ClickStages /\ SessionsOnlyEnd
    BY <1>1, <1>3, KillsEnds DEF ClearSession, ClickStages
  <2> QED BY <1>1, <1>3, <2>1, StageTyped, SessionsOnlyEndKeep
             DEF ClearSession, ClickGoes, AccountTypeOK
<1>4. CASE StartDemo(c)
  <2> DEFINE next == [clicks[c] EXCEPT !.at = "demoVerify", !.code = sent + 1]
  <2>1. codes' \in [Emails -> 0 .. MaxCodes] /\ sent' \in 0 .. MaxCodes
    BY <1>1, <1>4, SendsTyped DEF StartDemo, Emails
  <2>2. /\ next \in ClickRecords /\ next.at = "demoVerify"
        /\ next.token = clicks[c].token
    <3>1. sent + 1 \in 0 .. MaxCodes
      BY <1>4, <2>1 DEF StartDemo, SendsCode
    <3> QED BY <1>1, <3>1 DEF AccountTypeOK, ClickRecords, ClickStages
  <2>3. Becomes(c, next)
    BY <1>4 DEF StartDemo
  <2> HIDE DEF next
  <2> QED BY <1>1, <1>4, <2>1, <2>2, <2>3, SessionsOnlyEndKeep
             DEF StartDemo, AccountTypeOK
<1>5. CASE VerifyDemo(c)
  <2>1. CASE ClickEnds(c) /\ UNCHANGED commerce
    BY <1>1, <1>5, <2>1, EndKeeps DEF VerifyDemo, commerce, AccountTypeOK
  <2>2. CASE /\ Verified("demo")
             /\ Becomes(c, [clicks[c] EXCEPT !.at = "orders", !.token = minted + 1])
    <3>1. minted + 1 \in Tokens /\ "orders" \in ClickStages
      BY <1>1, <2>2, VerifiedMakes DEF Emails, ClickStages
    <3> DEFINE next == [clicks[c] EXCEPT !.at = "orders", !.token = minted + 1]
    <3>2. next \in ClickRecords /\ next.at = "orders" /\ next.token = minted + 1
      BY <1>1, <3>1, GetsSession
    <3>3. Becomes(c, next)
      BY <2>2
    <3> HIDE DEF next
    <3> QED BY <1>1, <1>5, <2>2, <3>2, <3>3, VerifyKeeps DEF VerifyDemo, Emails
  <2> QED BY <1>5, <2>1, <2>2 DEF VerifyDemo
<1> QED BY <1>2, <1>3, <1>4, <1>5

\* What uses a session ends it, or stores it, or leaves it alone.
LEMMA SessionUseKeeps ==
  ASSUME AccountInv, NEW c \in Clicks,
         LoadOrders(c) \/ SaveSession(c) \/ ChangeProfile(c) \/ SignOut(c)
  PROVE  AccountInv'
<1>1. AccountTypeOK /\ clicks[c].at \notin {"record", "revoke"}
  BY DEF AccountInv, LoadOrders, SaveSession, ChangeProfile, SignOut, At
<1>2. CASE LoadOrders(c)
  <2>1. UNCHANGED <<commerce, leads, accountLog>>
    BY <1>2 DEF LoadOrders
  <2>2. stored' \in {0, stored}
    BY <1>1, <1>2, DeniedTyped DEF LoadOrders
  <2>3. CASE ClickEnds(c)
    BY <1>1, <2>1, <2>2, <2>3, EndKeeps DEF commerce, AccountTypeOK
  <2>4. CASE ~ClickEnds(c)
    <3>1. ClickGoes(c, "save") /\ clicks[c].token # 0
      BY <1>2, <2>4 DEF LoadOrders, LiveSession
    <3>2. "save" \in ClickStages
      BY DEF ClickStages
    <3> QED BY <1>1, <2>1, <2>2, <3>1, <3>2, StageTyped, SessionsOnlyEndKeep
               DEF ClickGoes, commerce, AccountTypeOK
  <2> QED BY <2>3, <2>4
<1>3. CASE SaveSession(c)
  <2>1. stored' = clicks[c].token
    BY <1>3 DEF SaveSession
  <2> QED BY <1>1, <1>3, <2>1, EndKeeps DEF SaveSession, commerce, AccountTypeOK
<1>4. CASE ChangeProfile(c)
  <2>1. stored' \in {0, stored}
    BY <1>1, <1>4, DeniedTyped DEF ChangeProfile
  <2> QED BY <1>1, <1>4, <2>1, EndKeeps DEF ChangeProfile, commerce, AccountTypeOK
<1>5. CASE SignOut(c)
  <2>1. SessionsOnlyEnd \/ sessions' = sessions
    BY <1>1, <1>5, KillsEnds DEF SignOut
  <2> QED BY <1>1, <1>5, <2>1, EndKeeps DEF SignOut, AccountTypeOK
<1> QED BY <1>2, <1>3, <1>4, <1>5

\* A session that expires is one Commerce no longer honours.
LEMMA ExpireKeeps ==
  ASSUME AccountInv, NEW t \in Tokens, ExpireSession(t)
  PROVE  AccountInv'
<1>1. AccountTypeOK
  BY DEF AccountInv
<1>2. /\ Kills({t}) \in [Tokens -> SessionRecords]
      /\ \A u \in Tokens : /\ Kills({t})[u].email = sessions[u].email
                           /\ Kills({t})[u].live => sessions[u].live
                           /\ Kills({t})[u].expired = sessions[u].expired
  BY <1>1, KillsOnlyEnd
<1>3. ~Kills({t})[t].live
  <2>1. sessions[t] \in SessionRecords
    BY <1>1 DEF AccountTypeOK, SessionRecords
  <2>2. Kills({t})[t] = [sessions[t] EXCEPT !.live = FALSE]
    BY DEF Kills
  <2> QED BY <2>1, <2>2, SessionEnds
<1>4. sessions' = [Kills({t}) EXCEPT ![t].expired = TRUE]
  BY DEF ExpireSession
<1>5. /\ sessions' \in [Tokens -> SessionRecords]
      /\ \A u \in Tokens :
           /\ sessions'[u].email = sessions[u].email
           /\ sessions'[u].live => sessions[u].live /\ u # t
           /\ u # t => sessions'[u].expired = sessions[u].expired
  <2> DEFINE base == Kills({t})
  <2>1. /\ base \in [Tokens -> SessionRecords]
        /\ \A u \in Tokens : /\ base[u].email = sessions[u].email
                             /\ base[u].live => sessions[u].live
                             /\ base[u].expired = sessions[u].expired
        /\ ~base[t].live /\ sessions' = [base EXCEPT ![t].expired = TRUE]
    BY <1>2, <1>3, <1>4
  <2> HIDE DEF base
  <2> QED BY <2>1 DEF SessionRecords
<1>6. UNCHANGED <<codes, sent, minted, leads, stored, clicks, accountLog>>
  BY DEF ExpireSession
<1>7. AccountTypeOK' /\ ExpiredIsDead' /\ HoldsASession'
  BY <1>1, <1>5, <1>6
     DEF AccountInv, AccountTypeOK, SessionRecords, ExpiredIsDead, HoldsASession
<1>8. SessionHasLead' /\ HoldsOnlyMade'
  BY <1>5, <1>6 DEF AccountInv, SessionHasLead, HoldsOnlyMade
<1> QED BY <1>7, <1>8 DEF AccountInv

-----------------------------------------------------------------------------
\* Every step of the accounts keeps their invariant.
LEMMA AccountsGoOn == AccountInv /\ [AccountNext]_accountVars => AccountInv'
<1> SUFFICES ASSUME AccountInv, [AccountNext]_accountVars PROVE AccountInv'
  OBVIOUS
<1>1. ASSUME NEW c \in Clicks, AccountStep(c) PROVE AccountInv'
  BY <1>1, ClickOnKeeps, RequestKeeps, VerifySignInKeeps, RecordKeeps,
     RevokeKeeps, DemoKeeps, SessionUseKeeps DEF AccountStep
<1>2. ASSUME NEW t \in Tokens, ExpireSession(t) PROVE AccountInv'
  BY <1>2, ExpireKeeps
<1>3. CASE UNCHANGED accountVars
  BY <1>3 DEF accountVars, AccountInv, AccountTypeOK, ExpiredIsDead,
     HoldsASession, HoldsOnlyMade, SessionHasLead
<1> QED BY <1>1, <1>2, <1>3 DEF AccountNext

\* A stored session that is live and not expired is not cleared by a denial of
\* another one, nor by a read of it.
LEMMA OnlySignOutClears ==
  ASSUME AccountInv, [AccountNext]_accountVars, LiveSession(stored), stored' = 0
  PROVE  \E c \in Clicks : SignOut(c)
<1>1. StoredSession = stored /\ stored # 0
  BY DEF AccountInv, AccountTypeOK, ExpiredIsDead, StoredSession, LiveSession
<1>2. stored' # stored
  BY <1>1
<1>3. PICK c \in Clicks : AccountStep(c)
  BY <1>2 DEF AccountNext, ExpireSession, accountVars
<1>4. ~ClickOn(c)
  BY <1>1 DEF ClickOn
<1>5. ~SaveSession(c)
  BY DEF AccountInv, HoldsASession, SaveSession, At
<1>6. Denied(c) => LiveSession(clicks[c].token)
  BY <1>1, <1>2 DEF Denied
<1>7. ~LoadOrders(c) /\ ~ChangeProfile(c)
  BY <1>2, <1>6 DEF LoadOrders, ChangeProfile
<1> QED BY <1>2, <1>3, <1>4, <1>5, <1>7
        DEF AccountStep, Refused, DemoRefused, LostAnswer, StartSignIn,
            VerifySignIn, RecordLead, Revoke, ClearCode, ClearSession,
            StartDemo, VerifyDemo

\* Commerce, the store and every page keep to their types, whatever is sent,
\* lost, expired or refused.
THEOREM AccountsTyped == AccountSpec => []AccountTypeOK
<1>1. AccountInv => AccountTypeOK
  BY DEF AccountInv
<1> QED BY <1>1, AccountsBegin, AccountsGoOn, PTL DEF AccountSpec

\* No tab gets a shopper's session before its lead is recorded, whatever fails,
\* and one that lives on without its lead was made for a request that still
\* records or revokes it, was dropped, named no email or could not revoke it:
\* for any number of sign-ins at once.
THEOREM LeadsRecorded == AccountSpec => []SessionHasLead
<1>1. AccountInv => SessionHasLead
  BY DEF AccountInv
<1> QED BY <1>1, AccountsBegin, AccountsGoOn, PTL DEF AccountSpec

\* A late denial never clears a sign-in that is newer and still good: for any
\* number of tabs, sessions and requests in flight.
THEOREM NewerSignInKept == AccountSpec => LiveSessionKept
<1>1. AccountInv /\ [AccountNext]_accountVars =>
        [LiveSession(stored) /\ stored' = 0 => \E c \in Clicks : SignOut(c)]_accountVars
  BY OnlySignOutClears
<1> QED BY <1>1, AccountsBegin, AccountsGoOn, PTL DEF AccountSpec, LiveSessionKept

-----------------------------------------------------------------------------
(***************************************************************************)
(* PlaygroundCheckout.  Two parts that share the steps.  A pass: whoever   *)
(* joined an exchange asked with its key and waits no longer than its      *)
(* timeout, and a kept pass outlives its refresh by the margin.  A         *)
(* binding: once written it is the payment's own end, it is written before *)
(* anybody knows of the payment, and a lookup was sent under one.          *)
(***************************************************************************)
StepNames == {"none", "wants", "exchanges", "joins", "holds", "sent", "opened"}
StepRecords ==
  [at : StepNames, for : Attempts \cup {"none"}, kind : {"none", "session", "lookup"},
   asked : StoreKeys \cup {NoKey}, key : StoreKeys \cup {NoKey}, since : Nat,
   with : Steps \cup {"none"}, until : Nat]
PaymentRecords == [state : {"none", "open", "paid"}, ends : Nat]

StepOf(r) == r \in StepRecords /\ (r.at # "none" => r.for \in Attempts)

PayTyped ==
  /\ now \in Nat /\ key \in StoreKeys
  /\ pass \in [key : StoreKeys \cup {NoKey}, until : Nat, refresh : Nat]
  /\ step \in [Steps -> StepRecords]
  /\ \A s \in Steps : StepOf(step[s])
  /\ payment \in [Attempts -> PaymentRecords]
  /\ binding \in [Attempts -> Nat]
  /\ known \subseteq Attempts

PassOutlives == now < pass.refresh => pass.refresh + Margin <= pass.until
FlightIsUp == flight # "none" => flight \in Steps /\ step[flight].at = "exchanges"
InTime(s) ==
  step[s].at = "exchanges" => step[s].since <= now /\ now <= step[s].since + Timeout
JoinedFits(t) ==
  step[t].at = "joins" => /\ step[t].with \in Steps
                          /\ step[step[t].with].at = "exchanges"
                          /\ step[t].asked = step[step[t].with].asked
ExchangesOK ==
  /\ PassOutlives /\ FlightIsUp
  /\ \A s \in Steps : InTime(s) /\ JoinedFits(s)

Written(a) == binding[a] # 0
BindingsOK ==
  /\ \A a \in Attempts :
       /\ Written(a) => payment[a].state # "none" /\ binding[a] = payment[a].ends
       /\ payment[a].state # "none" => payment[a].ends # 0
       /\ view[a] = "denied" => payment[a].state # "none" /\ now >= payment[a].ends
       /\ a \in known => Written(a)
  /\ view \in [Attempts -> {"none", "open", "paid", "denied"}]
SentOK(r) ==
  /\ r.at = "sent" /\ r.kind = "lookup" => Written(r.for)
  /\ r.at = "opened" => payment[r.for].state # "none"

PayInv ==
  PayTyped /\ ExchangesOK /\ BindingsOK /\ \A s \in Steps : SentOK(step[s])

-----------------------------------------------------------------------------
\* A call that is not under way has its type.
LEMMA RestingTyped ==
  StepOf(Resting) /\ Resting.at = "none" /\ SentOK(Resting)
BY DEF StepOf, StepRecords, StepNames, Resting, SentOK, NoKey

\* One call moves on: it was not an exchange that is joined, or it stays one.
LEMMA OneMoves ==
  ASSUME PayInv, NEW s \in Steps, NEW next, PutStep(s, next), StepOf(next), SentOK(next),
         step[s].at # "exchanges", next.at \notin {"exchanges", "joins"},
         UNCHANGED <<now, pass, flight, payment, binding>>
  PROVE  /\ step' \in [Steps -> StepRecords] /\ (\A t \in Steps : StepOf(step[t]))'
         /\ step'[s] = next /\ \A t \in Steps \ {s} : step'[t] = step[t]
         /\ ExchangesOK' /\ (\A t \in Steps : SentOK(step[t]))'
<1>1. /\ step' \in [Steps -> StepRecords]
      /\ step'[s] = next /\ \A t \in Steps \ {s} : step'[t] = step[t]
  BY DEF PayInv, PayTyped, PutStep, StepOf
<1>2. (\A t \in Steps : StepOf(step[t]))'
  BY <1>1 DEF PayInv, PayTyped, StepOf
<1>3. (\A t \in Steps : SentOK(step[t]))'
  <2> SUFFICES ASSUME NEW t \in Steps PROVE SentOK(step[t])'
    OBVIOUS
  <2>1. SentOK(step'[t])
    BY <1>1 DEF PayInv
  <2> QED BY <2>1 DEF SentOK, Written
<1>4. ExchangesOK'
  <2>1. PassOutlives' /\ FlightIsUp'
    BY <1>1 DEF PayInv, ExchangesOK, PassOutlives, FlightIsUp
  <2>2. ASSUME NEW t \in Steps PROVE InTime(t)' /\ JoinedFits(t)'
    BY <1>1 DEF PayInv, ExchangesOK, InTime, JoinedFits
  <2> QED BY <2>1, <2>2 DEF ExchangesOK
<1> QED BY <1>1, <1>2, <1>3, <1>4

\* A step that also leaves the page's view alone.
LEMMA QuietStep ==
  ASSUME PayInv, NEW s \in Steps, NEW next, PutStep(s, next), StepOf(next), SentOK(next),
         step[s].at # "exchanges", next.at \notin {"exchanges", "joins"},
         UNCHANGED <<now, key, pass, flight, payment, binding, known, view>>
  PROVE  PayInv'
<1>1. BindingsOK'
  BY DEF PayInv, BindingsOK, Written
<1> QED BY <1>1, OneMoves DEF PayInv, PayTyped

\* The invariant of the payments holds at the start.
LEMMA PayBegins == PayInit => PayInv
<1> SUFFICES ASSUME PayInit PROVE PayInv
  OBVIOUS
<1>1. PayTyped
  BY RestingTyped DEF PayInit, PayTyped, StepOf, NoPass, NoKey, Unpaid, PaymentRecords
<1>2. ExchangesOK
  BY RestingTyped DEF PayInit, ExchangesOK, PassOutlives, FlightIsUp, InTime, JoinedFits, NoPass
<1>3. BindingsOK /\ \A s \in Steps : SentOK(step[s])
  BY RestingTyped DEF PayInit, BindingsOK, Written, Unpaid
<1> QED BY <1>1, <1>2, <1>3 DEF PayInv

\* The parts of a call.
LEMMA StepOfCall ==
  ASSUME PayInv, NEW s \in Steps
  PROVE  StepOf(step[s]) /\ step[s] \in StepRecords /\ SentOK(step[s])
         /\ (step[s].at # "none" => step[s].for \in Attempts)
BY DEF PayInv, PayTyped, StepOf

\* A call that starts has been handed no pass.
LEMMA StartsKeep ==
  ASSUME PayInv, NEW s \in Steps, NEW a \in Attempts, StartsPay(s, a) \/ LooksUp(s, a)
  PROVE  PayInv'
<1>1. PICK kind \in {"session", "lookup"} :
        PutStep(s, [Resting EXCEPT !.at = "wants", !.for = a, !.kind = kind])
  BY DEF StartsPay, LooksUp
<1> DEFINE next == [Resting EXCEPT !.at = "wants", !.for = a, !.kind = kind]
<1>2. Resting \in StepRecords
  BY RestingTyped DEF StepOf
<1>3. next \in StepRecords /\ next.at = "wants" /\ next.for = a
  BY <1>2 DEF StepRecords, StepNames
<1>4. PutStep(s, next)
  BY <1>1
<1> HIDE DEF next
<1>5. StepOf(next) /\ SentOK(next)
  BY <1>3 DEF StepOf, SentOK
<1> QED BY <1>3, <1>4, <1>5, QuietStep DEF StartsPay, LooksUp

\* It is given a fresh pass, joins an exchange of its key or makes one.
LEMMA AsksKeep ==
  ASSUME PayInv, NEW s \in Steps, AsksPass(s)
  PROVE  PayInv'
<1> DEFINE own == [step[s] EXCEPT !.asked = key]
<1>1. /\ step[s] \in StepRecords /\ step[s].for \in Attempts /\ key \in StoreKeys
      /\ step[s].at = "wants"
  BY StepOfCall DEF AsksPass, PayInv, PayTyped
<1>2. own \in StepRecords /\ own.for = step[s].for /\ own.asked = key
  BY <1>1 DEF StepRecords
<1>3. UNCHANGED <<now, key, pass, payment, binding, known, view>> /\ now \in Nat
      /\ pass \in [key : StoreKeys \cup {NoKey}, until : Nat, refresh : Nat]
  BY DEF AsksPass, PayInv, PayTyped
<1>4. CASE Fresh(key)
  <2> DEFINE next == [own EXCEPT !.at = "holds", !.key = pass.key, !.until = pass.until]
  <2>1. PutStep(s, next) /\ UNCHANGED flight
    BY <1>4 DEF AsksPass
  <2> HIDE DEF own
  <2>2. next \in StepRecords /\ next.at = "holds" /\ next.for = step[s].for
    BY <1>2, <1>3 DEF StepRecords, StepNames
  <2> HIDE DEF next
  <2>3. StepOf(next) /\ SentOK(next)
    BY <1>1, <2>2 DEF StepOf, SentOK
  <2> QED BY <1>1, <1>3, <2>1, <2>2, <2>3, QuietStep
<1>5. CASE ~Fresh(key)
  <2> DEFINE join == [own EXCEPT !.at = "joins", !.with = flight]
             start == [own EXCEPT !.at = "exchanges", !.since = now]
             joins == flight # "none" /\ step[flight].asked = key
             next == IF joins THEN join ELSE start
  <2>1. PutStep(s, next) /\ flight' = IF joins THEN flight ELSE s
    BY <1>5 DEF AsksPass
  <2>2. joins => flight \in Steps /\ step[flight].at = "exchanges" /\ flight # s
    BY <1>1 DEF PayInv, ExchangesOK, FlightIsUp
  <2> HIDE DEF own
  <2>3. /\ joins => /\ join \in StepRecords /\ join.at = "joins" /\ join.for = step[s].for
                    /\ join.with = flight /\ join.asked = key
        /\ start \in StepRecords /\ start.at = "exchanges" /\ start.for = step[s].for
        /\ start.since = now /\ start.asked = key
    BY <1>2, <1>3, <2>2 DEF StepRecords, StepNames
  <2> HIDE DEF join, start
  <2>4. StepOf(next) /\ SentOK(next) /\ next \in StepRecords
    BY <1>1, <2>3 DEF StepOf, SentOK
  <2>5. /\ step' \in [Steps -> StepRecords]
        /\ step'[s] = next /\ \A t \in Steps \ {s} : step'[t] = step[t]
    BY <2>1, <2>4 DEF PayInv, PayTyped, PutStep
  <2>6. (\A t \in Steps : StepOf(step[t]))' /\ (\A t \in Steps : SentOK(step[t]))'
    <3>1. \A t \in Steps : StepOf(step'[t]) /\ SentOK(step'[t])
      BY <2>4, <2>5, StepOfCall
    <3> QED BY <1>3, <3>1 DEF StepOf, SentOK, Written
  <2>7. PassOutlives' /\ FlightIsUp'
    BY <1>1, <1>3, <2>1, <2>2, <2>3, <2>5 DEF PayInv, ExchangesOK, PassOutlives, FlightIsUp
  <2>8. ASSUME NEW t \in Steps PROVE InTime(t)' /\ JoinedFits(t)'
    <3>1. InTime(t) /\ JoinedFits(t)
      BY DEF PayInv, ExchangesOK
    <3>2. InTime(t)'
      BY <1>3, <2>3, <2>5, <3>1 DEF InTime, Timeout
    <3>3. ASSUME t # s PROVE JoinedFits(t)'
      BY <1>1, <2>5, <3>1, <3>3 DEF JoinedFits
    <3>4. ASSUME t = s PROVE JoinedFits(t)'
      BY <2>2, <2>3, <2>5, <3>4 DEF JoinedFits
    <3> QED BY <3>2, <3>3, <3>4
  <2>9. BindingsOK'
    BY <1>3 DEF PayInv, BindingsOK, Written
  <2> QED BY <1>3, <2>5, <2>6, <2>7, <2>8, <2>9 DEF PayInv, PayTyped, ExchangesOK
<1> QED BY <1>4, <1>5

\* An exchange ends, and with it every call that joined it.
LEMMA ExchangeEnds ==
  ASSUME PayInv, NEW s \in Steps, step[s].at = "exchanges", Lands(s),
         NEW rows, step' = [t \in Steps |-> IF t \in Joined(s) THEN rows[t] ELSE step[t]],
         \A t \in Joined(s) : /\ StepOf(rows[t]) /\ SentOK(rows[t])
                              /\ rows[t].at \notin {"exchanges", "joins"},
         PassOutlives',
         UNCHANGED <<now, key, payment, binding, known, view>>,
         pass' \in [key : StoreKeys \cup {NoKey}, until : Nat, refresh : Nat]
  PROVE  PayInv'
<1>1. /\ step' \in [Steps -> StepRecords]
      /\ \A t \in Joined(s) : step'[t] = rows[t]
      /\ \A t \in Steps \ Joined(s) : step'[t] = step[t]
      /\ Joined(s) \subseteq Steps /\ s \in Joined(s)
  BY StepOfCall DEF Joined, StepOf
<1>2. \A t \in Steps : StepOf(step'[t]) /\ SentOK(step'[t])
  BY <1>1, StepOfCall
<1>3. (\A t \in Steps : StepOf(step[t]))' /\ (\A t \in Steps : SentOK(step[t]))'
  BY <1>2 DEF StepOf, SentOK, Written
<1>4. FlightIsUp'
  <2> SUFFICES ASSUME flight' # "none" PROVE flight' \in Steps /\ step'[flight'].at = "exchanges"
    BY DEF FlightIsUp
  <2>1. flight' = flight /\ flight # s /\ flight \in Steps /\ step[flight].at = "exchanges"
    BY DEF Lands, PayInv, ExchangesOK, FlightIsUp
  <2>2. flight \notin Joined(s)
    BY <2>1 DEF Joined
  <2> QED BY <1>1, <2>1, <2>2
<1>5. ASSUME NEW t \in Steps PROVE InTime(t)' /\ JoinedFits(t)'
  <2>1. InTime(t) /\ JoinedFits(t)
    BY DEF PayInv, ExchangesOK
  <2>2. CASE t \in Joined(s)
    BY <1>1, <2>2 DEF InTime, JoinedFits
  <2>3. CASE t \notin Joined(s)
    <3>1. step'[t] = step[t] /\ InTime(t)'
      BY <1>1, <2>1, <2>3 DEF InTime
    <3>2. ASSUME step[t].at = "joins" PROVE step'[step[t].with] = step[step[t].with]
      <4>1. step[t].with \in Steps /\ step[t].with # s /\ step[step[t].with].at = "exchanges"
        BY <2>1, <2>3, <3>2 DEF JoinedFits, Joined
      <4>2. step[t].with \notin Joined(s)
        BY <4>1 DEF Joined
      <4> QED BY <1>1, <4>1, <4>2
    <3> QED BY <2>1, <3>1, <3>2 DEF JoinedFits
  <2> QED BY <2>2, <2>3
<1>6. BindingsOK'
  BY DEF PayInv, BindingsOK, Written
<1> QED BY <1>1, <1>3, <1>4, <1>5, <1>6 DEF PayInv, PayTyped, ExchangesOK

\* An exchange that fails hands nothing to those who joined it.
LEMMA PassFailsKeeps ==
  ASSUME PayInv, NEW s \in Steps, PassFails(s)
  PROVE  PayInv'
<1> DEFINE rows == [t \in Steps |-> Resting]
<1>1. /\ step[s].at = "exchanges" /\ Lands(s)
      /\ step' = [t \in Steps |-> IF t \in Joined(s) THEN rows[t] ELSE step[t]]
      /\ UNCHANGED <<now, key, pass, payment, binding, known, view>>
  BY DEF PassFails
<1>2. \A t \in Joined(s) : rows[t] = Resting
  BY DEF Joined
<1>3. PassOutlives' /\ pass' \in [key : StoreKeys \cup {NoKey}, until : Nat, refresh : Nat]
  BY <1>1 DEF PayInv, ExchangesOK, PassOutlives, PayTyped
<1> HIDE DEF rows
<1> QED BY <1>1, <1>2, <1>3, RestingTyped, ExchangeEnds

\* The pass that comes outlives its refresh by the margin: it is made after it
\* was asked for.
LEMMA PassComesKeeps ==
  ASSUME PayInv, NEW s \in Steps, PassComes(s)
  PROVE  PayInv'
<1>1. PICK lifetime \in {Margin, Margin + 1, Margin + 2}, made \in step[s].since .. now :
        IF lifetime <= Margin
         THEN /\ step' = [t \in Steps |-> IF t \in Joined(s) THEN Resting ELSE step[t]]
              /\ UNCHANGED pass
         ELSE /\ pass' = [key |-> step[s].asked, until |-> made + lifetime,
                          refresh |-> step[s].since + (lifetime - Margin)]
              /\ step' = [t \in Steps |-> IF t \in Joined(s)
                            THEN [step[t] EXCEPT !.at = "holds", !.with = "none",
                                                 !.key = step[s].asked, !.until = made + lifetime]
                            ELSE step[t]]
  BY DEF PassComes
<1>2. /\ step[s].at = "exchanges" /\ Lands(s)
      /\ UNCHANGED <<now, key, payment, binding, known, view>>
  BY DEF PassComes
<1>3. CASE lifetime <= Margin
  <2>1. PassFails(s)
    BY <1>1, <1>2, <1>3 DEF PassFails
  <2> QED BY <2>1, PassFailsKeeps
<1>4. CASE ~(lifetime <= Margin)
  <2> DEFINE until == made + lifetime
             asked == step[s].asked
             row(t) == [step[t] EXCEPT !.at = "holds", !.with = "none",
                                       !.key = asked, !.until = until]
             rows == [t \in Steps |-> row(t)]
  <2>1. /\ Margin \in Nat /\ step[s].since \in Nat /\ now \in Nat /\ made \in Nat
        /\ asked \in StoreKeys \cup {NoKey}
        /\ step[s].since <= made /\ lifetime \in Nat
    BY CheckoutAssumption, StepOfCall DEF PayInv, PayTyped, StepRecords
  <2>2. until \in Nat
    BY <2>1
  <2>3. /\ pass' = [key |-> asked, until |-> until,
                    refresh |-> step[s].since + (lifetime - Margin)]
        /\ step' = [t \in Steps |-> IF t \in Joined(s) THEN row(t) ELSE step[t]]
    BY <1>1, <1>4
  <2>4. step[s].since + (lifetime - Margin) \in Nat
        /\ step[s].since + (lifetime - Margin) + Margin <= until
    BY <1>4, <2>1
  <2>5. PassOutlives' /\ pass' \in [key : StoreKeys \cup {NoKey}, until : Nat, refresh : Nat]
    BY <2>1, <2>2, <2>3, <2>4 DEF PassOutlives
  <2> HIDE DEF until, asked
  <2>6. ASSUME NEW t \in Joined(s)
        PROVE  StepOf(row(t)) /\ SentOK(row(t)) /\ row(t).at \notin {"exchanges", "joins"}
    <3>1. t \in Steps /\ step[t].at \in {"exchanges", "joins"}
      BY <1>2, <2>6 DEF Joined
    <3>2. step[t] \in StepRecords /\ step[t].for \in Attempts
      BY <3>1, StepOfCall
    <3>3. row(t) \in StepRecords /\ row(t).at = "holds" /\ row(t).for = step[t].for
      BY <2>1, <2>2, <3>2 DEF StepRecords, StepNames
    <3> HIDE DEF row
    <3> QED BY <3>2, <3>3 DEF StepOf, SentOK
  <2>7. \A t \in Joined(s) : rows[t] = row(t) /\ t \in Steps
    BY <1>2 DEF Joined
  <2> HIDE DEF row
  <2>8. step' = [t \in Steps |-> IF t \in Joined(s) THEN rows[t] ELSE step[t]]
    BY <2>3
  <2> HIDE DEF rows
  <2> QED BY <1>2, <2>5, <2>6, <2>7, <2>8, ExchangeEnds
<1> QED BY <1>3, <1>4

\* A call is sent with the pass it was handed.
LEMMA SendsKeep ==
  ASSUME PayInv, NEW s \in Steps, GuardSends(s)
  PROVE  PayInv'
<1>1. step[s].at = "holds" /\ step[s].for \in Attempts /\ step[s] \in StepRecords
  BY StepOfCall DEF GuardSends
<1>2. CASE Fails(s)
  BY <1>1, <1>2, RestingTyped, QuietStep DEF Fails, GuardSends
<1>3. CASE ~Fails(s)
  <2> DEFINE next == [Resting EXCEPT !.at = "sent", !.for = step[s].for, !.kind = step[s].kind]
  <2>1. PutStep(s, next) /\ ~(step[s].kind = "lookup" /\ binding[step[s].for] = 0)
    BY <1>3 DEF GuardSends
  <2>2. Resting \in StepRecords
    BY RestingTyped DEF StepOf
  <2>3. /\ next \in StepRecords /\ next.at = "sent" /\ next.for = step[s].for
        /\ next.kind = step[s].kind
    BY <1>1, <2>2 DEF StepRecords, StepNames
  <2> HIDE DEF next
  <2>4. StepOf(next) /\ SentOK(next)
    BY <1>1, <2>1, <2>3 DEF StepOf, SentOK, Written
  <2> QED BY <1>1, <2>1, <2>3, <2>4, QuietStep DEF GuardSends
<1> QED BY <1>2, <1>3

\* A payment ends later than it begins.
LEMMA AddsOne ==
  ASSUME NEW m \in Nat PROVE m + Session \in Nat /\ m + Session # 0
BY CheckoutAssumption

\* A payment is opened for the length of a session.
LEMMA OpensPaymentKeeps ==
  ASSUME PayInv, NEW s \in Steps, PaymentOpens(s)
  PROVE  PayInv'
<1> DEFINE a == step[s].for
           paid == IF payment[a].state = "none"
                   THEN [state |-> "open", ends |-> now + Session] ELSE payment[a]
<1>1. /\ step[s].at = "sent" /\ a \in Attempts /\ step[s] \in StepRecords
      /\ now \in Nat /\ payment \in [Attempts -> PaymentRecords]
  BY StepOfCall DEF PaymentOpens, PayInv, PayTyped
<1>2. /\ payment' = [payment EXCEPT ![a] = paid]
      /\ UNCHANGED <<now, key, pass, flight, binding, known, view>>
  BY DEF PaymentOpens
<1>3. paid \in PaymentRecords /\ paid.state # "none" /\ paid.ends # 0
      /\ (payment[a].state # "none" => paid = payment[a])
  BY <1>1, AddsOne DEF PaymentRecords, PayInv, BindingsOK
<1> HIDE DEF paid
<1>4. /\ payment' \in [Attempts -> PaymentRecords] /\ payment'[a] = paid
      /\ \A b \in Attempts \ {a} : payment'[b] = payment[b]
  BY <1>1, <1>2, <1>3
<1>5. PICK next \in {Resting, [step[s] EXCEPT !.at = "opened"]} : PutStep(s, next)
  BY DEF PaymentOpens, Fails
<1>6. /\ next \in StepRecords /\ next.at \in {"none", "opened"}
      /\ next.at # "none" => next.for = a
  BY <1>1, <1>5, RestingTyped DEF StepRecords, StepNames, StepOf
<1>7. /\ step' \in [Steps -> StepRecords]
      /\ step'[s] = next /\ \A t \in Steps \ {s} : step'[t] = step[t]
  BY <1>5, <1>6 DEF PayInv, PayTyped, PutStep
<1>8. \A b \in Attempts : payment[b].state # "none" => payment'[b] = payment[b]
  BY <1>3, <1>4
<1>9. \A t \in Steps : StepOf(step'[t]) /\ (t # s => SentOK(step'[t]))
  BY <1>1, <1>6, <1>7, StepOfCall DEF StepOf
<1>10. ASSUME NEW t \in Steps PROVE StepOf(step[t])' /\ SentOK(step[t])'
  <2>1. StepOf(step'[t]) /\ (step'[t].at # "none" => step'[t].for \in Attempts)
    BY <1>9 DEF StepOf
  <2>2. step'[t].at = "sent" /\ step'[t].kind = "lookup" => binding'[step'[t].for] # 0
    BY <1>2, <1>6, <1>7, <1>9 DEF SentOK, Written
  <2>3. step'[t].at = "opened" => payment'[step'[t].for].state # "none"
    <3>1. CASE t = s
      BY <1>3, <1>4, <1>6, <1>7, <3>1
    <3>2. CASE t # s
      BY <1>7, <1>8, <2>1, <3>2, StepOfCall DEF SentOK
    <3> QED BY <3>1, <3>2
  <2> QED BY <2>1, <2>2, <2>3 DEF StepOf, SentOK, Written
<1>11. ExchangesOK'
  <2>1. PassOutlives' /\ FlightIsUp'
    BY <1>1, <1>2, <1>7 DEF PayInv, ExchangesOK, PassOutlives, FlightIsUp
  <2>2. ASSUME NEW t \in Steps PROVE InTime(t)' /\ JoinedFits(t)'
    BY <1>1, <1>2, <1>6, <1>7 DEF PayInv, ExchangesOK, InTime, JoinedFits
  <2> QED BY <2>1, <2>2 DEF ExchangesOK
<1>12. BindingsOK'
  <2>1. ASSUME NEW b \in Attempts
        PROVE  /\ binding[b] # 0 => payment'[b].state # "none" /\ binding[b] = payment'[b].ends
               /\ payment'[b].state # "none" => payment'[b].ends # 0
               /\ view[b] = "denied" => payment'[b].state # "none" /\ now >= payment'[b].ends
    <3>1. CASE payment[b].state # "none"
      BY <1>8, <3>1 DEF PayInv, BindingsOK, Written
    <3>2. CASE payment[b].state = "none"
      BY <1>3, <1>4, <3>2 DEF PayInv, BindingsOK, Written
    <3> QED BY <3>1, <3>2
  <2> QED BY <1>2, <2>1 DEF PayInv, BindingsOK, Written
<1> QED BY <1>2, <1>4, <1>7, <1>10, <1>11, <1>12 DEF PayInv, PayTyped

\* What Payments told of a payment is true until its end.
LEMMA ToldKeeps ==
  ASSUME PayInv, NEW s \in Steps, PaymentTold(s)
  PROVE  PayInv'
<1> DEFINE a == step[s].for
<1>1. /\ step[s].at = "sent" /\ step[s].kind = "lookup" /\ a \in Attempts
      /\ Written(a) /\ Fails(s)
      /\ UNCHANGED <<now, key, pass, flight, payment, binding, known>>
  BY StepOfCall DEF PaymentTold, SentOK
<1>2. BindingsOK'
  <2>1. view' = [view EXCEPT ![a] =
                IF payment[a].state = "paid"
                  THEN IF Bound(a) THEN "paid" ELSE "denied"
                  ELSE "open"]
    BY DEF PaymentTold
  <2>2. view \in [Attempts -> {"none", "open", "paid", "denied"}]
        /\ now \in Nat /\ binding \in [Attempts -> Nat]
    BY DEF PayInv, BindingsOK, PayTyped
  <2>3. view' \in [Attempts -> {"none", "open", "paid", "denied"}]
        /\ \A b \in Attempts : view'[b] = view[b] \/ (b = a /\ (view'[b] = "denied" => ~Bound(a)))
    BY <2>1, <2>2
  <2>4. ~Bound(a) => payment[a].state # "none" /\ now >= payment[a].ends
    BY <1>1, <2>2 DEF Bound, Written, PayInv, BindingsOK
  <2> QED BY <1>1, <2>3, <2>4 DEF PayInv, BindingsOK, Written
<1> QED BY <1>1, <1>2, OneMoves, RestingTyped DEF Fails, PayInv, PayTyped

\* A binding ends with its payment.
LEMMA BindsKeep ==
  ASSUME PayInv, NEW s \in Steps, Binds(s)
  PROVE  PayInv'
<1> DEFINE a == step[s].for
<1>1. /\ step[s].at = "opened" /\ a \in Attempts /\ payment[a].state # "none"
      /\ payment[a].ends \in Nat /\ payment[a].ends # 0
      /\ Fails(s) /\ known' \subseteq known \cup {a} /\ known \subseteq Attempts
      /\ binding' = [binding EXCEPT ![a] = payment[a].ends]
      /\ UNCHANGED <<now, key, pass, flight, payment, view>>
  BY StepOfCall DEF Binds, SentOK, EndOf, PayInv, BindingsOK, PayTyped, PaymentRecords
<1>2. /\ binding' \in [Attempts -> Nat] /\ binding'[a] = payment[a].ends
      /\ \A b \in Attempts \ {a} : binding'[b] = binding[b]
  BY <1>1 DEF PayInv, PayTyped
<1>3. /\ step' \in [Steps -> StepRecords]
      /\ step'[s] = Resting /\ \A t \in Steps \ {s} : step'[t] = step[t]
  BY <1>1, RestingTyped DEF PayInv, PayTyped, PutStep, StepOf, Fails
<1>4. ASSUME NEW t \in Steps PROVE StepOf(step[t])' /\ SentOK(step[t])'
  <2>1. StepOf(step'[t]) /\ SentOK(step'[t])
    BY <1>3, StepOfCall, RestingTyped
  <2> QED BY <1>1, <1>2, <2>1 DEF StepOf, SentOK, Written
<1>5. ExchangesOK'
  <2>1. PassOutlives' /\ FlightIsUp'
    BY <1>1, <1>3 DEF PayInv, ExchangesOK, PassOutlives, FlightIsUp
  <2>2. ASSUME NEW t \in Steps PROVE InTime(t)' /\ JoinedFits(t)'
    BY <1>1, <1>3, RestingTyped DEF PayInv, ExchangesOK, InTime, JoinedFits
  <2> QED BY <2>1, <2>2 DEF ExchangesOK
<1>6. BindingsOK'
  BY <1>1, <1>2 DEF PayInv, BindingsOK, Written
<1> QED BY <1>1, <1>2, <1>3, <1>4, <1>5, <1>6 DEF PayInv, PayTyped

\* The visitor's steps tie nothing to anyone.
LEMMA VisitorKeepsPay ==
  ASSUME PayInv, NEW a \in Attempts, AsksStatus(a) \/ Pays(a)
  PROVE  PayInv'
<1>1. /\ now \in Nat /\ binding \in [Attempts -> Nat] /\ payment \in [Attempts -> PaymentRecords]
      /\ view \in [Attempts -> {"none", "open", "paid", "denied"}]
  BY DEF PayInv, PayTyped, BindingsOK
<1>2. UNCHANGED <<now, key, pass, flight, step, binding, known>>
  BY DEF AsksStatus, Pays
<1>3. ExchangesOK'
  BY <1>2 DEF PayInv, ExchangesOK, PassOutlives, FlightIsUp, InTime, JoinedFits
<1>4. CASE AsksStatus(a)
  <2>1. /\ payment' = payment /\ a \in known
        /\ view' = [view EXCEPT ![a] = IF ~Bound(a) THEN "denied" ELSE payment[a].state]
    BY <1>4 DEF AsksStatus
  <2>2. payment[a].state \in {"none", "open", "paid"}
    BY <1>1 DEF PaymentRecords
  <2>3. view' \in [Attempts -> {"none", "open", "paid", "denied"}]
        /\ \A b \in Attempts : view'[b] = view[b] \/ (b = a /\ (view'[b] = "denied" => ~Bound(a)))
    BY <1>1, <2>1, <2>2
  <2>4. ~Bound(a) => payment[a].state # "none" /\ now >= payment[a].ends
    BY <1>1, <2>1 DEF Bound, Written, PayInv, BindingsOK
  <2>5. BindingsOK'
    BY <1>2, <2>1, <2>3, <2>4 DEF PayInv, BindingsOK, Written
  <2>6. (\A s \in Steps : StepOf(step[s]) /\ SentOK(step[s]))'
    BY <1>2, <2>1 DEF PayInv, PayTyped, StepOf, SentOK, Written
  <2> QED BY <1>2, <1>3, <2>1, <2>5, <2>6 DEF PayInv, PayTyped
<1>5. CASE Pays(a)
  <2>1. /\ payment' = [payment EXCEPT ![a].state = "paid"] /\ view' = view
        /\ payment[a].state = "open"
    BY <1>5 DEF Pays
  <2>2. /\ payment' \in [Attempts -> PaymentRecords]
        /\ \A b \in Attempts : /\ payment'[b].ends = payment[b].ends
                               /\ payment'[b].state = "none" <=> payment[b].state = "none"
    BY <1>1, <2>1 DEF PaymentRecords
  <2>3. BindingsOK'
    BY <1>2, <2>1, <2>2 DEF PayInv, BindingsOK, Written
  <2>4. ASSUME NEW s \in Steps PROVE StepOf(step[s])' /\ SentOK(step[s])'
    BY <1>2, <2>2, StepOfCall DEF StepOf, SentOK, Written
  <2> QED BY <1>2, <1>3, <2>2, <2>3, <2>4 DEF PayInv, PayTyped
<1> QED BY <1>4, <1>5

\* Time passes and keys change, and no pass gains by it.
LEMMA WorldKeeps ==
  ASSUME PayInv, Ticks \/ \E k \in StoreKeys : NewKey(k)
  PROVE  PayInv'
<1>1. /\ UNCHANGED <<pass, flight, step, payment, binding, known, view>>
      /\ now \in Nat /\ now' \in Nat /\ now <= now' /\ key' \in StoreKeys
      /\ pass \in [key : StoreKeys \cup {NoKey}, until : Nat, refresh : Nat]
  BY DEF Ticks, NewKey, PayInv, PayTyped
<1>2. (\A s \in Steps : StepOf(step[s]) /\ SentOK(step[s]))'
  BY <1>1 DEF PayInv, PayTyped, StepOf, SentOK, Written
<1>3. BindingsOK'
  <2>1. ASSUME NEW a \in Attempts, view[a] = "denied" PROVE now' >= payment[a].ends
    <3>1. payment[a].ends \in Nat /\ now >= payment[a].ends
      BY <2>1 DEF PayInv, BindingsOK, PayTyped, PaymentRecords
    <3> QED BY <1>1, <3>1
  <2> QED BY <1>1, <2>1 DEF PayInv, BindingsOK, Written
<1>4. PassOutlives' /\ FlightIsUp'
  <2>1. pass.refresh \in Nat
    BY <1>1
  <2>2. now' < pass.refresh => now < pass.refresh
    BY <1>1, <2>1
  <2> QED BY <1>1, <2>2 DEF PayInv, ExchangesOK, PassOutlives, FlightIsUp
<1>5. ASSUME NEW s \in Steps PROVE InTime(s)' /\ JoinedFits(s)'
  <2>1. JoinedFits(s)'
    BY <1>1 DEF PayInv, ExchangesOK, JoinedFits
  <2>2. ASSUME step[s].at = "exchanges"
        PROVE  step[s].since <= now' /\ now' <= step[s].since + Timeout
    <3>1. step[s].since \in Nat /\ step[s].since <= now /\ now <= step[s].since + Timeout
      BY <2>2, StepOfCall DEF PayInv, ExchangesOK, InTime, StepRecords
    <3>2. now' = now \/ (now' = now + 1 /\ now < step[s].since + Timeout)
      BY <2>2 DEF Ticks, NewKey
    <3> QED BY <1>1, <3>1, <3>2 DEF Timeout
  <2> QED BY <1>1, <2>1, <2>2 DEF InTime
<1> QED BY <1>1, <1>2, <1>3, <1>4, <1>5 DEF PayInv, PayTyped, ExchangesOK

\* Every step of the payments keeps their invariant.
LEMMA PayGoesOn == PayInv /\ [PayNext]_payVars => PayInv'
<1> SUFFICES ASSUME PayInv, [PayNext]_payVars PROVE PayInv'
  OBVIOUS
<1>1. CASE UNCHANGED payVars
  BY <1>1 DEF payVars, PayInv, PayTyped, StepOf, SentOK, ExchangesOK, PassOutlives,
              FlightIsUp, InTime, JoinedFits, BindingsOK, Written
<1>2. CASE PayNext
  BY <1>2, StartsKeep, AsksKeep, PassComesKeeps, PassFailsKeeps, SendsKeep,
     OpensPaymentKeeps, ToldKeeps, BindsKeep, VisitorKeepsPay, WorldKeeps DEF PayNext
<1> QED BY <1>1, <1>2

\* A status that Commerce or Payments answers is denied to the visitor who
\* started the payment only once Payments has ended it, for any calls, attempts,
\* keys and length of a session.
THEOREM DenialsAreLate == PaySpec => []DeniedOnlyLate
<1>1. PayInv => DeniedOnlyLate
  BY DEF PayInv, BindingsOK, DeniedOnlyLate
<1> QED BY <1>1, PayBegins, PayGoesOn, PTL DEF PaySpec

\* Only two steps hand a pass over: a call takes the kept one, or an exchange
\* ends for itself and those that joined it.
HandedPass(s) ==
  step[s].at # "holds" /\ step'[s].at = "holds" =>
    /\ step'[s].key = step'[s].asked
    /\ step'[s].until + Timeout > now + Margin

\* A step that ends in no pass hands none.
LEMMA OnlyOther ==
  ASSUME PayInv, NEW s \in Steps, NEW next, next.at # "holds", PutStep(s, next),
         NEW t \in Steps
  PROVE  HandedPass(t)
BY DEF HandedPass, PutStep, PayInv, PayTyped

\* A pass that is found fresh is good for the margin.
LEMMA AsksHands ==
  ASSUME PayInv, NEW s \in Steps, AsksPass(s), NEW t \in Steps
  PROVE  HandedPass(t)
<1> DEFINE own == [step[s] EXCEPT !.asked = key]
<1>1. /\ step[s] \in StepRecords /\ key \in StoreKeys
      /\ now \in Nat /\ Margin \in Nat /\ step \in [Steps -> StepRecords]
      /\ pass \in [key : StoreKeys \cup {NoKey}, until : Nat, refresh : Nat]
  BY StepOfCall, CheckoutAssumption DEF PayInv, PayTyped
<1>2. own \in StepRecords /\ own.asked = key
  BY <1>1 DEF StepRecords
<1>3. CASE Fresh(key)
  <2> DEFINE next == [own EXCEPT !.at = "holds", !.key = pass.key, !.until = pass.until]
  <2>1. PutStep(s, next)
    BY <1>3 DEF AsksPass
  <2> HIDE DEF own
  <2>2. next.at = "holds" /\ next.key = pass.key /\ next.until = pass.until /\ next.asked = key
    BY <1>1, <1>2 DEF StepRecords
  <2>3. pass.key = key /\ now < pass.refresh /\ pass.refresh + Margin <= pass.until
    BY <1>3 DEF Fresh, PayInv, ExchangesOK, PassOutlives
  <2>4. pass.until + Timeout > now + Margin
    BY <1>1, <2>3 DEF Timeout
  <2> HIDE DEF next
  <2>5. step'[s] = next /\ (t # s => step'[t] = step[t])
    BY <1>1, <2>1 DEF PutStep
  <2> QED BY <2>2, <2>3, <2>4, <2>5 DEF HandedPass
<1>4. CASE ~Fresh(key)
  <2> DEFINE join == [own EXCEPT !.at = "joins", !.with = flight]
             start == [own EXCEPT !.at = "exchanges", !.since = now]
  <2>1. PutStep(s, join) \/ PutStep(s, start)
    BY <1>4 DEF AsksPass
  <2> HIDE DEF own
  <2>2. join.at = "joins" /\ start.at = "exchanges"
    BY <1>2 DEF StepRecords
  <2> HIDE DEF join, start
  <2> QED BY <2>1, <2>2, OnlyOther
<1> QED BY <1>3, <1>4

\* So is one that comes, of the key it was asked with.
LEMMA ComesHands ==
  ASSUME PayInv, NEW s \in Steps, PassComes(s) \/ PassFails(s), NEW t \in Steps
  PROVE  HandedPass(t)
<1>1. SUFFICES ASSUME step[t].at # "holds", step'[t].at = "holds"
               PROVE  /\ step'[t].key = step'[t].asked
                      /\ step'[t].until + Timeout > now + Margin
  BY DEF HandedPass
<1>2. ~PassFails(s)
  BY <1>1, RestingTyped DEF PassFails
<1>3. PICK lifetime \in {Margin, Margin + 1, Margin + 2}, made \in step[s].since .. now :
        /\ ~(lifetime <= Margin) /\ t \in Joined(s)
        /\ step'[t] = [step[t] EXCEPT !.at = "holds", !.with = "none",
                                      !.key = step[s].asked, !.until = made + lifetime]
  <2>1. PICK lifetime \in {Margin, Margin + 1, Margin + 2}, made \in step[s].since .. now :
        IF lifetime <= Margin
         THEN step' = [o \in Steps |-> IF o \in Joined(s) THEN Resting ELSE step[o]]
         ELSE step' = [o \in Steps |-> IF o \in Joined(s)
                            THEN [step[o] EXCEPT !.at = "holds", !.with = "none",
                                                 !.key = step[s].asked, !.until = made + lifetime]
                            ELSE step[o]]
    BY <1>2 DEF PassComes
  <2>2. ~(lifetime <= Margin)
    BY <1>1, <2>1, RestingTyped
  <2>3. t \in Joined(s)
    BY <1>1, <2>1, <2>2
  <2> QED BY <2>1, <2>2, <2>3
<1>4. /\ step[t] \in StepRecords /\ step[s].since \in Nat /\ now \in Nat /\ Margin \in Nat
  BY StepOfCall, CheckoutAssumption DEF StepRecords, PayInv, PayTyped
<1>5. step[t].asked = step[s].asked
  BY <1>3 DEF Joined, PayInv, ExchangesOK, JoinedFits
<1>6. now <= step[s].since + 1 /\ step[s].since <= now
  BY DEF PassComes, PassFails, PayInv, ExchangesOK, InTime, Timeout
<1>7. /\ step'[t].key = step[s].asked /\ step'[t].asked = step[t].asked
      /\ step'[t].until = made + lifetime
  BY <1>3, <1>4 DEF StepRecords
<1>8. made + lifetime + 1 > now + Margin
  BY <1>3, <1>4, <1>6
<1> QED BY <1>5, <1>7, <1>8 DEF Timeout

\* No other step hands a pass.
LEMMA EveryStepHands ==
  ASSUME PayInv, [PayNext]_payVars, NEW t \in Steps
  PROVE  HandedPass(t)
<1>1. CASE step' = step
  BY <1>1 DEF HandedPass
<1>2. ASSUME NEW s \in Steps, AsksPass(s) PROVE HandedPass(t)
  BY <1>2, AsksHands
<1>3. ASSUME NEW s \in Steps, PassComes(s) \/ PassFails(s) PROVE HandedPass(t)
  BY <1>3, ComesHands
<1>4. ASSUME NEW s \in Steps,
             \/ GuardSends(s) \/ PaymentOpens(s) \/ PaymentTold(s) \/ Binds(s)
             \/ \E a \in Attempts : StartsPay(s, a) \/ LooksUp(s, a)
      PROVE  HandedPass(t)
  <2>1. step[s] \in StepRecords /\ Resting \in StepRecords /\ Resting.at = "none"
    BY StepOfCall, RestingTyped DEF StepOf
  <2>2. \E next : next.at # "holds" /\ PutStep(s, next)
    <3>1. CASE PutStep(s, Resting)
      BY <2>1, <3>1
    <3>2. CASE PutStep(s, [step[s] EXCEPT !.at = "opened"])
      <4>1. [step[s] EXCEPT !.at = "opened"].at = "opened"
        BY <2>1 DEF StepRecords
      <4> QED BY <3>2, <4>1
    <3>3. ASSUME NEW for, NEW kind, NEW at \in {"wants", "sent"},
                 PutStep(s, [Resting EXCEPT !.at = at, !.for = for, !.kind = kind])
          PROVE  \E next : next.at # "holds" /\ PutStep(s, next)
      <4>1. [Resting EXCEPT !.at = at, !.for = for, !.kind = kind].at = at
        BY <2>1 DEF StepRecords
      <4> QED BY <3>3, <4>1
    <3> QED BY <1>4, <3>1, <3>2, <3>3
            DEF GuardSends, PaymentOpens, PaymentTold, Binds, Fails, StartsPay, LooksUp
  <2> QED BY <2>2, OnlyOther
<1> QED BY <1>1, <1>2, <1>3, <1>4
        DEF PayNext, payVars, AsksStatus, Pays, Ticks, NewKey

\* A call is handed a pass of the key it asked with, good for the margin less
\* the time of one exchange, for any calls, keys, margin and lifetime.
THEOREM PassesLast == PaySpec => PassLasts
<1>1. PayInv /\ [PayNext]_payVars =>
        [\A s \in Steps : (step[s].at # "holds" /\ step'[s].at = "holds") =>
           /\ step'[s].key = step'[s].asked
           /\ step'[s].until + Timeout > now + Margin]_payVars
  BY EveryStepHands DEF HandedPass
<1> QED BY <1>1, PayBegins, PayGoesOn, PTL DEF PaySpec, PassLasts


\* Beside the invariant, times stay within the clock's bound and a session.
PayBounded ==
  /\ now \in 0 .. MaxNow
  /\ \A a \in Attempts : /\ payment[a].ends \in 0 .. MaxNow + Session
                         /\ binding[a] \in 0 .. MaxNow + Session

\* No time has passed at the start.
LEMMA PayBoundedAtFirst == ASSUME PayInit PROVE PayBounded
BY CheckoutAssumption DEF PayInit, PayBounded, Unpaid

\* Ends of passes and payments stay within time and a session.
LEMMA PayStaysBounded ==
  ASSUME PayInv, PayBounded, [PayNext]_payVars PROVE PayBounded'
<1>1. /\ payment \in [Attempts -> PaymentRecords] /\ binding \in [Attempts -> Nat]
      /\ \A s \in Steps : step[s].at # "none" => step[s].for \in Attempts
      /\ now \in 0 .. MaxNow
  BY DEF PayInv, PayTyped, StepOf, PayBounded
<1>2. ASSUME UNCHANGED <<now, payment, binding>> PROVE PayBounded'
  BY <1>2 DEF PayBounded
<1>3. ASSUME NEW s \in Steps, PaymentOpens(s) PROVE PayBounded'
  <2>1. now + Session \in 0 .. MaxNow + Session
    BY <1>1, CheckoutAssumption
  <2>2. PICK b \in Attempts : b = step[s].for
    BY <1>1, <1>3 DEF PaymentOpens
  <2>3. PICK open : open = [state |-> "open", ends |-> now + Session]
    OBVIOUS
  <2>4. /\ payment' = [payment EXCEPT ![b] = IF payment[b].state = "none" THEN open
                                             ELSE payment[b]]
        /\ UNCHANGED <<now, binding>>
    BY <1>3, <2>2, <2>3 DEF PaymentOpens
  <2>5. \A a \in Attempts : payment'[a] \in {payment[a], open}
    BY <1>1, <2>4
  <2>6. open.ends = now + Session
    BY <2>3
  <2> QED BY <2>1, <2>4, <2>5, <2>6 DEF PayBounded
<1>4. ASSUME NEW s \in Steps, Binds(s) PROVE PayBounded'
  <2>1. PICK b \in Attempts : /\ binding' = [binding EXCEPT ![b] = payment[b].ends]
                              /\ UNCHANGED <<now, payment>>
    BY <1>1, <1>4 DEF Binds, EndOf
  <2>2. \A a \in Attempts : binding'[a] \in {binding[a], payment[a].ends}
    BY <1>1, <2>1
  <2> QED BY <2>1, <2>2 DEF PayBounded
<1>5. ASSUME NEW a \in Attempts, Pays(a) PROVE PayBounded'
  <2>1. /\ payment' = [payment EXCEPT ![a].state = "paid"] /\ UNCHANGED <<now, binding>>
    BY <1>5 DEF Pays
  <2>2. \A b \in Attempts : payment'[b].ends = payment[b].ends
    BY <1>1, <2>1 DEF PaymentRecords
  <2> QED BY <2>1, <2>2 DEF PayBounded
<1>6. CASE Ticks
  BY <1>1, <1>6, CheckoutAssumption DEF Ticks, PayBounded
<1>7. ASSUME NEW s \in Steps, NEW a \in Attempts, StartsPay(s, a) \/ LooksUp(s, a)
      PROVE  PayBounded'
  BY <1>2, <1>7 DEF StartsPay, LooksUp
<1>8. ASSUME NEW s \in Steps,
             AsksPass(s) \/ PassComes(s) \/ PassFails(s) \/ GuardSends(s) \/ PaymentTold(s)
      PROVE  PayBounded'
  BY <1>2, <1>8 DEF AsksPass, PassComes, PassFails, GuardSends, PaymentTold
<1>9. CASE (\E a \in Attempts : AsksStatus(a)) \/ (\E k \in StoreKeys : NewKey(k))
           \/ UNCHANGED payVars
  BY <1>2, <1>9 DEF AsksStatus, NewKey, payVars
<1> QED BY <1>3, <1>4, <1>5, <1>6, <1>7, <1>8, <1>9 DEF PayNext

\* What they come to is the type invariant of the payments.
LEMMA PayTypes == ASSUME PayInv, PayBounded PROVE PayTypeOK
<1>1. /\ pass \in [key : StoreKeys \cup {NoKey}, until : Nat, refresh : Nat]
      /\ \A s \in Steps : step[s] \in StepRecords
      /\ \A a \in Attempts : payment[a] \in PaymentRecords
      /\ view \in [Attempts -> {"none", "open", "paid", "denied"}]
      /\ FlightIsUp /\ key \in StoreKeys /\ known \subseteq Attempts
  BY DEF PayInv, PayTyped, ExchangesOK, BindingsOK
<1>2. ASSUME NEW s \in Steps
      PROVE  /\ step[s].at \in StepNames /\ step[s].for \in Attempts \cup {"none"}
             /\ step[s].kind \in {"none", "session", "lookup"}
  BY <1>1 DEF StepRecords
<1>3. ASSUME NEW a \in Attempts
      PROVE  /\ payment[a].state \in {"none", "open", "paid"}
             /\ view[a] \in {"none", "open", "paid", "denied"}
  BY <1>1 DEF PaymentRecords
<1>4. pass.key \in StoreKeys \cup {NoKey}
  BY <1>1
<1> QED BY <1>1, <1>2, <1>3, <1>4 DEF PayTypeOK, PayBounded, FlightIsUp, StepNames
-----------------------------------------------------------------------------
(***************************************************************************)
(* PlaygroundTour.  Until the visitor edits a product, or the store seeds  *)
(* one that was relied on, what a look has read and every baseline is what *)
(* the store has; and what a look counted of the examples is all there     *)
(* are, or one was added since.                                            *)
(***************************************************************************)
StepSets == SUBSET TourSteps
Ones == {0, 1}
Counts == 0 .. MaxExamples
StoreRecords ==
  [pages : Versions, catalog : Versions, unseeded : SUBSET Digests,
   connected : BOOLEAN, examples : Counts, own : Ones, sample : Ones,
   labels : Ones, visited : BOOLEAN]
NoteRecords ==
  [pages : Versions \cup {NoBaseline}, catalog : Versions \cup {NoBaseline},
   welcome : Versions \cup {NoBaseline}, celebrated : StepSets]
LookRecords ==
  [at : Points, admin : BOOLEAN, read : Versions, examples : Counts,
   done : StepSets, seen : StepSets]

TourTyped ==
  /\ store \in StoreRecords /\ note \in NoteRecords
  /\ look \in [Looks -> LookRecords] /\ earned \subseteq TourSteps
  /\ intruded \subseteq TourSteps

WorkIsEarned ==
  /\ store.connected => "connect-payments" \in earned
  /\ store.own # 0 => "place-order" \in earned
  /\ store.labels # 0 => "ship-order" \in earned
  /\ ~CheckoutOpen /\ store.visited => "place-order" \in earned

Earned == earned \cup intruded
Untouched == "edit-product" \notin Earned
Baselines == Untouched =>
  /\ note.pages \in {store.pages, NoBaseline}
  /\ note.catalog \in {store.catalog, NoBaseline}
  /\ note.welcome \in {store.catalog, NoBaseline}

AtPages == {"note pages", "set pages"}
AtCatalog == {"note catalog", "set catalog"}
\* Where a look holds nothing that it read or counted.
Quiet == Points \ (AtPages \cup AtCatalog \cup {"orders", "labels"})

ReadOK(r) == Untouched => /\ r.at \in AtPages => r.read = store.pages
                          /\ r.at \in AtCatalog => r.read = store.catalog
TicksEarned(r) == r.done \subseteq Earned /\ r.seen \subseteq Earned
Counted(r) ==
  /\ r.at = "orders" /\ "place-order" \notin intruded => r.examples = store.examples
  /\ r.at = "labels" /\ "ship-order" \notin intruded => r.examples = store.sample

LookOK(r) == r \in LookRecords /\ ReadOK(r) /\ TicksEarned(r) /\ Counted(r)

TourInv ==
  /\ TourTyped /\ WorkIsEarned /\ Baselines
  /\ \A l \in Looks : LookOK(look[l])
  /\ note.celebrated \subseteq Earned

-----------------------------------------------------------------------------
\* The mark of a missing baseline is no version.
LEMMA NoBaselineIsNone == NoBaseline \notin Versions /\ NoBaseline # 0 /\ 0 \in Versions
BY TourAssumption DEF NoBaseline, Versions

\* A look goes on and nothing else moves.
LEMMA LookKeeps ==
  ASSUME TourInv, NEW l \in Looks, NEW next, look' = [look EXCEPT ![l] = next],
         LookOK(next), UNCHANGED <<store, note, earned, intruded>>
  PROVE  TourInv'
<1>1. /\ look' \in [Looks -> LookRecords]
      /\ look'[l] = next /\ \A o \in Looks \ {l} : look'[o] = look[o]
  BY DEF TourInv, TourTyped, LookOK
<1>2. \A o \in Looks : LookOK(look'[o])
  BY <1>1 DEF TourInv
<1>3. (\A o \in Looks : LookOK(look[o]))'
  BY <1>2 DEF LookOK, ReadOK, TicksEarned, Counted, Earned, Untouched
<1> QED BY <1>1, <1>3 DEF TourInv, TourTyped, WorkIsEarned, Baselines, Earned, Untouched

\* A look that has not begun claims nothing.
LEMMA NoLookOK == LookOK(NoLook)
<1>1. NoLook \in LookRecords
  BY NoBaselineIsNone, TourAssumption DEF NoLook, LookRecords, Points, StepSets, Counts
<1>2. NoLook.at = "idle" /\ NoLook.read = 0 /\ NoLook.done = {} /\ NoLook.seen = {}
  BY DEF NoLook
<1> QED BY <1>1, <1>2 DEF LookOK, ReadOK, TicksEarned, Counted, AtPages, AtCatalog

\* Nor does one that just did.
LEMMA StartsOK ==
  ASSUME NEW r \in LookRecords, r.at = "pages", r.done = {}, r.seen = {}
  PROVE  LookOK(r)
BY DEF LookOK, ReadOK, TicksEarned, Counted, AtPages, AtCatalog

\* Looks begin with a visit of the shop or of the card.
LEMMA StartingLooks ==
  /\ LookOK([NoLook EXCEPT !.at = "pages"])
  /\ LookOK([NoLook EXCEPT !.at = "pages", !.admin = TRUE])
<1>1. /\ NoLook \in LookRecords /\ "pages" \in Points
      /\ NoLook.done = {} /\ NoLook.seen = {}
  BY NoLookOK DEF LookOK, NoLook, Points
<1> DEFINE shop == [NoLook EXCEPT !.at = "pages"]
           card == [NoLook EXCEPT !.at = "pages", !.admin = TRUE]
<1>2. shop \in LookRecords /\ card \in LookRecords
  BY <1>1 DEF LookRecords
<1>3. /\ shop.at = "pages" /\ shop.done = {} /\ shop.seen = {}
      /\ card.at = "pages" /\ card.done = {} /\ card.seen = {}
  BY <1>1 DEF LookRecords
<1> HIDE DEF shop, card
<1>4. LookOK(shop) /\ LookOK(card)
  BY <1>2, <1>3, StartsOK
<1> QED BY <1>4 DEF shop, card

\* A look that goes on to set the baseline still holds what it read.
LEMMA ReachesKeeps ==
  ASSUME TourInv, NEW l \in Looks, UNCHANGED <<store, note, earned, intruded>>,
         \/ look[l].at = "note pages" /\ Reaches(l, "set pages")
         \/ look[l].at = "note catalog" /\ Reaches(l, "set catalog")
  PROVE  TourInv'
<1>1. PICK at \in {"set pages", "set catalog"} :
        /\ Reaches(l, at)
        /\ at = "set pages" => look[l].at = "note pages"
        /\ at = "set catalog" => look[l].at = "note catalog"
  OBVIOUS
<1> DEFINE next == [look[l] EXCEPT !.at = at]
<1>2. LookOK(look[l]) /\ look[l] \in LookRecords /\ at \in Points
  BY DEF TourInv, LookOK, Points
<1>3. /\ next \in LookRecords /\ next.at = at /\ next.read = look[l].read
      /\ next.done = look[l].done /\ next.seen = look[l].seen
  BY <1>2 DEF LookRecords
<1>4. look' = [look EXCEPT ![l] = next]
  BY <1>1 DEF Reaches
<1> HIDE DEF next
<1>5. ReadOK(next)
  BY <1>1, <1>2, <1>3 DEF LookOK, ReadOK, AtPages, AtCatalog
<1>6. LookOK(next)
  BY <1>1, <1>2, <1>3, <1>5 DEF LookOK, TicksEarned, Counted
<1> QED BY <1>4, <1>6, LookKeeps

\* A look that reads a version read what the store has.
LEMMA ReadRecord ==
  ASSUME TourInv, NEW l \in Looks, NEW at \in Points \ {"orders", "labels"},
         NEW read \in Versions, Reads(l, at, read),
         at \in AtPages => read = store.pages, at \in AtCatalog => read = store.catalog
  PROVE  \E next : look' = [look EXCEPT ![l] = next] /\ LookOK(next)
<1> DEFINE next == [look[l] EXCEPT !.at = at, !.read = read]
<1>1. LookOK(look[l]) /\ look[l] \in LookRecords
  BY DEF TourInv, LookOK
<1>2. /\ next \in LookRecords /\ next.at = at /\ next.read = read
      /\ next.done = look[l].done /\ next.seen = look[l].seen
  BY <1>1 DEF LookRecords
<1>3. look' = [look EXCEPT ![l] = next]
  BY DEF Reads, TourInv, TourTyped
<1> HIDE DEF next
<1>4. LookOK(next)
  BY <1>1, <1>2 DEF LookOK, ReadOK, TicksEarned, Counted
<1> QED BY <1>3, <1>4

\* A look that finds steps found earned ones.
LEMMA FoundRecord ==
  ASSUME TourInv, NEW l \in Looks, NEW at \in Quiet,
         NEW steps \in StepSets, steps \subseteq Earned, Finds(l, at, steps)
  PROVE  \E next : look' = [look EXCEPT ![l] = next] /\ LookOK(next)
<1> DEFINE next == [look[l] EXCEPT !.at = at, !.done = @ \cup steps,
                                   !.read = 0, !.examples = 0]
<1>1. LookOK(look[l]) /\ look[l] \in LookRecords
  BY DEF TourInv, LookOK
<1>2. look[l].done \cup steps \in StepSets /\ 0 \in Counts /\ at \in Points
  BY <1>1, TourAssumption DEF LookRecords, StepSets, Counts, Quiet
<1>3. /\ next \in LookRecords /\ next.at = at
      /\ next.done = look[l].done \cup steps /\ next.seen = look[l].seen
  BY <1>1, <1>2, NoBaselineIsNone DEF LookRecords
<1>4. look' = [look EXCEPT ![l] = next]
  BY DEF Finds, TourInv, TourTyped
<1> HIDE DEF next
<1>5. LookOK(next)
  BY <1>1, <1>3 DEF LookOK, ReadOK, TicksEarned, Counted, Quiet
<1> QED BY <1>4, <1>5

\* A look that compares what it read with a baseline.
LEMMA Compares ==
  ASSUME TourInv, NEW l \in Looks, NEW baseline \in Versions,
         \/ /\ look[l].at \in AtPages /\ PagesCompared(l, baseline)
            /\ Untouched => baseline = store.pages
         \/ /\ look[l].at \in AtCatalog /\ CatalogCompared(l, baseline)
            /\ Untouched => baseline = store.catalog
  PROVE  \E next : look' = [look EXCEPT ![l] = next] /\ LookOK(next)
<1>1. look[l].read # baseline => "edit-product" \in Earned
  BY DEF TourInv, LookOK, ReadOK, Untouched
<1>2. 0 \in Versions /\ {"edit-product"} \in StepSets
  BY NoBaselineIsNone DEF TourSteps, StepSets
<1>3. CASE Reads(l, "catalog", 0)
  BY <1>2, <1>3, ReadRecord DEF Points, AtPages, AtCatalog
<1>4. "connect" \in Quiet
  BY DEF Quiet, Points, AtPages, AtCatalog
<1>5. CASE Finds(l, "connect", {"edit-product"}) /\ look[l].read # baseline
  BY <1>1, <1>2, <1>4, <1>5, FoundRecord
<1>6. CASE CatalogCompared(l, baseline)
  <2> DEFINE steps == Given({"edit-product"}, look[l].read # baseline)
  <2>1. steps = IF look[l].read # baseline THEN {"edit-product"} ELSE {}
    BY DEF Given
  <2>2. steps \subseteq Earned /\ steps \in StepSets
    BY <1>1, <1>2, <2>1 DEF StepSets
  <2> HIDE DEF steps
  <2>3. Finds(l, "connect", steps)
    BY <1>6 DEF CatalogCompared, steps
  <2> QED BY <1>4, <2>2, <2>3, FoundRecord
<1> QED BY <1>3, <1>5, <1>6 DEF PagesCompared

\* The invariant of the tour holds at the start.
LEMMA TourBegins == TourInit => TourInv
<1> SUFFICES ASSUME TourInit PROVE TourInv
  OBVIOUS
<1>1. NoLook \in LookRecords /\ look = [l \in Looks |-> NoLook]
  BY NoLookOK DEF LookOK, TourInit
<1>2. store \in StoreRecords /\ store.pages = 0 /\ store.catalog = 0
  BY NoBaselineIsNone, TourAssumption DEF TourInit, StoreRecords, Counts, Ones
<1>3. PICK welcome \in {NoBaseline, 0} :
        note = [pages |-> NoBaseline, catalog |-> NoBaseline,
                welcome |-> welcome, celebrated |-> {}]
  BY DEF TourInit
<1>4. note \in NoteRecords
  BY <1>3, NoBaselineIsNone DEF NoteRecords, StepSets
<1>5. TourTyped /\ WorkIsEarned
  BY <1>1, <1>2, <1>4 DEF TourTyped, WorkIsEarned, TourInit, TourSteps
<1>6. Baselines /\ note.celebrated \subseteq Earned
  BY <1>2, <1>3 DEF Baselines
<1> QED BY <1>1, <1>5, <1>6, NoLookOK DEF TourInv

-----------------------------------------------------------------------------
\* What productEdited reads and writes.
LEMMA EditedKeeps ==
  ASSUME TourInv, NEW l \in Looks,
         \/ ReadsPages(l) \/ ReadsCatalog(l) \/ NotesPages(l) \/ NotesCatalog(l)
         \/ PagesUnread(l) \/ CatalogUnread(l)
  PROVE  TourInv'
<1>1. /\ store.pages \in Versions /\ store.catalog \in Versions /\ 0 \in Versions
      /\ note.pages \in Versions \cup {NoBaseline}
      /\ note.catalog \in Versions \cup {NoBaseline}
      /\ {} \in StepSets /\ Baselines
  BY NoBaselineIsNone DEF TourInv, TourTyped, StoreRecords, NoteRecords, StepSets
<1>2. UNCHANGED <<store, note, earned, intruded>>
  BY DEF ReadsPages, ReadsCatalog, NotesPages, NotesCatalog, PagesUnread, CatalogUnread
<1>3. CASE Reads(l, "note pages", store.pages) \/ Reads(l, "note catalog", store.catalog)
           \/ Reads(l, "catalog", 0)
  BY <1>1, <1>2, <1>3, ReadRecord, LookKeeps DEF Points, AtPages, AtCatalog
<1>4. CASE NotesPages(l)
  <2>1. CASE note.pages = NoBaseline
    BY <1>2, <1>4, <2>1, ReachesKeeps DEF NotesPages
  <2>2. CASE note.pages # NoBaseline
    BY <1>1, <1>2, <1>4, <2>2, Compares, LookKeeps DEF NotesPages, Baselines, AtPages
  <2> QED BY <2>1, <2>2
<1>5. CASE NotesCatalog(l)
  <2>1. CASE note.catalog = NoBaseline
    BY <1>2, <1>5, <2>1, ReachesKeeps DEF NotesCatalog
  <2>2. CASE note.catalog # NoBaseline
    BY <1>1, <1>2, <1>5, <2>2, Compares, LookKeeps DEF NotesCatalog, Baselines, AtCatalog
  <2> QED BY <2>1, <2>2
<1>6. CASE Finds(l, "connect", {})
  BY <1>1, <1>2, <1>6, FoundRecord, LookKeeps DEF Quiet, Points, AtPages, AtCatalog
<1> QED BY <1>3, <1>4, <1>5, <1>6 DEF ReadsPages, ReadsCatalog, PagesUnread, CatalogUnread

\* A baseline is written while the look compares.
LEMMA NoteKeeps ==
  ASSUME TourInv, NEW l \in Looks, NEW next, look' = [look EXCEPT ![l] = next],
         LookOK(next), note' \in NoteRecords,
         UNCHANGED <<store, earned, intruded>>,
         note'.celebrated \subseteq Earned,
         Untouched => /\ note'.pages \in {store.pages, NoBaseline}
                      /\ note'.catalog \in {store.catalog, NoBaseline}
                      /\ note'.welcome \in {store.catalog, NoBaseline}
  PROVE  TourInv'
<1>1. /\ look' \in [Looks -> LookRecords]
      /\ look'[l] = next /\ \A o \in Looks \ {l} : look'[o] = look[o]
  BY DEF TourInv, TourTyped, LookOK
<1>2. \A o \in Looks : LookOK(look'[o])
  BY <1>1 DEF TourInv
<1>3. (\A o \in Looks : LookOK(look[o]))'
  BY <1>2 DEF LookOK, ReadOK, TicksEarned, Counted, Earned, Untouched
<1>4. TourTyped' /\ WorkIsEarned'
  BY <1>1 DEF TourInv, TourTyped, WorkIsEarned
<1>5. Baselines' /\ (note.celebrated \subseteq Earned)'
  BY DEF TourInv, Baselines, Earned, Untouched
<1> QED BY <1>3, <1>4, <1>5 DEF TourInv

\* A baseline that is set is what the store has, until an edit.
LEMMA SetsKeep ==
  ASSUME TourInv, NEW l \in Looks, SetsPages(l) \/ SetsCatalog(l)
  PROVE  TourInv'
<1>1. /\ note \in NoteRecords /\ Baselines /\ note.celebrated \subseteq Earned
      /\ look[l].read \in Versions /\ ReadOK(look[l])
  BY DEF TourInv, TourTyped, LookOK, LookRecords
<1>2. CASE SetsPages(l)
  <2>1. /\ note' = [note EXCEPT !.pages = look[l].read]
        /\ PagesCompared(l, look[l].read) /\ UNCHANGED <<store, earned, intruded>>
        /\ look[l].at \in AtPages /\ (Untouched => look[l].read = store.pages)
    BY <1>1, <1>2 DEF SetsPages, ReadOK, AtPages
  <2>2. /\ note' \in NoteRecords /\ note'.pages = look[l].read
        /\ note'.catalog = note.catalog /\ note'.welcome = note.welcome
        /\ note'.celebrated = note.celebrated
    BY <1>1, <2>1 DEF NoteRecords
  <2>3. \E next : look' = [look EXCEPT ![l] = next] /\ LookOK(next)
    BY <1>1, <2>1, Compares
  <2> QED BY <1>1, <2>1, <2>2, <2>3, NoteKeeps DEF Baselines
<1>3. CASE SetsCatalog(l)
  <2> DEFINE baseline == IF note.welcome # NoBaseline THEN note.welcome ELSE look[l].read
  <2>1. /\ note' = [note EXCEPT !.catalog = baseline]
        /\ CatalogCompared(l, baseline) /\ UNCHANGED <<store, earned, intruded>>
        /\ look[l].at \in AtCatalog /\ (Untouched => look[l].read = store.catalog)
    BY <1>1, <1>3 DEF SetsCatalog, ReadOK, AtCatalog
  <2>2. baseline \in Versions /\ (Untouched => baseline = store.catalog)
    BY <1>1, <2>1 DEF Baselines, NoteRecords
  <2> HIDE DEF baseline
  <2>3. /\ note' \in NoteRecords /\ note'.catalog = baseline
        /\ note'.pages = note.pages /\ note'.welcome = note.welcome
        /\ note'.celebrated = note.celebrated
    BY <1>1, <2>1, <2>2 DEF NoteRecords
  <2>4. \E next : look' = [look EXCEPT ![l] = next] /\ LookOK(next)
    BY <2>1, <2>2, Compares
  <2> QED BY <1>1, <2>1, <2>2, <2>3, <2>4, NoteKeeps DEF Baselines
<1> QED BY <1>2, <1>3

\* The other steps, each from the fact that says it is done.
LEMMA FindsKeeps ==
  ASSUME TourInv, NEW l \in Looks, NEW at \in Quiet,
         NEW what \in TourSteps, NEW condition \in BOOLEAN,
         condition => what \in Earned, Finds(l, at, Given({what}, condition)),
         UNCHANGED <<store, note, earned, intruded>>
  PROVE  TourInv'
<1> DEFINE steps == Given({what}, condition)
<1>1. steps = IF condition THEN {what} ELSE {}
  BY DEF Given
<1>2. steps \in StepSets /\ steps \subseteq Earned
  BY <1>1 DEF StepSets
<1> QED BY <1>2, FoundRecord, LookKeeps

\* Orders and labels beyond the examples counted are the visitor's, or one that
\* was added in between.
LEMMA CountsKeep ==
  ASSUME TourInv, NEW l \in Looks,
         CountsExamples(l) \/ CountsOrders(l) \/ CountsSample(l) \/ CountsLabels(l)
  PROVE  TourInv'
<1>1. /\ store.examples \in Counts /\ store.own \in Ones
      /\ store.sample \in Ones /\ store.labels \in Ones
      /\ look[l] \in LookRecords /\ look[l].examples \in Counts /\ LookOK(look[l])
  BY DEF TourInv, TourTyped, StoreRecords, LookOK, LookRecords
<1>2. Counts \subseteq Nat /\ Ones \subseteq Counts
      /\ store.examples \in Nat /\ store.sample \in Nat
  BY <1>1, TourAssumption DEF Counts, Ones
<1>3. CASE CountsExamples(l)
  <2> DEFINE next == [look[l] EXCEPT !.at = "orders", !.examples = store.examples]
  <2>1. look' = [look EXCEPT ![l] = next]
    BY <1>3 DEF CountsExamples
  <2>2. /\ next \in LookRecords /\ next.at = "orders" /\ next.examples = store.examples
        /\ next.done = look[l].done /\ next.seen = look[l].seen
    BY <1>1 DEF LookRecords, Points
  <2> HIDE DEF next
  <2>3. LookOK(next)
    BY <1>1, <2>2 DEF LookOK, ReadOK, TicksEarned, Counted, AtPages, AtCatalog
  <2> QED BY <1>3, <2>1, <2>3, LookKeeps DEF CountsExamples
<1>4. CASE CountsSample(l)
  <2> DEFINE next == [look[l] EXCEPT !.at = "labels", !.examples = store.sample]
  <2>1. look' = [look EXCEPT ![l] = next]
    BY <1>4 DEF CountsSample
  <2>2. /\ next \in LookRecords /\ next.at = "labels" /\ next.examples = store.sample
        /\ next.done = look[l].done /\ next.seen = look[l].seen
    BY <1>1, <1>2 DEF LookRecords, Points
  <2> HIDE DEF next
  <2>3. LookOK(next)
    BY <1>1, <2>2 DEF LookOK, ReadOK, TicksEarned, Counted, AtPages, AtCatalog
  <2> QED BY <1>4, <2>1, <2>3, LookKeeps DEF CountsSample
<1>5. CASE CountsOrders(l)
  <2> DEFINE condition == CheckoutOpen /\ VisitorOrders(l) > 0
  <2>1. condition => "place-order" \in Earned
    <3> SUFFICES ASSUME VisitorOrders(l) > 0, "place-order" \notin earned,
                        "place-order" \notin intruded
                 PROVE FALSE
      BY DEF Earned
    <3>1. store.own = 0
      BY DEF TourInv, WorkIsEarned
    <3>2. look[l].examples = store.examples
      BY <1>1, <1>5 DEF CountsOrders, LookOK, Counted
    <3>3. VisitorOrders(l) = store.examples + 0 - store.examples
      BY <3>1, <3>2 DEF VisitorOrders
    <3> QED BY <1>2, <3>3
  <2>2. condition \in BOOLEAN /\ "place-order" \in TourSteps
        /\ Finds(l, "sample", Given({"place-order"}, condition))
        /\ UNCHANGED <<store, note, earned, intruded>>
    BY <1>5, TourAssumption DEF CountsOrders, TourSteps
  <2> HIDE DEF condition
  <2> QED BY <2>1, <2>2, FindsKeeps DEF Quiet, Points, AtPages, AtCatalog
<1>6. CASE CountsLabels(l)
  <2> DEFINE condition == VisitorLabels(l) > 0
  <2>1. condition => "ship-order" \in Earned
    <3> SUFFICES ASSUME VisitorLabels(l) > 0, "ship-order" \notin earned,
                        "ship-order" \notin intruded
                 PROVE FALSE
      BY DEF Earned
    <3>1. store.labels = 0
      BY DEF TourInv, WorkIsEarned
    <3>2. look[l].examples = store.sample
      BY <1>1, <1>6 DEF CountsLabels, LookOK, Counted
    <3>3. VisitorLabels(l) = store.sample + 0 - store.sample
      BY <3>1, <3>2 DEF VisitorLabels
    <3> QED BY <1>2, <3>3
  <2>2. condition \in BOOLEAN /\ "ship-order" \in TourSteps
        /\ Finds(l, "shop", Given({"ship-order"}, condition))
        /\ UNCHANGED <<store, note, earned, intruded>>
    BY <1>6 DEF CountsLabels, TourSteps
  <2> HIDE DEF condition
  <2> QED BY <2>1, <2>2, FindsKeeps DEF Quiet, Points, AtPages, AtCatalog
<1> QED BY <1>3, <1>4, <1>5, <1>6

\* What is connected or visited was earned.
LEMMA ReadsKeep ==
  ASSUME TourInv, NEW l \in Looks, ReadsConnected(l) \/ ReadsVisit(l) \/ PartUnread(l)
  PROVE  TourInv'
<1>1. /\ store.connected \in BOOLEAN /\ store.visited \in BOOLEAN
      /\ WorkIsEarned /\ {} \in StepSets
  BY DEF TourInv, TourTyped, StoreRecords, StepSets
<1>2. {"examples", "sample", "shop", "seen"} \subseteq Quiet
  BY DEF Quiet, Points, AtPages, AtCatalog
<1>3. CASE ReadsConnected(l)
  BY <1>1, <1>2, <1>3, FindsKeeps DEF ReadsConnected, WorkIsEarned, Earned, TourSteps
<1>4. CASE ReadsVisit(l) /\ look[l].admin
  <2> DEFINE condition == ~CheckoutOpen /\ store.visited
  <2>1. /\ condition => "place-order" \in Earned
        /\ condition \in BOOLEAN /\ "place-order" \in TourSteps
        /\ Finds(l, "seen", Given({"place-order"}, condition))
        /\ UNCHANGED <<store, note, earned, intruded>>
    BY <1>1, <1>4 DEF ReadsVisit, WorkIsEarned, Earned, TourSteps
  <2> HIDE DEF condition
  <2> QED BY <1>2, <2>1, FindsKeeps
<1>5. CASE ReadsVisit(l) /\ ~look[l].admin
  BY <1>5, NoLookOK, LookKeeps DEF ReadsVisit
<1>6. CASE PartUnread(l)
  <2>1. PICK at \in {"examples", "sample", "shop"} : Finds(l, at, {})
    BY <1>6 DEF PartUnread
  <2> QED BY <1>1, <1>2, <1>6, <2>1, FoundRecord, LookKeeps DEF PartUnread
<1> QED BY <1>3, <1>4, <1>5, <1>6

\* Praise is for steps that were found.
LEMMA PraiseKeeps ==
  ASSUME TourInv, NEW l \in Looks, ReadsCelebrated(l) \/ Praises(l) \/ PraiseFails(l)
  PROVE  TourInv'
<1>1. /\ note \in NoteRecords /\ note.celebrated \in StepSets
      /\ note.celebrated \subseteq Earned /\ Baselines
      /\ look[l] \in LookRecords /\ LookOK(look[l])
  BY DEF TourInv, TourTyped, NoteRecords, LookOK
<1>2. CASE ReadsCelebrated(l)
  <2> DEFINE at == IF look[l].done \subseteq note.celebrated THEN "idle" ELSE "praise"
             next == [look[l] EXCEPT !.seen = note.celebrated, !.at = at]
  <2>1. /\ at \in Points /\ at \in {"idle", "praise"}
        /\ look' = [look EXCEPT ![l] = next]
    BY <1>2 DEF ReadsCelebrated, Points
  <2> HIDE DEF at
  <2>2. /\ next \in LookRecords /\ next.at = at
        /\ next.done = look[l].done /\ next.seen = note.celebrated
    BY <1>1, <2>1 DEF LookRecords
  <2> HIDE DEF next
  <2>3. LookOK(next)
    BY <1>1, <2>1, <2>2 DEF LookOK, ReadOK, TicksEarned, Counted, AtPages, AtCatalog
  <2> QED BY <1>2, <2>1, <2>3, LookKeeps DEF ReadsCelebrated
<1>3. CASE Praises(l)
  <2>1. /\ note' = [note EXCEPT !.celebrated = Celebrated(l)]
        /\ look' = [look EXCEPT ![l] = NoLook] /\ UNCHANGED <<store, earned, intruded>>
    BY <1>3 DEF Praises
  <2>2. Celebrated(l) \in StepSets /\ Celebrated(l) \subseteq Earned
    BY <1>1 DEF Celebrated, LookOK, TicksEarned, LookRecords, StepSets
  <2>3. /\ note' \in NoteRecords /\ note'.celebrated = Celebrated(l)
        /\ note'.pages = note.pages /\ note'.catalog = note.catalog
        /\ note'.welcome = note.welcome
    BY <1>1, <2>1, <2>2 DEF NoteRecords
  <2> QED BY <1>1, <2>1, <2>2, <2>3, NoLookOK, NoteKeeps DEF Baselines
<1>4. CASE PraiseFails(l)
  BY <1>4, NoLookOK, LookKeeps DEF PraiseFails
<1> QED BY <1>2, <1>3, <1>4

\* Work, the visitor's and the store's, only adds to what may be ticked, and
\* moves nothing that a look relies on without a mark.
LEMMA WorkKeeps ==
  ASSUME TourInv, UNCHANGED <<note, look>>, store' \in StoreRecords,
         earned \subseteq earned', earned' \subseteq TourSteps,
         intruded \subseteq intruded', intruded' \subseteq TourSteps, WorkIsEarned',
         \/ ~Untouched' \/ store'.pages = store.pages \/ ~Relied("pages"),
         \/ ~Untouched' \/ store'.catalog = store.catalog \/ ~Relied("catalog"),
         \A l \in Looks : look[l].at = "orders" /\ "place-order" \notin intruded'
                            => store'.examples = store.examples,
         \A l \in Looks : look[l].at = "labels" /\ "ship-order" \notin intruded'
                            => store'.sample = store.sample
  PROVE  TourInv'
<1>1. Earned \subseteq Earned' /\ (Untouched' => Untouched)
  BY DEF Earned, Untouched
<1>2. Baselines'
  BY <1>1 DEF TourInv, Baselines, Relied
<1>3. ASSUME NEW l \in Looks PROVE LookOK(look[l])'
  <2>1. LookOK(look[l]) /\ look'[l] = look[l]
    BY DEF TourInv
  <2>2. ReadOK(look[l])'
    BY <1>1, <2>1 DEF LookOK, ReadOK, Relied, AtPages, AtCatalog
  <2>3. Counted(look[l])'
    BY <2>1 DEF LookOK, Counted
  <2>4. (look[l] \in LookRecords)' /\ TicksEarned(look[l])'
    BY <1>1, <2>1 DEF LookOK, TicksEarned
  <2> QED BY <2>2, <2>3, <2>4 DEF LookOK
<1>4. TourTyped' /\ (note.celebrated \subseteq Earned)'
  BY <1>1 DEF TourInv, TourTyped
<1> QED BY <1>2, <1>3, <1>4 DEF TourInv

\* Opening the shop or the card earns a visit at most.
LEMMA OpensKeep ==
  ASSUME TourInv, NEW l \in Looks, OpensShop(l) \/ OpensCard(l)
  PROVE  TourInv'
<1>1. CASE OpensCard(l)
  BY <1>1, StartingLooks, LookKeeps DEF OpensCard
<1>2. CASE OpensShop(l)
  <2> DEFINE next == [NoLook EXCEPT !.at = "pages"]
  <2>1. LookOK(next)
    BY StartingLooks
  <2>2. /\ look' = [look EXCEPT ![l] = next]
        /\ store' = [store EXCEPT !.visited = TRUE]
        /\ earned' = earned \cup Given({"place-order"}, ~CheckoutOpen)
        /\ UNCHANGED <<note, intruded>>
    BY <1>2 DEF OpensShop
  <2> HIDE DEF next
  <2>3. /\ look' \in [Looks -> LookRecords] /\ look'[l] = next
        /\ \A o \in Looks \ {l} : look'[o] = look[o]
    BY <2>1, <2>2 DEF TourInv, TourTyped, LookOK
  <2>4. /\ store' \in StoreRecords /\ store'.pages = store.pages
        /\ store'.catalog = store.catalog /\ store'.connected = store.connected
        /\ store'.examples = store.examples /\ store'.own = store.own
        /\ store'.sample = store.sample /\ store'.labels = store.labels
    BY <2>2 DEF TourInv, TourTyped, StoreRecords
  <2>5. /\ earned \subseteq earned' /\ earned' \subseteq TourSteps
        /\ (~CheckoutOpen => "place-order" \in earned')
        /\ ("edit-product" \in earned' <=> "edit-product" \in earned)
    BY <2>2 DEF Given, TourInv, TourTyped, TourSteps
  <2>6. Earned \subseteq Earned' /\ (Untouched' <=> Untouched)
    BY <2>2, <2>5 DEF Earned, Untouched
  <2>7. WorkIsEarned'
    BY <2>4, <2>5 DEF TourInv, WorkIsEarned
  <2>8. Baselines' /\ (note.celebrated \subseteq Earned)'
    BY <2>2, <2>4, <2>6 DEF TourInv, Baselines
  <2>9. \A o \in Looks : LookOK(look'[o])
    BY <2>1, <2>3 DEF TourInv
  <2>10. (\A o \in Looks : LookOK(look[o]))'
    BY <2>2, <2>4, <2>6, <2>9 DEF LookOK, ReadOK, TicksEarned, Counted
  <2> QED BY <2>2, <2>3, <2>4, <2>5, <2>7, <2>8, <2>10 DEF TourInv, TourTyped
<1> QED BY <1>1, <1>2

\* The visitor's work is earned.
LEMMA WorksKeep ==
  ASSUME TourInv, VisitorWorks
  PROVE  TourInv'
<1>1. /\ UNCHANGED <<look, note, intruded>> /\ store \in StoreRecords
      /\ earned \subseteq TourSteps /\ intruded \subseteq TourSteps
  BY DEF VisitorWorks, EditsProduct, Does, TourInv, TourTyped
<1>2. ASSUME NEW d \in Digests, EditsProduct(d) PROVE TourInv'
  <2>1. PICK v \in Versions : store' = [store EXCEPT ![d] = v]
    BY <1>2 DEF EditsProduct
  <2>2. /\ store' \in StoreRecords /\ store'.connected = store.connected
        /\ store'.examples = store.examples /\ store'.own = store.own
        /\ store'.sample = store.sample /\ store'.labels = store.labels
        /\ store'.visited = store.visited
    BY <1>1, <2>1 DEF StoreRecords, Digests
  <2>3. earned' = earned \cup {"edit-product"} /\ earned' \subseteq TourSteps
    BY <1>1, <1>2 DEF EditsProduct, TourSteps
  <2>4. WorkIsEarned' /\ ~Untouched'
    BY <2>2, <2>3 DEF TourInv, WorkIsEarned, Untouched, Earned
  <2> QED BY <1>1, <2>2, <2>3, <2>4, WorkKeeps
<1>3. CASE Does("connected", TRUE, "connect-payments")
  <2>1. /\ store' \in StoreRecords /\ store'.pages = store.pages
        /\ store'.catalog = store.catalog
        /\ store'.examples = store.examples /\ store'.own = store.own
        /\ store'.sample = store.sample /\ store'.labels = store.labels
        /\ store'.visited = store.visited
    BY <1>1, <1>3 DEF Does, StoreRecords
  <2>2. earned' = earned \cup {"connect-payments"} /\ earned' \subseteq TourSteps
    BY <1>1, <1>3 DEF Does, TourSteps
  <2>3. WorkIsEarned'
    BY <1>1, <2>1, <2>2 DEF TourInv, WorkIsEarned
  <2> QED BY <1>1, <2>1, <2>2, <2>3, WorkKeeps
<1>4. CASE Does("own", 1, "place-order")
  <2>1. /\ store' \in StoreRecords /\ store'.pages = store.pages
        /\ store'.catalog = store.catalog /\ store'.connected = store.connected
        /\ store'.examples = store.examples
        /\ store'.sample = store.sample /\ store'.labels = store.labels
        /\ store'.visited = store.visited
    BY <1>1, <1>4 DEF Does, StoreRecords, Ones
  <2>2. earned' = earned \cup {"place-order"} /\ earned' \subseteq TourSteps
    BY <1>1, <1>4 DEF Does, TourSteps
  <2>3. WorkIsEarned'
    BY <1>1, <2>1, <2>2 DEF TourInv, WorkIsEarned
  <2> QED BY <1>1, <2>1, <2>2, <2>3, WorkKeeps
<1>5. CASE Does("labels", 1, "ship-order")
  <2>1. /\ store' \in StoreRecords /\ store'.pages = store.pages
        /\ store'.catalog = store.catalog /\ store'.connected = store.connected
        /\ store'.examples = store.examples /\ store'.own = store.own
        /\ store'.sample = store.sample /\ store'.visited = store.visited
    BY <1>1, <1>5 DEF Does, StoreRecords, Ones
  <2>2. earned' = earned \cup {"ship-order"} /\ earned' \subseteq TourSteps
    BY <1>1, <1>5 DEF Does, TourSteps
  <2>3. WorkIsEarned'
    BY <1>1, <2>1, <2>2 DEF TourInv, WorkIsEarned
  <2> QED BY <1>1, <2>1, <2>2, <2>3, WorkKeeps
<1> QED BY <1>2, <1>3, <1>4, <1>5 DEF VisitorWorks

\* What the store writes, it marks where a look or a baseline relied on it.
LEMMA StoreWorksKeep ==
  ASSUME TourInv, StoreWorks
  PROVE  TourInv'
<1>1. /\ UNCHANGED <<look, note, earned>> /\ store \in StoreRecords
      /\ earned \subseteq TourSteps /\ intruded \subseteq TourSteps
  BY DEF StoreWorks, Seeds, AddsExample, AddsLabel, TourInv, TourTyped
<1>2. ASSUME NEW tick \in TourSteps, NEW came \in BOOLEAN, Intrudes(tick, came)
      PROVE  /\ intruded \subseteq intruded' /\ intruded' \subseteq TourSteps
             /\ came => tick \in intruded'
  BY <1>1, <1>2 DEF Intrudes, Given
<1>3. TourSteps = {"edit-product", "connect-payments", "place-order", "ship-order"}
  BY DEF TourSteps
<1>4. ASSUME NEW d \in Digests, Seeds(d) PROVE TourInv'
  <2>1. PICK v \in Versions, rest \in {{}, {d}} :
          store' = [store EXCEPT ![d] = v, !.unseeded = (@ \ {d}) \cup rest]
    BY <1>4 DEF Seeds
  <2>2. /\ store' \in StoreRecords /\ store'.connected = store.connected
        /\ store'.examples = store.examples /\ store'.own = store.own
        /\ store'.sample = store.sample /\ store'.labels = store.labels
        /\ store'.visited = store.visited
        /\ d # "pages" => store'.pages = store.pages
        /\ d # "catalog" => store'.catalog = store.catalog
    BY <1>1, <2>1 DEF StoreRecords, Digests
  <2>3. Relied(d) \in BOOLEAN /\ Intrudes("edit-product", Relied(d))
    BY <1>4 DEF Seeds, Relied
  <2>4. /\ intruded \subseteq intruded' /\ intruded' \subseteq TourSteps
        /\ Relied(d) => "edit-product" \in intruded'
    BY <1>2, <1>3, <2>3
  <2>5. WorkIsEarned' /\ (Relied(d) => ~Untouched')
    BY <1>1, <2>2, <2>4 DEF TourInv, WorkIsEarned, Untouched, Earned
  <2> QED BY <1>1, <2>2, <2>4, <2>5, WorkKeeps DEF Digests
<1>5. CASE AddsExample
  <2>1. /\ store' \in StoreRecords /\ store'.pages = store.pages
        /\ store'.catalog = store.catalog /\ store'.connected = store.connected
        /\ store'.own = store.own /\ store'.sample = store.sample
        /\ store'.labels = store.labels /\ store'.visited = store.visited
    BY <1>1, <1>5, TourAssumption DEF AddsExample, StoreRecords, Counts
  <2>2. /\ intruded \subseteq intruded' /\ intruded' \subseteq TourSteps
        /\ (\E l \in Looks : look[l].at = "orders") => "place-order" \in intruded'
    BY <1>2, <1>3, <1>5 DEF AddsExample
  <2>3. WorkIsEarned'
    BY <1>1, <2>1 DEF TourInv, WorkIsEarned
  <2> QED BY <1>1, <2>1, <2>2, <2>3, WorkKeeps
<1>6. CASE AddsLabel
  <2>1. /\ store' \in StoreRecords /\ store'.pages = store.pages
        /\ store'.catalog = store.catalog /\ store'.connected = store.connected
        /\ store'.own = store.own /\ store'.examples = store.examples
        /\ store'.labels = store.labels /\ store'.visited = store.visited
    BY <1>1, <1>6 DEF AddsLabel, StoreRecords, Ones
  <2>2. /\ intruded \subseteq intruded' /\ intruded' \subseteq TourSteps
        /\ (\E l \in Looks : look[l].at = "labels") => "ship-order" \in intruded'
    BY <1>2, <1>3, <1>6 DEF AddsLabel
  <2>3. WorkIsEarned'
    BY <1>1, <2>1 DEF TourInv, WorkIsEarned
  <2> QED BY <1>1, <2>1, <2>2, <2>3, WorkKeeps
<1> QED BY <1>4, <1>5, <1>6 DEF StoreWorks

\* Every step of the tour keeps its invariant.
LEMMA TourGoesOn == TourInv /\ [TourNext]_tourVars => TourInv'
<1> SUFFICES ASSUME TourInv, [TourNext]_tourVars PROVE TourInv'
  OBVIOUS
<1>1. CASE UNCHANGED tourVars
  BY <1>1 DEF tourVars, TourInv, TourTyped, WorkIsEarned, Baselines, LookOK, ReadOK,
              TicksEarned, Counted, Earned, Untouched
<1>2. CASE TourNext
  BY <1>2, OpensKeep, EditedKeeps, SetsKeep, CountsKeep, ReadsKeep, PraiseKeeps, WorksKeep,
           StoreWorksKeep
     DEF TourNext
<1> QED BY <1>1, <1>2

\* A step of the tour is ticked or praised only once the visitor did it, or the
\* store's own seeding came between two reads that the tick compares: for any
\* number of looks that overlap with the work, with the seeding and with each
\* other, and of versions of what the looks read.
THEOREM TicksOnlyEarned == TourSpec => []TicksAreEarned
<1>1. TourInv => TicksAreEarned
  BY DEF TourInv, LookOK, TicksEarned, Earned, TicksAreEarned
<1> QED BY <1>1, TourBegins, TourGoesOn, PTL DEF TourSpec

\* Which says its types.
LEMMA TourTypes == ASSUME TourInv PROVE TourTypeOK
<1>1. store \in StoreRecords /\ note \in NoteRecords /\ look \in [Looks -> LookRecords]
      /\ earned \subseteq TourSteps /\ intruded \subseteq TourSteps
  BY DEF TourInv, TourTyped
<1> QED BY <1>1 DEF TourTypeOK, StoreRecords, NoteRecords, LookRecords, StepSets, Counts,
                    Ones
-----------------------------------------------------------------------------
(***************************************************************************)
(* CartPrices.  Each half of the property is inductive beside the types:   *)
(* whatever gives the page a line asks for its price, lets a check that is *)
(* under way be asked again, or leaves a trace; and what a failed check    *)
(* leaves unconfirmed is dropped only by one that is answered.             *)
(***************************************************************************)
CheckRecords ==
  [asked : SUBSET Lines, queued : BOOLEAN, failed : BOOLEAN, retrying : BOOLEAN]

PricesTyped ==
  /\ saved \in Carts
  /\ page \in [cart : Carts, unsaved : BOOLEAN, locked : BOOLEAN]
  /\ check \in CheckRecords
  /\ priceLog \subseteq {"unconfirmed", "unseen"}

UnconfirmedIsTold == "unconfirmed" \in priceLog => Pending \/ check.failed

PricesInv == PricesTyped /\ RestKnowsPrices /\ UnconfirmedIsTold

-----------------------------------------------------------------------------
\* A cart holds lines, and the empty one none.
LEMMA CartsHold ==
  /\ Empty \in Carts /\ Held(Empty) = {}
  /\ \A c \in Carts : Held(c) \subseteq Lines /\ (Held(c) = {} => c = Empty)
<1>1. Empty \in Carts /\ Held(Empty) = {}
  BY CartAssumption DEF Empty, Carts, Held
<1>2. ASSUME NEW c \in Carts, Held(c) = {} PROVE c = Empty
  <2>1. \A l \in Lines : c[l] = 0
    BY <1>2, CartAssumption DEF Carts, Held
  <2> QED BY <2>1 DEF Carts, Empty
<1> QED BY <1>1, <1>2 DEF Held

\* Every check of prices has its type.
LEMMA ChecksTyped ==
  /\ NoCheck \in CheckRecords
  /\ \A asked \in SUBSET Lines, queued, failed, retrying \in BOOLEAN :
       [asked |-> asked, queued |-> queued, failed |-> failed, retrying |-> retrying]
         \in CheckRecords
BY DEF NoCheck, CheckRecords

\* The invariant of the prices holds at the start.
LEMMA PricesBegin == PricesInit => PricesInv
<1> SUFFICES ASSUME PricesInit PROVE PricesInv
  OBVIOUS
<1>1. PricesTyped
  BY CartsHold DEF PricesInit, PricesTyped, CartTypeOK, CheckRecords, NoCheck
<1>2. page.cart = saved /\ check.asked = Held(saved) /\ priceLog = {}
  BY DEF PricesInit, NoCheck
<1> QED BY <1>1, <1>2 DEF PricesInv, RestKnowsPrices, UnconfirmedIsTold, Pending, Ids

\* A change that asks for the prices of the cart the page has by then.
LEMMA RefreshKeeps ==
  ASSUME PricesInv, saved' \in Carts,
         page' \in [cart : Carts, unsaved : BOOLEAN, locked : BOOLEAN],
         NEW c \in CheckRecords, c.asked = check.asked, Refresh(page'.cart, c)
  PROVE  PricesInv'
<1>1. page'.cart \in Carts
  OBVIOUS
<1>2. CASE c.asked # {}
  <2>1. /\ check' \in CheckRecords /\ check'.asked # {}
        /\ priceLog' = priceLog
    BY <1>2 DEF Refresh, CheckRecords
  <2> QED BY <2>1 DEF PricesInv, PricesTyped, RestKnowsPrices, UnconfirmedIsTold, Pending
<1>3. CASE c.asked = {} /\ page'.cart = Empty
  <2>1. check' \in CheckRecords /\ priceLog' = {}
    BY <1>3, ChecksTyped DEF Refresh
  <2>2. Ids' = {}
    BY <1>3, CartsHold DEF Ids
  <2> QED BY <2>1, <2>2 DEF PricesInv, PricesTyped, RestKnowsPrices, UnconfirmedIsTold
<1>4. CASE c.asked = {} /\ page'.cart # Empty
  <2>1. Held(page'.cart) \in SUBSET Lines /\ Held(page'.cart) # {}
    BY <1>1, <1>4, CartsHold
  <2>2. /\ check' = [asked |-> Held(page'.cart), queued |-> FALSE, failed |-> FALSE,
                     retrying |-> c.failed \/ c.retrying]
        /\ priceLog' \subseteq priceLog
    BY <1>4 DEF Refresh
  <2>3. check' \in CheckRecords
    <3>1. (c.failed \/ c.retrying) \in BOOLEAN
      OBVIOUS
    <3> QED BY <2>1, <2>2, <3>1, ChecksTyped
  <2> QED BY <2>1, <2>2, <2>3 DEF PricesInv, PricesTyped, RestKnowsPrices,
                                  UnconfirmedIsTold, Pending
<1> QED BY <1>2, <1>3, <1>4

\* One that takes up a cart without asking.
LEMMA TakesUpKeeps ==
  ASSUME PricesInv, saved' \in Carts,
         page' \in [cart : Carts, unsaved : BOOLEAN, locked : BOOLEAN],
         NEW next \in Carts, Held(page'.cart) = Held(next), TakesUp(next),
         UNCHANGED <<check, prices>>
  PROVE  PricesInv'
<1>1. /\ priceLog' \subseteq {"unconfirmed", "unseen"}
      /\ "unconfirmed" \in priceLog' => "unconfirmed" \in priceLog
      /\ "unseen" \notin priceLog' => "unseen" \notin priceLog /\ Ids' \subseteq Ids
  BY DEF TakesUp, PricesInv, PricesTyped, Ids
<1> QED BY <1>1 DEF PricesInv, PricesTyped, RestKnowsPrices, UnconfirmedIsTold, Pending

\* One that leaves the lines and the check alone.
LEMMA LinesKept ==
  ASSUME PricesInv, saved' \in Carts,
         page' \in [cart : Carts, unsaved : BOOLEAN, locked : BOOLEAN],
         page'.cart = page.cart, UNCHANGED <<check, prices, priceLog>>
  PROVE  PricesInv'
BY DEF PricesInv, PricesTyped, RestKnowsPrices, UnconfirmedIsTold, Pending, Ids

\* An answered check leaves each line known, asked for again or told of.
LEMMA AnswerKeeps == ASSUME PricesInv, CheckAnswered PROVE PricesInv'
<1>1. /\ saved' = saved /\ page' = page /\ Ids' = Ids /\ check.asked # {}
      /\ page.cart \in Carts
  BY DEF CheckAnswered, Ids, Pending, PricesInv, PricesTyped
<1>2. PICK current \in StillAsked, ok \in BOOLEAN,
            said \in [check.asked -> {"priced", "blocked"}] :
       LET again == check.queued \/ ~current
           failed == current /\ ~ok
           log == IF ~current THEN priceLog
                  ELSE IF ok THEN {} ELSE priceLog \cup {"unconfirmed"} IN
       IF again /\ page.cart = Empty
       THEN check' = NoCheck /\ prices' = NoPrices /\ priceLog' = {}
       ELSE /\ prices' = IF current /\ ok
                         THEN [l \in Lines |-> IF l \in check.asked THEN said[l] ELSE "none"]
                         ELSE prices
            /\ check' = [asked |-> IF again THEN Ids ELSE {}, queued |-> FALSE,
                          failed |-> ~again /\ failed, retrying |-> again /\ failed]
            /\ priceLog' = IF again THEN log \ {"unseen"} ELSE log
  BY DEF CheckAnswered
<1> DEFINE again == check.queued \/ ~current
<1>3. Ids \subseteq Lines /\ (Ids = {} => page.cart = Empty)
  BY <1>1, CartsHold DEF Ids
<1>7. current \in BOOLEAN /\ (current => Ids = check.asked)
  BY DEF StillAsked
<1>4. CASE again /\ page.cart = Empty
  <2>1. check' \in CheckRecords /\ priceLog' = {} /\ Ids' = {}
    BY <1>1, <1>2, <1>4, CartsHold, ChecksTyped DEF Ids
  <2> QED BY <1>1, <2>1 DEF PricesInv, PricesTyped, RestKnowsPrices, UnconfirmedIsTold
<1>5. CASE again /\ page.cart # Empty
  <2>1. /\ check' = [asked |-> Ids, queued |-> FALSE,
                     failed |-> FALSE, retrying |-> current /\ ~ok]
        /\ priceLog' \subseteq priceLog \cup {"unconfirmed"}
    BY <1>2, <1>5
  <2>2. check' \in CheckRecords /\ check'.asked # {}
    BY <1>3, <1>5, <1>7, <2>1 DEF CheckRecords
  <2> QED BY <1>1, <2>1, <2>2 DEF PricesInv, PricesTyped, RestKnowsPrices,
                                  UnconfirmedIsTold, Pending
<1>6. CASE ~again
  <2>1. /\ check' = [asked |-> {}, queued |-> FALSE, failed |-> ~ok, retrying |-> FALSE]
        /\ priceLog' = IF ok THEN {} ELSE priceLog \cup {"unconfirmed"}
    BY <1>2, <1>6
  <2>2. check' \in CheckRecords /\ check'.failed = ~ok
    BY <2>1 DEF CheckRecords
  <2>3. ok => \A l \in Ids' : prices'[l] # "none"
    <3> SUFFICES ASSUME ok, NEW l \in Ids PROVE prices'[l] # "none"
      BY <1>1
    <3>1. prices' = [k \in Lines |-> IF k \in check.asked THEN said[k] ELSE "none"]
      BY <1>2, <1>6
    <3>2. l \in Lines /\ l \in check.asked
      BY <1>3, <1>6, <1>7
    <3> QED BY <3>1, <3>2
  <2> QED BY <1>1, <2>1, <2>2, <2>3 DEF PricesInv, PricesTyped, RestKnowsPrices,
                                        UnconfirmedIsTold
<1> QED BY <1>4, <1>5, <1>6

\* Every step of the page keeps the invariant of its prices.
LEMMA PricesGoOn == PricesInv /\ [PricesNext]_priceVars => PricesInv'
<1> SUFFICES ASSUME PricesInv, [PricesNext]_priceVars PROVE PricesInv'
  OBVIOUS
<1> DEFINE Pages == [cart : Carts, unsaved : BOOLEAN, locked : BOOLEAN]
<1>1. /\ saved \in Carts /\ page \in Pages /\ page.cart \in Carts
      /\ Base \in Carts /\ check \in CheckRecords
  BY DEF PricesInv, PricesTyped, Base
<1>2. ASSUME NEW cart \in Carts, Persists(cart)
      PROVE  saved' \in Carts /\ page' \in Pages /\ page'.cart = cart
  BY <1>1, <1>2 DEF Persists
<1>3. ASSUME NEW l \in Lines, RemoveCartLine(l) PROVE PricesInv'
  <2>1. RemoveLine(Base, l) \in Carts
    BY <1>1, CartAssumption DEF RemoveLine, Carts
  <2> QED BY <1>1, <1>2, <1>3, <2>1, RefreshKeeps DEF RemoveCartLine
<1>4. ASSUME NEW l \in Lines, ChangeLine(l) PROVE PricesInv'
  <2>1. PICK q \in 1 .. MaxQuantity : Persists(SetQuantity(Base, l, q))
    BY <1>4 DEF ChangeLine
  <2>2. /\ SetQuantity(Base, l, q) \in Carts
        /\ Held(SetQuantity(Base, l, q)) = Held(Base)
    BY <1>1, <1>4, <2>1, CartAssumption DEF ChangeLine, AcceptsChange, SetQuantity, Held, Carts
  <2> QED BY <1>1, <1>2, <1>4, <2>1, <2>2, TakesUpKeeps DEF ChangeLine
<1>5. ASSUME NEW l \in Lines, TooLate(l) PROVE PricesInv'
  <2>1. page' \in Pages /\ page'.cart = saved /\ saved' = saved
    BY <1>1, <1>5 DEF TooLate
  <2> QED BY <1>1, <1>5, <2>1, TakesUpKeeps DEF TooLate
<1>6. CASE CartUpdated
  <2>1. PICK cart \in Carts :
          saved' = cart /\ page' = [page EXCEPT !.cart = cart, !.unsaved = FALSE]
          /\ Refresh(cart, check)
    BY <1>6 DEF CartUpdated
  <2>2. page' \in Pages /\ page'.cart = cart
    BY <1>1, <2>1
  <2> QED BY <1>1, <2>1, <2>2, RefreshKeeps
<1>7. CASE OtherTab
  BY <1>1, <1>7, LinesKept DEF OtherTab
<1>8. CASE Sync
  <2>1. page' \in Pages /\ page'.cart = saved /\ saved' = saved
    BY <1>1, <1>8 DEF Sync
  <2> QED BY <1>1, <1>8, <2>1, RefreshKeeps DEF Sync
<1>9. CASE SyncNothing
  BY <1>1, <1>9, LinesKept DEF SyncNothing
<1>10. CASE Lock
  <2>1. page' \in Pages /\ page'.cart = page.cart
    BY <1>1, <1>10 DEF Lock
  <2> QED BY <1>1, <1>10, <2>1, LinesKept DEF Lock
<1>11. CASE Unlock
  <2>1. CASE page' = [page EXCEPT !.locked = FALSE] /\ UNCHANGED <<saved, priceLog>>
    <3>1. page' \in Pages /\ page'.cart = page.cart
      BY <1>1, <2>1
    <3> QED BY <1>1, <1>11, <2>1, <3>1, LinesKept DEF Unlock
  <2>2. ASSUME NEW bought \in Carts, saved' = Remaining(saved, bought),
               page' = [cart |-> saved', unsaved |-> FALSE, locked |-> FALSE],
               TakesUp(saved')
        PROVE  PricesInv'
    <3>1. saved' \in Carts
      BY <1>1, <2>2, CartAssumption DEF Remaining, Carts
    <3>2. page' \in Pages /\ page'.cart = saved'
      BY <2>2, <3>1
    <3> QED BY <1>11, <2>2, <3>1, <3>2, TakesUpKeeps DEF Unlock
  <2> QED BY <1>11, <2>1, <2>2 DEF Unlock
<1>12. CASE RetryPrices
  <2>1. /\ [check EXCEPT !.retrying = TRUE] \in CheckRecords
        /\ [check EXCEPT !.retrying = TRUE].asked = check.asked
    BY <1>1 DEF CheckRecords
  <2> QED BY <1>1, <1>12, <2>1, RefreshKeeps DEF RetryPrices
<1>13. CASE CheckAnswered
  BY <1>13, AnswerKeeps
<1>14. CASE UNCHANGED priceVars
  BY <1>1, <1>14, LinesKept DEF priceVars
<1> QED BY <1>3, <1>4, <1>5, <1>6, <1>7, <1>8, <1>9, <1>10, <1>11, <1>12, <1>13, <1>14
        DEF PricesNext

\* However changes of the cart race with the checks of its prices, a page at
\* rest knows the price of every line or says it could not load them, and offers
\* checkout on confirmed prices only (guest-cart-client.ts, present.ts).
THEOREM PagePricesTold == PricesSpec => []PricesAreTold
<1>1. PricesInv => PricesAreTold
  BY DEF PricesInv, UnconfirmedIsTold, PricesAreTold, OfferIsConfirmed, CheckoutOffered
<1> QED BY <1>1, PricesBegin, PricesGoOn, PTL DEF PricesSpec

\* The types the property does not need: every cart the page or the browser has
\* is within the limits, and a price is one of three words.
PriceWords == {"none", "priced", "blocked"}

CartsFit ==
  /\ CartTypeOK(saved) /\ CartTypeOK(page.cart)
  /\ edits \in 0 .. MaxCartEdits /\ told \in BOOLEAN
  /\ prices \in [Lines -> PriceWords]

\* The first cart is within its limits.
LEMMA CartsFitAtFirst == ASSUME PricesInit PROVE CartsFit
<1>1. CartTypeOK(saved) /\ page.cart = saved /\ edits = 0 /\ told = FALSE
  BY DEF PricesInit
<1>2. prices \in [Lines -> PriceWords]
  BY DEF PricesInit, NoPrices, PriceWords
<1>3. 0 \in 0 .. MaxCartEdits
  BY PricesAssumption
<1> QED BY <1>1, <1>2, <1>3 DEF CartsFit

\* A refresh keeps each price in its words.
LEMMA RefreshFits ==
  ASSUME prices \in [Lines -> PriceWords], NEW cart, NEW c, Refresh(cart, c)
  PROVE  prices' \in [Lines -> PriceWords]
BY DEF Refresh, NoPrices, PriceWords

\* So does an answered check.
LEMMA AnswersFit ==
  ASSUME prices \in [Lines -> PriceWords], CheckAnswered
  PROVE  prices' \in [Lines -> PriceWords]
<1>1. PICK said \in [check.asked -> {"priced", "blocked"}] :
        \/ prices' = NoPrices \/ prices' = prices
        \/ prices' = [l \in Lines |-> IF l \in check.asked THEN said[l] ELSE "none"]
  BY DEF CheckAnswered
<1> QED BY <1>1 DEF NoPrices, PriceWords

\* Every step leaves the cart within its limits.
LEMMA CartsStayFit == ASSUME PricesInv, CartsFit, [PricesNext]_priceVars PROVE CartsFit'
<1>1. /\ CartTypeOK(saved) /\ CartTypeOK(page.cart) /\ CartTypeOK(Base)
      /\ page \in [cart : Carts, unsaved : BOOLEAN, locked : BOOLEAN]
      /\ edits \in 0 .. MaxCartEdits /\ told \in BOOLEAN /\ prices \in [Lines -> PriceWords]
  BY DEF PricesInv, PricesTyped, CartsFit, Base
<1>2. ASSUME Edits PROVE edits' \in 0 .. MaxCartEdits
  BY <1>1, <1>2, PricesAssumption DEF Edits
<1>3. ASSUME NEW cart, CartTypeOK(cart), Persists(cart)
      PROVE  CartTypeOK(saved') /\ CartTypeOK(page'.cart)
  <2>1. saved' \in {cart, saved} /\ page'.cart = cart
    BY <1>1, <1>3 DEF Persists
  <2> QED BY <1>1, <1>3, <2>1
<1>4. ASSUME NEW l \in Lines, RemoveCartLine(l) PROVE CartsFit'
  <2>1. CartTypeOK(RemoveLine(Base, l)) /\ Persists(RemoveLine(Base, l))
    BY <1>1, <1>4, ChangeKeepsCart DEF RemoveCartLine
  <2>2. CartTypeOK(saved') /\ CartTypeOK(page'.cart)
    BY <1>3, <2>1
  <2> QED BY <1>1, <1>2, <1>4, <2>2, RefreshFits DEF RemoveCartLine, CartsFit, CartTypeOK
<1>5. ASSUME NEW l \in Lines, ChangeLine(l) PROVE CartsFit'
  <2>1. PICK q \in 1 .. MaxQuantity : Persists(SetQuantity(Base, l, q))
    BY <1>5 DEF ChangeLine
  <2>2. CartTypeOK(SetQuantity(Base, l, q))
    BY <1>1, <1>5, ChangeKeepsCart DEF ChangeLine
  <2>3. CartTypeOK(saved') /\ CartTypeOK(page'.cart)
    BY <1>3, <2>1, <2>2
  <2> QED BY <1>1, <1>2, <1>5, <2>3 DEF ChangeLine, CartsFit, CartTypeOK
<1>6. ASSUME NEW l \in Lines, TooLate(l) PROVE CartsFit'
  <2>1. page'.cart = saved
    BY <1>1, <1>6 DEF TooLate
  <2> QED BY <1>1, <1>6, <2>1 DEF TooLate, CartsFit, CartTypeOK
<1>7. CASE CartUpdated
  <2>1. PICK cart : /\ CartTypeOK(cart) /\ saved' = cart
                    /\ page' = [page EXCEPT !.cart = cart, !.unsaved = FALSE]
                    /\ Refresh(cart, check)
    BY <1>7 DEF CartUpdated
  <2>2. page'.cart = cart
    BY <1>1, <2>1
  <2> QED BY <1>1, <1>2, <1>7, <2>1, <2>2, RefreshFits DEF CartUpdated, CartsFit, CartTypeOK
<1>8. CASE OtherTab
  BY <1>1, <1>2, <1>8 DEF OtherTab, CartsFit, CartTypeOK
<1>9. CASE Sync
  <2>1. page'.cart = saved
    BY <1>1, <1>9 DEF Sync
  <2> QED BY <1>1, <1>9, <2>1, RefreshFits DEF Sync, CartsFit, CartTypeOK
<1>10. CASE SyncNothing
  BY <1>1, <1>10 DEF SyncNothing, CartsFit, CartTypeOK
<1>11. CASE Lock
  <2>1. page'.cart = page.cart
    BY <1>1, <1>11 DEF Lock
  <2> QED BY <1>1, <1>11, <2>1 DEF Lock, CartsFit, CartTypeOK
<1>12. CASE Unlock
  <2>1. CASE page' = [page EXCEPT !.locked = FALSE] /\ UNCHANGED saved
    <3>1. page'.cart = page.cart
      BY <1>1, <2>1
    <3> QED BY <1>1, <1>12, <2>1, <3>1 DEF Unlock, CartsFit, CartTypeOK
  <2>2. ASSUME NEW bought \in Carts, saved' = Remaining(saved, bought),
               page' = [cart |-> saved', unsaved |-> FALSE, locked |-> FALSE]
        PROVE  CartsFit'
    <3>1. CartTypeOK(saved') /\ page'.cart = saved'
      BY <1>1, <2>2, SettlementKeepsCart
    <3> QED BY <1>1, <1>12, <3>1 DEF Unlock, CartsFit, CartTypeOK
  <2> QED BY <1>12, <2>1, <2>2 DEF Unlock
<1>13. CASE RetryPrices
  BY <1>1, <1>13, RefreshFits DEF RetryPrices, CartsFit, CartTypeOK
<1>14. CASE CheckAnswered
  BY <1>1, <1>14, AnswersFit DEF CheckAnswered, CartsFit, CartTypeOK
<1>15. CASE UNCHANGED priceVars
  BY <1>1, <1>15 DEF priceVars, CartsFit, CartTypeOK
<1> QED BY <1>4, <1>5, <1>6, <1>7, <1>8, <1>9, <1>10, <1>11, <1>12, <1>13, <1>14, <1>15
        DEF PricesNext

\* What they come to is the type invariant of the prices.
LEMMA PricesTypes == ASSUME PricesInv, CartsFit PROVE PricesTypeOK
BY DEF PricesInv, PricesTyped, CartsFit, PricesTypeOK, CheckRecords, PriceWords
-----------------------------------------------------------------------------
(***************************************************************************)
(* CheckoutRelay.  An answer is read twice, so the first lemmas are about  *)
(* the readings: a contact read once is read the same again, and whatever  *)
(* the second reading of an order moves between its contact and the        *)
(* address beside it, the destination shown is the same.  What the wire    *)
(* form leaves out was left out at the start, in a plain answer.  The      *)
(* invariant says that an answer on its way can be read, and that one      *)
(* which says paid is the rebuilt form of what Commerce still holds, since *)
(* a paid checkout no longer changes.                                      *)
(***************************************************************************)
IsRead(c) ==
  /\ IsContact(c) /\ Well(c.delivery) = c.delivery
  /\ c = NoContact \/ Well(c.email) # None

IsPlain(c) == c.total = None /\ c.method # Blank /\ c.shipping \in Carried \cup {None}

\* What passed its shape check passes it again.
LEMMA WellAgain == ASSUME NEW x PROVE Well(Well(x)) = Well(x) /\ Well(None) = None
BY DEF Well, None, Bad, Blank

\* So does the first of two that did.
LEMMA WellElse ==
  ASSUME NEW a, NEW b, Well(b) = b
  PROVE  Well(Else(Well(a), b)) = Else(Well(a), b)
BY WellAgain DEF Else

\* A contact is read as one that reads the same again.
LEMMA ContactRead ==
  ASSUME NEW c, IsContact(c), NEW email, NEW beside, Well(beside) = beside
  PROVE  /\ IsRead(ContactOf(c, email, beside))
         /\ LET own == ContactOf(c, email, beside)
            IN own # NoContact /\ own.delivery = None => beside = None
<1>1. PICK d : d = Else(Well(c.delivery), beside)
  OBVIOUS
<1>2. Well(d) = d
  BY <1>1, WellElse
<1>3. CASE Well(c.email) # None
  <2>1. ContactOf(c, email, beside) = [email |-> c.email, delivery |-> d]
    BY <1>1, <1>3 DEF ContactOf, ParsedContact
  <2> QED BY <1>1, <1>2, <1>3, <2>1 DEF IsRead, IsContact, Else
<1>4. CASE Well(c.email) = None /\ Well(email) # None
  <2>1. Well(NoContact.delivery) = None /\ [NoContact EXCEPT !.email = email].email = email
        /\ [NoContact EXCEPT !.email = email].delivery = NoContact.delivery
    BY WellAgain DEF NoContact
  <2>2. ContactOf(c, email, beside) = [email |-> email, delivery |-> beside]
    BY <1>4, <2>1 DEF ContactOf, ParsedContact, Else
  <2> QED BY <1>4, <2>2 DEF IsRead, IsContact
<1>5. CASE Well(c.email) = None /\ Well(email) = None
  <2>1. [NoContact EXCEPT !.email = email].email = email
    BY DEF NoContact
  <2>2. ContactOf(c, email, beside) = NoContact
    BY <1>5, <2>1 DEF ContactOf, ParsedContact
  <2> QED BY <2>2, WellAgain DEF IsRead, IsContact, NoContact
<1> QED BY <1>3, <1>4, <1>5

\* A contact that was read, when read again, takes the address beside it if it
\* has none of its own.
LEMMA ContactAgain ==
  ASSUME NEW c, IsRead(c), NEW beside
  PROVE  ContactOf(c, None, beside) =
           IF c = NoContact THEN NoContact
           ELSE [email |-> c.email, delivery |-> Else(c.delivery, beside)]
<1>1. CASE c # NoContact
  BY <1>1 DEF ContactOf, ParsedContact, IsRead, IsContact
<1>2. CASE c = NoContact
  <2>1. Well(c.email) = None /\ [NoContact EXCEPT !.email = None].email = None
    BY <1>2, WellAgain DEF NoContact
  <2> QED BY <1>2, <2>1, WellAgain DEF ContactOf, ParsedContact
<1> QED BY <1>1, <1>2

\* What is not a contact is none the second time either.
LEMMA NoContactAgain ==
  ASSUME NEW c, NEW email, NEW beside, ContactOf(c, email, beside) = NoContact
  PROVE  ContactOf(c, None, beside) = NoContact
<1>1. Well(NoContact.email) = None
  BY WellAgain DEF NoContact
<1>2. Well(c.email) = None
  <2>1. ASSUME Well(c.email) # None PROVE FALSE
    <3>1. ContactOf(c, email, beside).email = c.email
      BY <2>1 DEF ContactOf, ParsedContact
    <3> QED BY <1>1, <2>1, <3>1
  <2> QED BY <2>1
<1>3. [NoContact EXCEPT !.email = None].email = None
  BY DEF NoContact
<1> QED BY <1>2, <1>3, WellAgain DEF ContactOf, ParsedContact

\* The checkout itself, but for its order, is read the same a second time.
LEMMA CheckoutAgain ==
  ASSUME NEW h, IsCheckout(h), IsPlain(h),
         NEW p, p = Project(h), NEW q, q = Project(Wire(p)),
         NEW c, c = ContactOf(h.contact, h.email, Well(h.delivery))
  PROVE  /\ IsRead(c) /\ (c # NoContact /\ c.delivery = None => Well(h.delivery) = None)
         /\ p.contact = IF c = NoContact THEN h.contact ELSE c
         /\ p.delivery = h.delivery /\ p.method = h.method /\ p.shipping = h.shipping
         /\ p.total = None /\ p.state = h.state
         /\ ContactOf(p.contact, None, Well(h.delivery)) = c
         /\ q.contact = p.contact /\ q.delivery = h.delivery /\ q.method = h.method
         /\ q.shipping = h.shipping /\ q.total = None /\ q.state = h.state
         /\ q.attempt = h.attempt /\ q.retryAfter = h.retryAfter
<1>1. IsRead(c) /\ (c # NoContact /\ c.delivery = None => Well(h.delivery) = None)
  BY ContactRead, WellAgain DEF IsCheckout
<1>2. /\ p.contact = IF c = NoContact THEN h.contact ELSE c
      /\ p.delivery = h.delivery /\ p.method = h.method /\ p.shipping = h.shipping
      /\ p.total = None /\ p.state = h.state /\ p.attempt = h.attempt
      /\ p.retryAfter = h.retryAfter
  BY DEF Project, IsCheckout, IsPlain
<1>3. ContactOf(p.contact, None, Well(h.delivery)) = c
  <2>1. CASE c = NoContact
    BY <1>2, <2>1, NoContactAgain
  <2>2. CASE c # NoContact
    <3>1. Else(c.delivery, Well(h.delivery)) = c.delivery
      BY <1>1, <2>2 DEF Else
    <3>2. c = [email |-> c.email, delivery |-> c.delivery]
      BY <1>1 DEF IsRead, IsContact
    <3> QED BY <1>1, <1>2, <2>2, <3>1, <3>2, ContactAgain
  <2> QED BY <2>1, <2>2
<1>4. PICK w : w = Wire(p)
  OBVIOUS
<1>5. /\ w.contact = p.contact /\ w.email = None /\ w.delivery = h.delivery
      /\ w.method = h.method /\ w.shipping = h.shipping /\ w.total = None
      /\ w.state = h.state /\ w.attempt = h.attempt /\ w.retryAfter = h.retryAfter
      /\ w = [state |-> w.state, attempt |-> w.attempt, redirect |-> w.redirect,
              retryAfter |-> w.retryAfter, order |-> w.order, contact |-> w.contact,
              email |-> w.email, delivery |-> w.delivery, method |-> w.method,
              shipping |-> w.shipping, total |-> w.total]
  BY <1>2, <1>4 DEF Wire, IsPlain
<1>6. ContactOf(w.contact, w.email, Well(w.delivery)) = c
  BY <1>3, <1>5
<1>7. /\ q.contact = (IF c = NoContact THEN w.contact ELSE c) /\ q.delivery = w.delivery
      /\ q.method = w.method /\ q.shipping = w.shipping /\ q.total = w.total
      /\ q.state = w.state /\ q.attempt = w.attempt /\ q.retryAfter = w.retryAfter
  <2>1. PICK order : order = IF w.order = Nothing THEN Nothing
                             ELSE ParsedOrder(w.order, c, Well(w.delivery), Well(w.method))
    OBVIOUS
  <2>2. q = [w EXCEPT !.contact = IF c = NoContact THEN @ ELSE c, !.order = order]
    BY <1>4, <1>6, <2>1 DEF Project
  <2>3. w = [state |-> w.state, attempt |-> w.attempt, redirect |-> w.redirect,
             retryAfter |-> w.retryAfter, order |-> w.order, contact |-> w.contact,
             email |-> w.email, delivery |-> w.delivery, method |-> w.method,
             shipping |-> w.shipping, total |-> w.total]
    BY <1>5
  <2> QED BY <2>2, <2>3
<1>8. q.contact = p.contact
  BY <1>2, <1>5, <1>7
<1>9. /\ q.delivery = h.delivery /\ q.method = h.method
      /\ q.shipping = h.shipping /\ q.total = None /\ q.state = h.state
      /\ q.attempt = h.attempt /\ q.retryAfter = h.retryAfter
  BY <1>5, <1>7
<1>10. /\ p.contact = (IF c = NoContact THEN h.contact ELSE c)
       /\ p.delivery = h.delivery /\ p.method = h.method
       /\ p.shipping = h.shipping /\ p.total = None /\ p.state = h.state
  BY <1>2
<1> QED BY <1>1, <1>3, <1>8, <1>9, <1>10

-----------------------------------------------------------------------------
\* The parts of an order as the page reads it.
LEMMA OrderFields ==
  ASSUME NEW o, NEW contact, NEW delivery, NEW method,
         NEW d, d = Else(Well(o.delivery), delivery),
         NEW own, own = ContactOf(o.contact, o.email, d),
         NEW k, k = IF own = NoContact THEN contact ELSE own,
         NEW r, r = ParsedOrder(o, contact, delivery, method)
  PROVE  /\ r.contact = k /\ r.method = Else(Well(o.method), method)
         /\ r.delivery = IF k.delivery = None THEN d ELSE None
<1>1. PICK m : m = Else(Well(o.method), method)
  OBVIOUS
<1>2. PICK f : f = [i \in 1 .. Len(o.lines) |-> ParsedLine(o.lines[i], o.listed)]
  OBVIOUS
<1>3. r = [at |-> "order", id |-> o.id, lines |-> f, total |-> Well(o.total),
           test |-> o.test, contact |-> k,
           delivery |-> IF k.delivery = None THEN d ELSE None, method |-> m]
  BY <1>1, <1>2 DEF ParsedOrder
<1> QED BY <1>1, <1>3

\* The facts of an order where it goes: the same destination is shown of an
\* order and a checkout read once and read twice.
LEMMA DestinationAgain ==
  ASSUME NEW h, IsCheckout(h), IsPlain(h), NEW o, IsContact(o.contact), NEW contact,
         NEW p, p = Project(h), NEW q, q = Project(Wire(p)),
         NEW c, c = ContactOf(h.contact, h.email, Well(h.delivery)),
         p.order = ParsedOrder(o, c, Well(h.delivery), Well(h.method)),
         q.order = ParsedOrder(WireOrder(p.order), c, Well(h.delivery), Well(h.method))
  PROVE  Destination(q, contact) = Destination(p, contact)
<1> DEFINE wd == Well(h.delivery)
           wm == Well(h.method)
           d == Else(Well(o.delivery), wd)
           m == Else(Well(o.method), wm)
           own == ContactOf(o.contact, o.email, d)
           k == IF own = NoContact THEN c ELSE own
<1>1. /\ p.order.contact = k /\ p.order.method = m
      /\ p.order.delivery = IF k.delivery = None THEN d ELSE None
  BY OrderFields
<1>2. Well(wd) = wd /\ Well(wm) = wm /\ Well(d) = d /\ Well(m) = m
  BY WellAgain, WellElse
<1>3. /\ IsRead(own) /\ (own # NoContact /\ own.delivery = None => d = None)
      /\ IsRead(c) /\ (c # NoContact /\ c.delivery = None => wd = None)
  BY <1>2, ContactRead, CheckoutAgain
<1>4. d = None => wd = None
  BY DEF Else
<1> HIDE DEF d, m, own, wd, wm
<1>5. IsRead(k)
  BY <1>3
<1>6. PICK e : e = Else(Well(p.order.delivery), wd)
  OBVIOUS
<1>7. PICK again : again = ContactOf(k, None, e)
  OBVIOUS
<1>8. PICK l : l = IF again = NoContact THEN c ELSE again
  OBVIOUS
<1>9. /\ q.order.contact = l
      /\ q.order.method = Else(Well(m), wm)
      /\ q.order.delivery = IF l.delivery = None THEN e ELSE None
  <2>1. PICK w : w = WireOrder(p.order)
    OBVIOUS
  <2>2. w.contact = k /\ w.email = None /\ w.method = m /\ w.delivery = p.order.delivery
    BY <1>1, <2>1 DEF WireOrder
  <2>3. q.order = ParsedOrder(w, c, wd, wm)
    BY <2>1 DEF wd, wm
  <2>4. e = Else(Well(w.delivery), wd) /\ again = ContactOf(w.contact, w.email, e)
    BY <1>6, <1>7, <2>2
  <2> QED BY <1>8, <2>2, <2>3, <2>4, OrderFields
<1>10. q.order.method = p.order.method
  <2>1. m = None => wm = None
    BY DEF m, Else
  <2> QED BY <1>1, <1>2, <1>9, <2>1 DEF Else
<1>11. again = IF k = NoContact THEN NoContact
               ELSE [email |-> k.email, delivery |-> Else(k.delivery, e)]
  BY <1>5, <1>7, ContactAgain
<1>12. Well(NoContact.email) = None /\ NoContact.delivery = None
  BY WellAgain DEF NoContact
<1>13. CASE k = NoContact
  <2>1. c = NoContact /\ l = NoContact
    BY <1>8, <1>11, <1>13
  <2>2. p.order.delivery = d /\ e = d
    BY <1>1, <1>2, <1>4, <1>6, <1>12, <1>13 DEF Else
  <2>3. q.order.delivery = d
    BY <1>9, <1>12, <2>1, <2>2
  <2> QED BY <1>1, <1>9, <1>10, <1>13, <2>1, <2>2, <2>3, CheckoutAgain
      DEF Destination, DeliveredTo
<1>14. CASE k # NoContact
  <2>1. Well(k.email) # None
    BY <1>5, <1>14 DEF IsRead
  <2>2. again # NoContact
    BY <1>11, <1>12, <1>14, <2>1
  <2>3. l.email = k.email /\ l.delivery = Else(k.delivery, e)
    BY <1>8, <1>11, <1>14, <2>2
  <2>4. Else(q.order.delivery, l.delivery) = Else(p.order.delivery, k.delivery)
    <3>1. CASE k.delivery # None
      BY <1>1, <1>9, <2>3, <3>1 DEF Else
    <3>2. CASE k.delivery = None
      <4>1. p.order.delivery = d /\ e = d
        BY <1>1, <1>2, <1>4, <1>6, <3>2 DEF Else
      <4>2. l.delivery = d
        BY <2>3, <3>2, <4>1 DEF Else
      <4> QED BY <1>9, <3>2, <4>1, <4>2 DEF Else
    <3> QED BY <3>1, <3>2
  <2>5. DeliveredTo(q, contact) = DeliveredTo(p, contact)
    BY <1>1, <1>9, <2>4, CheckoutAgain DEF DeliveredTo
  <2> QED BY <1>1, <1>9, <1>10, <2>3, <2>5, CheckoutAgain DEF Destination
<1> QED BY <1>13, <1>14

-----------------------------------------------------------------------------
\* A list of lines has as many as it is made of.
LEMMA LengthOfLines ==
  ASSUME NEW n \in Nat, NEW lines, lines = [i \in 1 .. n |-> lines[i]]
  PROVE  Len(lines) = n
<1>1. PICK S : S = {lines[i] : i \in 1 .. n}
  OBVIOUS
<1>2. lines \in [1 .. n -> S]
  BY <1>1
<1>3. lines \in Seq(S)
  BY <1>2
<1> QED BY <1>2, <1>3

\* A line that was read is read the same again.
LEMMA LineAgain ==
  ASSUME NEW line, NEW listed
  PROVE  ParsedLine(WireLine(ParsedLine(line, listed)), <<>>)
           = ParsedLine(line, listed)
<1>1. PICK v : v = Variant(line, listed)
  OBVIOUS
<1>2. PICK a : a = WireLine(ParsedLine(line, listed))
  OBVIOUS
<1>3. Variant(a, <<>>) = v
  BY <1>1, <1>2 DEF Variant, Else, WireLine, ParsedLine
<1> QED BY <1>1, <1>2, <1>3 DEF ParsedLine, WireLine

\* A plain answer that can be read can be read when it was rebuilt, and shows the
\* same order.
LEMMA PlainShows ==
  ASSUME NEW h, IsCheckout(h), IsPlain(h), ~Malformed(h), NEW contact,
         h.order # Nothing => IsContact(h.order.contact)
  PROVE  /\ ~Malformed(Wire(Project(h)))
         /\ h.order # Nothing =>
              /\ Confirmation(Project(Wire(Project(h))), contact)
                   = Confirmation(Project(h), contact)
              /\ Len(Project(h).order.lines) \in Nat
              /\ Project(h).order.lines
                   = [i \in 1 .. Len(Project(h).order.lines) |->
                        Project(h).order.lines[i]]
<1>1. PICK p : p = Project(h)
  OBVIOUS
<1>2. PICK w : w = Wire(p)
  OBVIOUS
<1>3. PICK q : q = Project(w)
  OBVIOUS
<1>4. /\ w.state = h.state /\ w.attempt = h.attempt
      /\ w.retryAfter = h.retryAfter
  BY <1>1, <1>2 DEF Project, Wire, IsCheckout
<1>5. CASE h.order = Nothing
  <2>1. p.order = Nothing
    BY <1>1, <1>5 DEF Project, IsCheckout
  <2>2. w.order = Nothing
    BY <1>2, <2>1 DEF Wire
  <2> QED BY <1>1, <1>2, <1>4, <1>5, <2>2 DEF Malformed
<1>6. CASE h.order # Nothing
  <2>1. PICK n : n = Len(h.order.lines)
    OBVIOUS
  <2>2. n \in 1 .. MaxOrderLines /\ n \in Nat /\ Purchased(h.order.lines)
    BY <1>6, <2>1, RelayAssumption DEF Malformed, Purchased
  <2> DEFINE c == ContactOf(h.contact, h.email, Well(h.delivery))
  <2> HIDE DEF c
  <2>3. p.order = ParsedOrder(h.order, c, Well(h.delivery), Well(h.method))
    BY <1>1, <1>6 DEF Project, IsCheckout, c
  <2>4. p.order.lines = [i \in 1 .. n |->
                           ParsedLine(h.order.lines[i], h.order.listed)]
    BY <2>1, <2>3 DEF ParsedOrder
  <2>5. p.order.lines = [i \in 1 .. n |-> p.order.lines[i]]
    BY <2>4
  <2>6. Len(p.order.lines) = n
    BY <2>2, <2>5, LengthOfLines
  <2>7. p.order # Nothing
    <3>1. p.order.at = "order"
      BY <2>3 DEF ParsedOrder
    <3> QED BY <3>1 DEF Nothing, None
  <2>8. w.order = WireOrder(p.order)
    BY <1>2, <2>7 DEF Wire
  <2>9. w.order.lines = [i \in 1 .. n |-> WireLine(p.order.lines[i])]
    BY <2>6, <2>8 DEF WireOrder
  <2>10. w.order.lines = [i \in 1 .. n |-> w.order.lines[i]]
    BY <2>9
  <2>11. Len(w.order.lines) = n
    BY <2>2, <2>10, LengthOfLines
  <2>12. w.order # Nothing
    <3>1. w.order.at = "order"
      BY <2>8 DEF WireOrder
    <3> QED BY <3>1 DEF Nothing, None
  <2>13. \A i \in 1 .. n : /\ w.order.lines[i].id = h.order.lines[i].id
                           /\ w.order.lines[i].quantity = h.order.lines[i].quantity
    <3> SUFFICES ASSUME NEW i \in 1 .. n
                 PROVE  /\ w.order.lines[i].id = h.order.lines[i].id
                        /\ w.order.lines[i].quantity = h.order.lines[i].quantity
      OBVIOUS
    <3>1. w.order.lines[i] = WireLine(p.order.lines[i])
      BY <2>9
    <3>2. p.order.lines[i] = ParsedLine(h.order.lines[i], h.order.listed)
      BY <2>4
    <3> QED BY <3>1, <3>2 DEF WireLine, ParsedLine
  <2>14. Purchased(w.order.lines)
    BY <2>1, <2>2, <2>11, <2>13 DEF Purchased
  <2>15. ~Malformed(w)
    BY <1>4, <2>12, <2>14 DEF Malformed
  <2>16. q.order = ParsedOrder(WireOrder(p.order), c, Well(h.delivery), Well(h.method))
    <3>1. /\ p.delivery = h.delivery /\ p.method = h.method
          /\ ContactOf(p.contact, None, Well(h.delivery)) = c
      BY <1>1, CheckoutAgain DEF c
    <3>2. /\ w.delivery = h.delivery /\ w.method = h.method
          /\ w.contact = p.contact /\ w.email = None
          /\ w = [state |-> w.state, attempt |-> w.attempt, redirect |-> w.redirect,
                  retryAfter |-> w.retryAfter, order |-> w.order,
                  contact |-> w.contact, email |-> w.email,
                  delivery |-> w.delivery, method |-> w.method,
                  shipping |-> w.shipping, total |-> w.total]
      BY <1>2, <3>1 DEF Wire, IsPlain
    <3>3. q.order = ParsedOrder(w.order, ContactOf(w.contact, w.email, Well(w.delivery)),
                                Well(w.delivery), Well(w.method))
      BY <1>3, <2>12, <3>2 DEF Project
    <3> QED BY <2>8, <3>1, <3>2, <3>3
  <2>17. q.order.lines = [i \in 1 .. n |-> ParsedLine(w.order.lines[i], <<>>)]
    <3>1. q.order.lines = [i \in 1 .. Len(w.order.lines) |->
                             ParsedLine(w.order.lines[i], w.order.listed)]
      BY <2>8, <2>16 DEF ParsedOrder
    <3>2. w.order.listed = <<>>
      BY <2>8 DEF WireOrder
    <3> QED BY <2>11, <3>1, <3>2
  <2>18. q.order.lines = p.order.lines
    <3>1. \A i \in 1 .. n : ParsedLine(w.order.lines[i], <<>>)
                              = ParsedLine(h.order.lines[i], h.order.listed)
      BY <2>4, <2>9, LineAgain
    <3> QED BY <2>4, <2>17, <3>1
  <2>19. /\ q.order.id = p.order.id /\ q.order.test = p.order.test
         /\ q.order.total = p.order.total /\ q.total = p.total
    <3>1. p.order.total = Well(h.order.total)
      BY <2>3 DEF ParsedOrder
    <3>2. WireOrder(p.order).total = p.order.total
      BY DEF WireOrder
    <3>3. q.order.total = Well(p.order.total)
      BY <2>16, <3>2 DEF ParsedOrder
    <3>4. q.total = p.total
      BY <1>1, <1>2, <1>3, CheckoutAgain
    <3> QED BY <2>16, <3>1, <3>3, <3>4, WellAgain DEF ParsedOrder, WireOrder
  <2>20. Destination(q, contact) = Destination(p, contact)
    BY <1>1, <1>2, <1>3, <1>6, <2>3, <2>16, DestinationAgain DEF c
  <2>21. Confirmation(q, contact) = Confirmation(p, contact)
    BY <2>18, <2>19, <2>20 DEF Confirmation
  <2> QED BY <1>1, <1>2, <1>3, <2>2, <2>5, <2>6, <2>15, <2>21
<1> QED BY <1>5, <1>6

\* What the wire form leaves out of an answer makes no other difference to it.
LEMMA WireIsPlain ==
  ASSUME NEW h, IsCheckout(h)
  PROVE  /\ IsCheckout(Plain(h)) /\ IsPlain(Plain(h)) /\ Plain(h).order = h.order
         /\ Malformed(Plain(h)) <=> Malformed(h)
         /\ Wire(Project(h)) = Wire(Project(Plain(h)))
<1>1. PICK g : g = Plain(h)
  OBVIOUS
<1>2. /\ g.total = None /\ g.method = IF h.method = Blank THEN None ELSE h.method
      /\ g.shipping = IF h.shipping \in Carried THEN h.shipping ELSE None
      /\ g.state = h.state /\ g.attempt = h.attempt /\ g.redirect = h.redirect
      /\ g.retryAfter = h.retryAfter /\ g.order = h.order /\ g.contact = h.contact
      /\ g.email = h.email /\ g.delivery = h.delivery
      /\ g = [state |-> g.state, attempt |-> g.attempt, redirect |-> g.redirect,
              retryAfter |-> g.retryAfter, order |-> g.order,
              contact |-> g.contact, email |-> g.email, delivery |-> g.delivery,
              method |-> g.method, shipping |-> g.shipping, total |-> g.total]
  BY <1>1 DEF Plain, IsCheckout
<1>3. IsCheckout(g) /\ IsPlain(g) /\ (Malformed(g) <=> Malformed(h))
  BY <1>2 DEF IsCheckout, IsPlain, Malformed, None, Blank
<1>4. Well(g.method) = Well(h.method)
  BY <1>2 DEF Well, None, Bad, Blank
<1>5. PICK c : c = ContactOf(h.contact, h.email, Well(h.delivery))
  OBVIOUS
<1>6. PICK order : order = IF h.order = Nothing THEN Nothing
                           ELSE ParsedOrder(h.order, c, Well(h.delivery), Well(h.method))
  OBVIOUS
<1>7. PICK whose : whose = IF c = NoContact THEN h.contact ELSE c
  OBVIOUS
<1>8. PICK p : p = Project(h)
  OBVIOUS
<1>9. /\ p.state = h.state /\ p.attempt = h.attempt /\ p.redirect = h.redirect
      /\ p.retryAfter = h.retryAfter /\ p.order = order /\ p.contact = whose
      /\ p.delivery = h.delivery /\ p.method = h.method /\ p.shipping = h.shipping
  BY <1>5, <1>6, <1>7, <1>8 DEF Project, IsCheckout
<1>10. PICK r : r = Project(g)
  OBVIOUS
<1>11. /\ r.state = h.state /\ r.attempt = h.attempt /\ r.redirect = h.redirect
       /\ r.retryAfter = h.retryAfter /\ r.order = order /\ r.contact = whose
       /\ r.delivery = h.delivery /\ r.method = g.method /\ r.shipping = g.shipping
  BY <1>2, <1>4, <1>5, <1>6, <1>7, <1>10 DEF Project
<1>12. /\ (IF p.method = Blank THEN None ELSE p.method)
            = (IF r.method = Blank THEN None ELSE r.method)
       /\ (IF p.shipping \in Carried THEN p.shipping ELSE None)
            = (IF r.shipping \in Carried THEN r.shipping ELSE None)
  BY <1>2, <1>9, <1>11 DEF None, Blank, Carried
<1>13. Wire(p) = Wire(r)
  BY <1>9, <1>11, <1>12 DEF Wire
<1> QED BY <1>1, <1>2, <1>3, <1>8, <1>10, <1>13

\* An answer that can be read can be read when it was rebuilt, and shows the
\* order it would have shown without what the wire form leaves out.
LEMMA RelayedShows ==
  ASSUME NEW h, IsCheckout(h), ~Malformed(h), NEW contact,
         h.order # Nothing => IsContact(h.order.contact)
  PROVE  /\ ~Malformed(Wire(Project(h)))
         /\ h.order # Nothing =>
              /\ Confirmation(Project(Wire(Project(h))), contact)
                   = Confirmation(Project(Plain(h)), contact)
              /\ Len(Project(Plain(h)).order.lines) \in Nat
<1>1. PICK g : g = Plain(h)
  OBVIOUS
<1>2. /\ IsCheckout(g) /\ IsPlain(g) /\ ~Malformed(g) /\ g.order = h.order
      /\ Wire(Project(h)) = Wire(Project(g))
  BY <1>1, WireIsPlain
<1> QED BY <1>1, <1>2, PlainShows

-----------------------------------------------------------------------------
\* Once the catalog was asked no line of the shown order lacks a picture.
LEMMA CatalogOnce ==
  ASSUME NEW p, NEW contact, Len(p.order.lines) \in Nat,
         NEW shown, shown = WithCatalog(Confirmation(p, contact)),
         NEW i \in 1 .. Len(shown.lines)
  PROVE  shown.lines[i].thumbnail # None
<1>1. PICK n \in Nat : n = Len(p.order.lines)
  OBVIOUS
<1>2. PICK order : order = Confirmation(p, contact)
  OBVIOUS
<1>3. /\ order.lines = [j \in 1 .. n |-> order.lines[j]]
      /\ \A j \in 1 .. n : order.lines[j] =
           [label |-> order.lines[j].label, quantity |-> order.lines[j].quantity,
            variant |-> order.lines[j].variant,
            thumbnail |-> order.lines[j].thumbnail,
            unitPrice |-> order.lines[j].unitPrice]
  BY <1>1, <1>2 DEF Confirmation
<1>4. order = [at |-> order.at, id |-> order.id, test |-> order.test,
               destination |-> order.destination, total |-> order.total,
               lines |-> order.lines]
  BY <1>2 DEF Confirmation
<1>5. shown.lines = [j \in 1 .. n |-> Pictured(order.lines[j])]
  <2>1. PICK f : f = [j \in DOMAIN order.lines |-> Pictured(order.lines[j])]
    OBVIOUS
  <2>2. shown = [order EXCEPT !.lines = f]
    BY <1>2, <2>1 DEF WithCatalog
  <2>3. shown.lines = f
    BY <1>4, <2>2
  <2> QED BY <1>3, <2>1, <2>3
<1>6. Len(shown.lines) = n
  <2>1. shown.lines = [j \in 1 .. n |-> shown.lines[j]]
    BY <1>5
  <2> QED BY <2>1, LengthOfLines
<1>7. shown.lines[i] = Pictured(order.lines[i])
  BY <1>5, <1>6
<1>8. shown.lines[i].thumbnail = Else(order.lines[i].thumbnail, "catalog")
  BY <1>3, <1>6, <1>7 DEF Pictured
<1> QED BY <1>8 DEF Else, None

-----------------------------------------------------------------------------
\* An answer on its way can be read; one which says paid is Commerce's.
AnswersHold ==
  relayed.at = "wire" =>
    /\ ~Malformed(relayed.checkout)
    /\ relayed.checkout.state = "paid" =>
         held.state = "paid" /\ ~Malformed(held)
           /\ relayed.checkout = Wire(Project(held))

ShownIsHeld ==
  shopper.order # Nothing =>
    /\ held.state = "paid" /\ ~Malformed(held)
    /\ shopper.order \in
         {Confirmation(Project(Plain(held)), kept.contact),
          WithCatalog(Confirmation(Project(Plain(held)), kept.contact))}

IsPage(seen) ==
  /\ seen = [checks |-> seen.checks, checking |-> seen.checking,
             again |-> seen.again, link |-> seen.link, says |-> seen.says,
             order |-> seen.order]
  /\ seen.checks \in 0 .. MaxChecks /\ seen.says \in Says
  /\ seen.checking \in BOOLEAN /\ seen.again \in BOOLEAN
  /\ seen.link \in BOOLEAN

RelayKeepsTypes ==
  /\ IsCheckout(held) /\ kept \in Retentions /\ IsPage(shopper)
  /\ relayed.at \in {None, "error", "wire"}

RelayInv == RelayKeepsTypes /\ AnswersHold /\ ShownIsHeld

\* The invariant of the relay holds at the start.
LEMMA RelayBegins == RelayInit => RelayInv
<1> SUFFICES ASSUME RelayInit PROVE RelayInv
  OBVIOUS
<1>1. relayed.at = None /\ shopper.order = Nothing
  BY DEF RelayInit, Nothing
<1>2. IsCheckout(held) /\ kept \in Retentions
  BY RelayAssumption DEF RelayInit
<1>3. IsPage(shopper)
  BY RelayAssumption DEF RelayInit, IsPage, Says
<1> QED BY <1>1, <1>2, <1>3 DEF RelayInv, RelayKeepsTypes, AnswersHold, ShownIsHeld, None

\* A check asks of the attempt retained.
LEMMA CheckStatusKeeps == ASSUME RelayInv, CheckStatus PROVE RelayInv'
<1>1. /\ shopper.checks < MaxChecks /\ IsPage(shopper)
      /\ shopper' = [shopper EXCEPT !.checking = TRUE, !.checks = @ + 1,
                                    !.link = FALSE, !.says = "checking"]
      /\ UNCHANGED <<held, kept, relayed>>
  BY DEF RelayInv, RelayKeepsTypes, CheckStatus, CanCheck
<1>2. PICK n \in 0 .. MaxChecks : n = shopper.checks + 1
  BY <1>1, RelayAssumption DEF IsPage
<1>3. shopper' = [shopper EXCEPT !.checking = TRUE, !.checks = n,
                                 !.link = FALSE, !.says = "checking"]
  BY <1>1, <1>2
<1>4. IsPage(shopper)' /\ shopper'.order = shopper.order
  BY <1>1, <1>3 DEF IsPage, Says
<1> QED BY <1>1, <1>4 DEF RelayInv, RelayKeepsTypes, AnswersHold, ShownIsHeld

\* The route relays what it read, or refuses.
LEMMA RouteKeeps == ASSUME RelayInv, RouteRefuses \/ RouteRelays PROVE RelayInv'
<1>1. UNCHANGED <<held, kept, shopper>>
  BY DEF RouteRefuses, RouteRelays
<1>2. ShownIsHeld'
  BY <1>1 DEF RelayInv, ShownIsHeld
<1>3. CASE relayed' = [at |-> "error"]
  <2>1. relayed'.at = "error"
    BY <1>3
  <2> QED BY <1>1, <1>2, <2>1 DEF RelayInv, RelayKeepsTypes, AnswersHold
<1>4. CASE ~Malformed(held)
           /\ relayed' = [at |-> "wire", checkout |-> Wire(Project(held))]
  <2>1. relayed'.at = "wire" /\ relayed'.checkout = Wire(Project(held))
    BY <1>4
  <2>2. IsCheckout(held) /\ (held.order # Nothing => IsContact(held.order.contact))
    BY RelayAssumption DEF RelayInv, RelayKeepsTypes, IsCheckout
  <2>3. ~Malformed(Wire(Project(held)))
    BY <1>4, <2>2, RelayedShows
  <2>4. Wire(Project(held)).state = held.state
    BY <2>2 DEF Wire, Project, IsCheckout
  <2> QED BY <1>1, <1>2, <1>4, <2>1, <2>3, <2>4 DEF RelayInv, RelayKeepsTypes, AnswersHold
<1> QED BY <1>3, <1>4 DEF RouteRefuses, RouteRelays

\* A check that fails shows nothing new.
LEMMA CheckFailsKeeps == ASSUME RelayInv, CheckFails PROVE RelayInv'
<1>1. /\ IsPage(shopper) /\ relayed' = Nothing /\ UNCHANGED <<held, kept>>
      /\ shopper' = [shopper EXCEPT !.says = "unconfirmed", !.again = FALSE,
                                    !.checking = FALSE]
  BY DEF RelayInv, RelayKeepsTypes, CheckFails, CheckFailed
<1>2. IsPage(shopper)' /\ shopper'.order = shopper.order
  BY <1>1 DEF IsPage, Says
<1>3. relayed'.at = None
  BY <1>1 DEF Nothing
<1> QED BY <1>1, <1>2, <1>3 DEF RelayInv, RelayKeepsTypes, AnswersHold, ShownIsHeld, None

\* What the page reads of an answer is what Commerce's own would show, less what
\* the wire form leaves out.
LEMMA CheckReadsKeeps == ASSUME RelayInv, CheckReads PROVE RelayInv'
<1>1. /\ IsPage(shopper) /\ relayed' = Nothing /\ UNCHANGED <<held, kept>>
      /\ relayed.at = "wire"
  BY DEF RelayInv, RelayKeepsTypes, CheckReads
<1>2. relayed'.at = None
  BY <1>1 DEF Nothing
<1>3. PICK q : q = Project(relayed.checkout)
  OBVIOUS
<1>4. SUFFICES IsPage(shopper)' /\ ShownIsHeld'
  BY <1>1, <1>2 DEF RelayInv, RelayKeepsTypes, AnswersHold, None
<1>5. ASSUME CanConfirm(q), NEW done \in BOOLEAN, Shows(q, done)
      PROVE  IsPage(shopper)' /\ ShownIsHeld'
  <2>1. relayed.checkout.state = "paid"
    BY <1>1, <1>3, <1>5 DEF CanConfirm, Project, RelayInv, AnswersHold
  <2>2. /\ held.state = "paid" /\ ~Malformed(held)
        /\ relayed.checkout = Wire(Project(held))
    BY <1>1, <2>1 DEF RelayInv, AnswersHold
  <2>3. /\ held.order # Nothing /\ IsCheckout(held)
        /\ IsContact(held.order.contact)
    BY <2>2, RelayAssumption DEF RelayInv, RelayKeepsTypes, IsCheckout, Malformed
  <2>4. Confirmation(q, kept.contact) = Confirmation(Project(Plain(held)), kept.contact)
    BY <1>3, <2>2, <2>3, RelayedShows
  <2>5. PICK said : said = IF done THEN "confirmed" ELSE "cart not updated"
    OBVIOUS
  <2>6. shopper' = [shopper EXCEPT !.checking = FALSE, !.again = FALSE,
                      !.link = FALSE, !.says = said,
                      !.order = Confirmation(q, kept.contact)]
    BY <1>5, <2>5 DEF Shows
  <2>7. said \in Says
    BY <2>5 DEF Says
  <2>8. IsPage(shopper)' /\ shopper'.order = Confirmation(q, kept.contact)
    BY <1>1, <2>6, <2>7 DEF IsPage
  <2> QED BY <1>1, <2>2, <2>4, <2>8 DEF ShownIsHeld
<1>6. ASSUME Waits(q) PROVE IsPage(shopper)' /\ ShownIsHeld'
  <2>1. PICK pending \in BOOLEAN : pending = (q.state = "pending")
    OBVIOUS
  <2>2. PICK link \in BOOLEAN :
          link = (q.state \notin {"paid", "released-retry"} /\ q.redirect = "stripe")
    OBVIOUS
  <2>3. PICK said \in Says :
          said = CASE q.state = "released-retry" -> "released"
                   [] pending /\ ~CanCheck -> "limited"
                   [] pending /\ CanCheck -> "pending"
                   [] OTHER -> "protected"
    BY <2>1 DEF Says
  <2>4. shopper' = [shopper EXCEPT !.checking = FALSE, !.again = pending,
                                   !.link = link, !.says = said]
    BY <1>6, <2>1, <2>2, <2>3 DEF Waits
  <2>5. IsPage(shopper)' /\ shopper'.order = shopper.order
    BY <1>1, <2>4 DEF IsPage
  <2> QED BY <1>1, <2>5 DEF RelayInv, ShownIsHeld
<1> QED BY <1>3, <1>5, <1>6 DEF CheckReads

\* Looking up media changes no order.
LEMMA LooksUpKeeps == ASSUME RelayInv, LooksUpMedia PROVE RelayInv'
<1>1. PICK direct : direct = Confirmation(Project(Plain(held)), kept.contact)
  OBVIOUS
<1>2. /\ IsPage(shopper) /\ UNCHANGED <<held, kept, relayed>>
      /\ shopper.order # Nothing /\ shopper.order \in {direct, WithCatalog(direct)}
      /\ shopper' = [shopper EXCEPT !.order = WithCatalog(@)]
      /\ held.state = "paid" /\ ~Malformed(held)
  BY <1>1 DEF RelayInv, RelayKeepsTypes, ShownIsHeld, LooksUpMedia
<1>3. /\ held.order # Nothing /\ IsCheckout(held)
      /\ IsContact(held.order.contact)
  BY <1>2, RelayAssumption DEF RelayInv, RelayKeepsTypes, IsCheckout, Malformed
<1>4. Len(Project(Plain(held)).order.lines) \in Nat
  BY <1>2, <1>3, RelayedShows
<1>5. shopper.order # WithCatalog(direct)
  BY <1>1, <1>4, CatalogOnce DEF LooksUpMedia
<1>6. IsPage(shopper)' /\ shopper'.order = WithCatalog(direct)
  BY <1>2, <1>5 DEF IsPage
<1> QED BY <1>1, <1>2, <1>6 DEF RelayInv, RelayKeepsTypes, AnswersHold, ShownIsHeld

\* Commerce moves a checkout on, and a paid one not at all.
LEMMA CommerceMovesKeeps == ASSUME RelayInv, CommerceMoves PROVE RelayInv'
<1>1. /\ IsCheckout(held) /\ held.state = "pending"
      /\ UNCHANGED <<kept, relayed, shopper>>
  BY DEF RelayInv, RelayKeepsTypes, CommerceMoves
<1>2. /\ shopper.order = Nothing
      /\ relayed.at = "wire" => /\ ~Malformed(relayed.checkout)
                                /\ relayed.checkout.state # "paid"
  BY <1>1 DEF RelayInv, AnswersHold, ShownIsHeld
<1>3. IsCheckout(held)'
  <2>1. ASSUME NEW order \in Orders \cup {Nothing},
               held' = [held EXCEPT !.state = "paid", !.order = order]
        PROVE  IsCheckout(held)'
    BY <1>1, <2>1 DEF IsCheckout, HeldStates
  <2>2. CASE held' = [held EXCEPT !.state = "recoverable-failure"]
    BY <1>1, <2>2 DEF IsCheckout, HeldStates
  <2>3. ASSUME NEW after \in {None, held.attempt},
               held' = [held EXCEPT !.state = "released-retry", !.retryAfter = after]
        PROVE  IsCheckout(held)'
    BY <1>1, <2>3 DEF IsCheckout, HeldStates
  <2> QED BY <2>1, <2>2, <2>3 DEF CommerceMoves
<1> QED BY <1>1, <1>2, <1>3 DEF RelayInv, RelayKeepsTypes, AnswersHold, ShownIsHeld

\* Every step of the relay keeps its invariant.
LEMMA RelayGoesOn == RelayInv /\ [RelayNext]_relayVars => RelayInv'
<1> SUFFICES ASSUME RelayInv, [RelayNext]_relayVars PROVE RelayInv'
  OBVIOUS
<1>1. CASE RelayNext
  BY <1>1, CheckStatusKeeps, RouteKeeps, CheckFailsKeeps, CheckReadsKeeps, LooksUpKeeps,
     CommerceMovesKeeps DEF RelayNext
<1>2. CASE UNCHANGED relayVars
  BY <1>2 DEF relayVars, RelayInv, RelayKeepsTypes, AnswersHold, ShownIsHeld
<1> QED BY <1>1, <1>2

\* Which says its types.
LEMMA RelayTypes == ASSUME RelayInv PROVE RelayTypeOK
BY DEF RelayInv, RelayKeepsTypes, RelayTypeOK, IsCheckout, IsPage

\* Whatever Commerce answers and the browser retained, nothing the route relays
\* is malformed to the page; and the order the page shows, with its destination,
\* its lines and its total, is the one Commerce's own answer would have shown
\* without a total beside the order, a blank method and shipping that is not free
\* or flat with a charge, though it was read twice (guestCheckoutWire).
THEOREM RelayIsTrue == RelaySpec => []RelayLosesOnly
<1>1. RelayInv => RelayLosesOnly
  BY DEF RelayInv, AnswersHold, ShownIsHeld, RelayLosesOnly
<1> QED BY <1>1, RelayBegins, RelayGoesOn, PTL DEF RelaySpec
-----------------------------------------------------------------------------
(***************************************************************************)
(* PlaygroundSeed.  Unless two crossed, the numbers in use have no gap, the*)
(* counter is past them by one at most, and a pass that numbers is alone   *)
(* and has read just those; so the next number free is the one after them, *)
(* however often a pass was cut short before it moved the counter.         *)
(***************************************************************************)
PassFields == {"at", "todo", "on", "read", "taken", "next", "left"}

Drawn(s) == IF sample[s] = 0 THEN 0 ELSE 1
Count == 2 + Cardinality(ordered) + Drawn("shipped") + Drawn("paid")

PassKnows(i) ==
  Numbering(i) =>
    /\ seeding[i].left \subseteq {s \in Samples : sample[s] = 0}
    /\ seeding[i].at \in {"scan", "number", "put"} => seeding[i].left # {}
    /\ seeding[i].at \in {"number", "put", "counter"} =>
         seeding[i].taken = 1 .. Count /\ seeding[i].next \in 1 .. (Count + 1)
    /\ seeding[i].at = "put" => "shipped" \in seeding[i].left /\ label = Count + 1

PassTyped == DOMAIN seeding = Isolates
             /\ \A i \in Isolates : DOMAIN seeding[i] = PassFields

NumbersFollow ==
  /\ IsFiniteSet(ordered) /\ Cardinality(ordered) \in 0 .. MaxOrders
  /\ Taken = 1 .. Count /\ counter \in 0 .. (Count + 1)
  /\ Apart
  /\ \A i \in Isolates : PassKnows(i) /\ (Numbering(i) => ~Others(i))

NumbersInv ==
  PassTyped /\ DOMAIN sample = Samples /\ (crossed \/ NumbersFollow)

-----------------------------------------------------------------------------
\* The numbers of an instance, and the two kinds of sample.
LEMMA NumbersReach ==
  /\ Numbers = 1 .. (5 + 2 * Cardinality(Isolates) + MaxOrders)
  /\ MaxOrders \in Nat /\ Cardinality(Isolates) \in Nat
  /\ Samples = {"shipped", "paid"} /\ Reserved = {1, 2}
<1>1. Cardinality(Reserved) = 2
  <2>1. IsFiniteSet({1}) /\ Cardinality({1}) = 1
    BY FS_Singleton
  <2>2. Cardinality({1} \cup {2}) = 2
    BY <2>1, FS_AddElement
  <2>3. {1} \cup {2} = Reserved
    BY DEF Reserved
  <2> QED BY <2>2, <2>3
<1>2. Cardinality(Samples) = 2
  <2>1. IsFiniteSet({"shipped"}) /\ Cardinality({"shipped"}) = 1
    BY FS_Singleton
  <2>2. Cardinality({"shipped"} \cup {"paid"}) = 2
    BY <2>1, FS_AddElement
  <2>3. {"shipped"} \cup {"paid"} = Samples
    BY DEF Samples
  <2> QED BY <2>2, <2>3
<1>3. MaxOrders \in Nat /\ Cardinality(Isolates) \in Nat
  BY SeedAssumption, FS_CardinalityType
<1>4. Numbers = 1 .. (5 + 2 * Cardinality(Isolates) + MaxOrders)
  BY <1>1, <1>2, <1>3 DEF Numbers
<1> QED BY <1>3, <1>4 DEF Samples, Reserved

\* How many numbers are in use while they have no gap.
LEMMA CountBounded ==
  ASSUME NumbersFollow
  PROVE  Count \in Nat /\ Count >= 2 /\ Count + 1 \in Numbers
<1>1. Drawn("shipped") \in {0, 1} /\ Drawn("paid") \in {0, 1}
  BY DEF Drawn
<1>2. Cardinality(ordered) \in Nat /\ Cardinality(ordered) <= MaxOrders
  BY NumbersReach DEF NumbersFollow
<1> QED BY <1>1, <1>2, NumbersReach DEF Count

\* The next number free after numbers without a gap.
LEMMA FirstFree ==
  ASSUME NEW k \in Nat, k + 1 \in Numbers, NEW n \in 1 .. (k + 1)
  PROVE  FreeFrom(n, 1 .. k) = k + 1
<1> DEFINE Free(f) == f \in Numbers \ (1 .. k) /\ f >= n /\ \A j \in n .. f - 1 : j \in 1 .. k
<1>1. Free(k + 1)
  OBVIOUS
<1>2. ASSUME NEW f, Free(f) PROVE f = k + 1
  <2>1. f \in Nat /\ f >= 1 /\ f >= k + 1
    BY <1>2, NumbersReach
  <2>2. f > k + 1 => k + 1 \in n .. f - 1
    BY <2>1
  <2>3. ~(k + 1 \in 1 .. k)
    OBVIOUS
  <2> QED BY <1>2, <2>1, <2>2, <2>3
<1>3. FreeFrom(n, 1 .. k) = CHOOSE f \in Numbers \ (1 .. k) :
                              f >= n /\ \A j \in n .. f - 1 : j \in 1 .. k
  BY DEF FreeFrom
<1> QED BY <1>1, <1>2, <1>3

\* The invariant of the numbers holds at the start.
LEMMA SeedBegins == SeedInit => NumbersInv
<1> SUFFICES ASSUME SeedInit PROVE NumbersInv
  OBVIOUS
<1>1. /\ DOMAIN sample = Samples /\ \A s \in Samples : sample[s] = 0
      /\ ordered = {} /\ counter = 0
  BY DEF SeedInit
<1>2. IsFiniteSet(ordered) /\ Cardinality(ordered) = 0
  BY <1>1, FS_EmptySet
<1>3. Count = 2
  BY <1>1, <1>2, NumbersReach DEF Count, Drawn
<1>4. Taken = 1 .. 2
  BY <1>1, NumbersReach DEF Taken, InUse
<1>5. Apart
  BY <1>1, NumbersReach DEF Apart
<1>6. PassTyped /\ \A i \in Isolates : ~Numbering(i)
  BY DEF SeedInit, NoPass0, PassTyped, PassFields, Numbering
<1>7. Cardinality(ordered) \in 0 .. MaxOrders /\ counter \in 0 .. (Count + 1)
  BY <1>1, <1>2, <1>3, SeedAssumption
<1>8. \A i \in Isolates : PassKnows(i) /\ (Numbering(i) => ~Others(i))
  BY <1>6 DEF PassKnows
<1>9. Taken = 1 .. Count
  BY <1>3, <1>4
<1> QED BY <1>1, <1>2, <1>5, <1>6, <1>7, <1>8, <1>9 DEF NumbersInv, NumbersFollow

-----------------------------------------------------------------------------
\* A step of one pass that takes no number.
LEMMA PassSteps ==
  ASSUME NumbersInv, NEW i \in Isolates, PassTyped',
         \A j \in Isolates \ {i} : seeding'[j] = seeding[j],
         UNCHANGED <<sample, label, ordered>>, crossed => crossed',
         NumbersFollow /\ ~crossed' =>
           /\ counter' \in 0 .. (Count + 1)
           /\ Numbering(i)' => Numbering(i) \/ ~Others(i)
           /\ PassKnows(i)'
  PROVE  NumbersInv'
<1> SUFFICES ASSUME ~crossed' PROVE NumbersFollow'
  BY DEF NumbersInv
<1>1. NumbersFollow
  BY DEF NumbersInv
<1>2. /\ Count' = Count /\ Taken' = Taken /\ Apart'
  BY <1>1 DEF Count, Drawn, Taken, InUse, Apart, NumbersFollow
<1>3. \A j \in Isolates \ {i} : Numbering(j)' = Numbering(j) /\ PassKnows(j)'
  BY <1>1, <1>2 DEF Numbering, PassKnows, NumbersFollow
<1>4. \A j \in Isolates : Numbering(j)' => ~Others(j)'
  BY <1>1, <1>3 DEF Others, NumbersFollow
<1> QED BY <1>1, <1>2, <1>3, <1>4 DEF NumbersFollow

\* The steps before and after the numbers.
LEMMA QuietSteps ==
  ASSUME NumbersInv, NEW i \in Isolates, UNCHANGED <<sample, label, ordered, counter, crossed>>,
         Request(i) \/ CutShort(i) \/ ReadMerchant(i) \/ SaveMerchant(i)
           \/ ListProducts(i) \/ CreateDemo(i) \/ AddOptions(i) \/ SetPrices(i)
           \/ SetOnSale(i)
  PROVE  NumbersInv'
<1>1. PICK turn : /\ seeding' = [seeding EXCEPT ![i] = turn] /\ DOMAIN turn = PassFields
                  /\ turn.at \notin {"scan", "number", "put", "counter"}
  <2>1. DOMAIN seeding[i] = PassFields
    BY DEF NumbersInv, PassTyped
  <2>2. ASSUME NEW at \in {"merchant", "save", "list", "create", "options", "prices", "sale",
                         "orders"},
               GoesTo(i, at)
        PROVE  \E turn : /\ seeding' = [seeding EXCEPT ![i] = turn]
                         /\ DOMAIN turn = PassFields
                         /\ turn.at \notin {"scan", "number", "put", "counter"}
    <3>1. /\ seeding' = [seeding EXCEPT ![i] = [seeding[i] EXCEPT !.at = at]]
          /\ DOMAIN [seeding[i] EXCEPT !.at = at] = PassFields
          /\ [seeding[i] EXCEPT !.at = at].at = at
      BY <2>1, <2>2 DEF GoesTo, Goes, PassFields
    <3> QED BY <3>1
  <2>3. CASE CutShort(i)
    <3>1. seeding' = [seeding EXCEPT ![i] = NoPass0]
      BY <2>3 DEF CutShort, Goes
    <3>2. DOMAIN NoPass0 = PassFields /\ NoPass0.at = "none"
      BY DEF NoPass0, PassFields
    <3> QED BY <3>1, <3>2
  <2>4. CASE ListProducts(i)
    <3> DEFINE turn == [seeding[i] EXCEPT !.at = "create",
                                          !.todo = {p \in DemoProducts : ~product[p].made}]
    <3>1. seeding' = [seeding EXCEPT ![i] = turn]
      BY <2>4 DEF ListProducts, Goes
    <3>2. DOMAIN turn = PassFields /\ turn.at = "create"
      BY <2>1 DEF PassFields
    <3> QED BY <3>1, <3>2
  <2>5. CASE CreateDemo(i)
    <3>1. CASE GoesTo(i, "orders")
      BY <2>2, <3>1
    <3>2. ASSUME NEW p, Goes(i, [seeding[i] EXCEPT !.at = "options", !.on = p,
                                                   !.todo = @ \ {p}])
          PROVE  \E turn : /\ seeding' = [seeding EXCEPT ![i] = turn]
                           /\ DOMAIN turn = PassFields
                           /\ turn.at \notin {"scan", "number", "put", "counter"}
      <4> DEFINE turn == [seeding[i] EXCEPT !.at = "options", !.on = p,
                                            !.todo = seeding[i].todo \ {p}]
      <4>1. seeding' = [seeding EXCEPT ![i] = turn]
        BY <3>2 DEF Goes
      <4>2. DOMAIN turn = PassFields /\ turn.at = "options"
        BY <2>1 DEF PassFields
      <4> QED BY <4>1, <4>2
    <3> QED BY <2>5, <3>1, <3>2 DEF CreateDemo
  <2>6. CASE SetOnSale(i)
    <3> DEFINE turn == [seeding[i] EXCEPT !.at = "create", !.on = "none"]
    <3>1. seeding' = [seeding EXCEPT ![i] = turn]
      BY <2>6 DEF SetOnSale, Goes
    <3>2. DOMAIN turn = PassFields /\ turn.at = "create"
      BY <2>1 DEF PassFields
    <3> QED BY <3>1, <3>2
  <2>7. CASE Request(i)
    BY <2>2, <2>7 DEF Request
  <2>8. CASE ReadMerchant(i)
    BY <2>2, <2>8 DEF ReadMerchant
  <2>9. CASE SaveMerchant(i)
    BY <2>2, <2>9 DEF SaveMerchant
  <2>10. CASE AddOptions(i) \/ SetPrices(i)
    BY <2>2, <2>10 DEF AddOptions, SetPrices
  <2> QED BY <2>3, <2>4, <2>5, <2>6, <2>7, <2>8, <2>9, <2>10
<1>2. /\ PassTyped' /\ \A j \in Isolates \ {i} : seeding'[j] = seeding[j]
      /\ seeding'[i] = turn
  BY <1>1 DEF NumbersInv, PassTyped
<1>3. ~Numbering(i)'
  BY <1>1, <1>2 DEF Numbering
<1> QED BY <1>2, <1>3, PassSteps DEF PassKnows, NumbersFollow

\* A pass that reads the samples takes no number.
LEMMA ReadSamplesKeeps ==
  ASSUME NumbersInv, NEW i \in Isolates, ReadSamples(i)
  PROVE  NumbersInv'
<1> DEFINE missing == Missing
           turn == IF missing = {} THEN NoPass0
                   ELSE [seeding[i] EXCEPT !.at = "scan", !.left = missing]
<1>1. /\ seeding' = [seeding EXCEPT ![i] = turn]
      /\ crossed' = (crossed \/ (missing # {} /\ Others(i)))
      /\ UNCHANGED <<sample, label, ordered, counter>>
  BY DEF ReadSamples, Goes
<1>2. /\ DOMAIN turn = PassFields
      /\ IF missing = {} THEN turn.at = "none" ELSE turn.at = "scan" /\ turn.left = missing
  BY DEF NumbersInv, PassTyped, PassFields, NoPass0
<1> HIDE DEF turn
<1>3. /\ PassTyped' /\ \A j \in Isolates \ {i} : seeding'[j] = seeding[j]
      /\ seeding'[i] = turn
  BY <1>1, <1>2 DEF NumbersInv, PassTyped
<1>4. ASSUME NumbersFollow, ~crossed'
      PROVE  /\ counter' \in 0 .. (Count + 1)
             /\ Numbering(i)' => Numbering(i) \/ ~Others(i)
             /\ PassKnows(i)'
  <2>1. CASE missing = {}
    BY <1>1, <1>2, <1>3, <1>4, <2>1 DEF Numbering, PassKnows, NumbersFollow
  <2>2. CASE missing # {}
    <3>1. ~Others(i)
      BY <1>1, <1>4, <2>2
    <3>2. seeding'[i].at = "scan" /\ seeding'[i].left = missing
      BY <1>2, <1>3, <2>2
    <3>3. PassKnows(i)'
      BY <1>1, <2>2, <3>2 DEF PassKnows, Missing
    <3> QED BY <1>1, <1>4, <3>1, <3>3 DEF NumbersFollow
  <2> QED BY <2>1, <2>2
<1> QED BY <1>1, <1>3, <1>4, PassSteps

\* A scan reads the numbers in use as they are, or one was crossed.
LEMMA ScanKeeps ==
  ASSUME NumbersInv, NEW i \in Isolates, ScanNumbers(i)
  PROVE  NumbersInv'
<1> DEFINE turn == [seeding[i] EXCEPT !.at = "number", !.taken = Taken,
                                      !.read = counter,
                                      !.next = IF counter = 0 THEN First ELSE counter]
<1>1. /\ seeding' = [seeding EXCEPT ![i] = turn] /\ seeding[i].at = "scan"
      /\ UNCHANGED <<sample, label, ordered, counter, crossed>>
  BY DEF ScanNumbers, Goes, At0
<1>2. /\ DOMAIN turn = PassFields /\ turn.at = "number" /\ turn.taken = Taken
      /\ turn.left = seeding[i].left
      /\ turn.next = IF counter = 0 THEN First ELSE counter
  BY DEF NumbersInv, PassTyped, PassFields
<1> HIDE DEF turn
<1>3. /\ PassTyped' /\ \A j \in Isolates \ {i} : seeding'[j] = seeding[j]
      /\ seeding'[i] = turn
  BY <1>1, <1>2 DEF NumbersInv, PassTyped
<1>4. ASSUME NumbersFollow
      PROVE  /\ counter' \in 0 .. (Count + 1)
             /\ Numbering(i)' => Numbering(i) \/ ~Others(i)
             /\ PassKnows(i)'
  <2>1. Count' = Count
    BY <1>1 DEF Count, Drawn
  <2>2. Numbering(i) /\ PassKnows(i) /\ Taken = 1 .. Count /\ counter \in 0 .. (Count + 1)
    BY <1>1, <1>4 DEF Numbering, NumbersFollow
  <2>3. turn.next \in 1 .. (Count + 1)
    BY <1>2, <1>4, <2>2, CountBounded DEF First
  <2>4. PassKnows(i)'
    BY <1>1, <1>2, <1>3, <2>1, <2>2, <2>3 DEF PassKnows
  <2> QED BY <1>1, <2>2, <2>4
<1> QED BY <1>1, <1>3, <1>4, PassSteps

\* The counter is put one past the numbers in use.
LEMMA PutCounterKeeps ==
  ASSUME NumbersInv, NEW i \in Isolates, PutCounter(i)
  PROVE  NumbersInv'
<1>1. /\ seeding' = [seeding EXCEPT ![i] = NoPass0] /\ seeding[i].at = "counter"
      /\ UNCHANGED <<sample, label, ordered, crossed>>
      /\ counter' \in {FreeFrom(seeding[i].next, seeding[i].taken), counter}
  BY DEF PutCounter, NextFor, Goes, At0
<1>2. /\ PassTyped' /\ \A j \in Isolates \ {i} : seeding'[j] = seeding[j]
      /\ seeding'[i] = NoPass0
  BY <1>1 DEF NumbersInv, PassTyped, NoPass0, PassFields
<1>3. ~Numbering(i)'
  BY <1>2 DEF Numbering, NoPass0
<1>4. ASSUME NumbersFollow PROVE counter' \in 0 .. (Count + 1)
  <2>1. seeding[i].taken = 1 .. Count /\ seeding[i].next \in 1 .. (Count + 1)
    BY <1>1, <1>4 DEF NumbersFollow, PassKnows, Numbering
  <2>2. FreeFrom(seeding[i].next, seeding[i].taken) = Count + 1
    BY <1>4, <2>1, CountBounded, FirstFree
  <2>3. counter \in 0 .. (Count + 1)
    BY <1>4 DEF NumbersFollow
  <2> QED BY <1>1, <1>4, <2>2, <2>3, CountBounded
<1> QED BY <1>1, <1>2, <1>3, <1>4, PassSteps DEF PassKnows

\* A sample's number is the one after those in use.
LEMMA PutSampleKeeps ==
  ASSUME NumbersInv, NEW i \in Isolates, PutSample(i)
  PROVE  NumbersInv'
<1>1. PICK s, n, left :
        /\ s = IF "shipped" \in seeding[i].left THEN "shipped" ELSE "paid"
        /\ n = FreeFrom(seeding[i].next, seeding[i].taken)
        /\ left = seeding[i].left \ {s}
        /\ sample' = [sample EXCEPT ![s] = n]
        /\ seeding' = [seeding EXCEPT ![i] =
             [seeding[i] EXCEPT !.left = left, !.taken = seeding[i].taken \cup {n}, !.next = n,
                                !.at = IF left = {} THEN "counter" ELSE "number"]]
        /\ seeding[i].at = IF s = "shipped" THEN "put" ELSE "number"
        /\ UNCHANGED <<label, ordered, counter, crossed>>
  BY DEF PutSample, NextFor, Goes, At0
<1> DEFINE turn == [seeding[i] EXCEPT !.left = left, !.taken = seeding[i].taken \cup {n},
                                      !.next = n,
                                      !.at = IF left = {} THEN "counter" ELSE "number"]
<1>2. /\ DOMAIN turn = PassFields /\ turn.left = left
      /\ turn.taken = seeding[i].taken \cup {n} /\ turn.next = n
      /\ turn.at = IF left = {} THEN "counter" ELSE "number"
  BY DEF NumbersInv, PassTyped, PassFields
<1>3. seeding' = [seeding EXCEPT ![i] = turn]
  BY <1>1
<1> HIDE DEF turn
<1>4. /\ PassTyped' /\ \A j \in Isolates \ {i} : seeding'[j] = seeding[j]
      /\ seeding'[i] = turn
  BY <1>2, <1>3 DEF NumbersInv, PassTyped
<1>5. DOMAIN sample' = Samples
  BY <1>1 DEF NumbersInv
<1> SUFFICES ASSUME NumbersFollow PROVE NumbersFollow'
  BY <1>1, <1>4, <1>5 DEF NumbersInv
<1>6. /\ seeding[i].left \subseteq {t \in Samples : sample[t] = 0} /\ seeding[i].left # {}
      /\ seeding[i].taken = 1 .. Count /\ seeding[i].next \in 1 .. (Count + 1)
      /\ ~Others(i)
  BY <1>1 DEF NumbersFollow, PassKnows, Numbering
<1>7. s \in Samples /\ sample[s] = 0 /\ s \in seeding[i].left
  BY <1>1, <1>6, NumbersReach
<1>8. n = Count + 1 /\ Count \in Nat /\ Count >= 2
  BY <1>1, <1>6, CountBounded, FirstFree
<1>9. \A t \in Samples : sample'[t] = IF t = s THEN n ELSE sample[t]
  BY <1>1, <1>7 DEF NumbersInv
<1>10. Count' = Count + 1
  <2>1. Drawn("shipped") \in {0, 1} /\ Drawn("paid") \in {0, 1}
    BY DEF Drawn
  <2>2. /\ Drawn(s) = 0 /\ Drawn(s)' = 1
        /\ \A t \in Samples \ {s} : Drawn(t)' = Drawn(t)
    BY <1>7, <1>8, <1>9 DEF Drawn
  <2>3. s = "shipped" \/ s = "paid"
    BY <1>7, NumbersReach
  <2>4. Cardinality(ordered) \in Nat
    BY NumbersReach DEF NumbersFollow
  <2>5. "shipped" \in Samples /\ "paid" \in Samples /\ "shipped" # "paid"
    BY NumbersReach
  <2>6. CASE s = "shipped"
    <3>1. Drawn("shipped") = 0 /\ Drawn("shipped")' = 1 /\ Drawn("paid")' = Drawn("paid")
      BY <2>2, <2>5, <2>6
    <3> QED BY <1>1, <2>1, <2>4, <3>1 DEF Count
  <2>7. CASE s = "paid"
    <3>1. Drawn("paid") = 0 /\ Drawn("paid")' = 1 /\ Drawn("shipped")' = Drawn("shipped")
      BY <2>2, <2>5, <2>7
    <3> QED BY <1>1, <2>1, <2>4, <3>1 DEF Count
  <2> QED BY <2>3, <2>6, <2>7
<1>11. Taken' = Taken \cup {n}
  BY <1>1, <1>7, <1>8, <1>9 DEF Taken, InUse
<1>12. Taken = 1 .. Count /\ Taken' = 1 .. Count'
  BY <1>8, <1>10, <1>11 DEF NumbersFollow
<1>13. Apart'
  <2>1. n \notin Taken
    BY <1>8, <1>12
  <2>2. n \notin ordered \cup Reserved /\ \A t \in Samples : sample[t] # n
    BY <1>8, <2>1 DEF Taken, InUse
  <2>3. "shipped" \in Samples /\ "paid" \in Samples /\ "shipped" # "paid"
    BY NumbersReach
  <2>4. s = "shipped" => label = n
    BY <1>1, <1>8 DEF NumbersFollow, PassKnows, Numbering
  <2> QED BY <1>1, <1>7, <1>8, <1>9, <2>2, <2>3, <2>4 DEF NumbersFollow, Apart
<1>14. PassKnows(i)'
  <2>1. seeding'[i].left \subseteq {t \in Samples : sample'[t] = 0}
    BY <1>1, <1>2, <1>4, <1>6, <1>9
  <2>2. seeding'[i].taken = 1 .. Count'
    <3>1. (1 .. Count) \cup {n} = 1 .. (Count + 1)
      BY <1>8
    <3> QED BY <1>2, <1>4, <1>6, <1>10, <3>1
  <2>3. seeding'[i].next \in 1 .. (Count' + 1)
    BY <1>2, <1>4, <1>8, <1>10
  <2>4. /\ seeding'[i].at \in {"scan", "number", "put"} => seeding'[i].left # {}
        /\ seeding'[i].at # "put"
    BY <1>2, <1>4
  <2> QED BY <2>1, <2>2, <2>3, <2>4 DEF PassKnows
<1>15. \A j \in Isolates \ {i} : ~Numbering(j)'
  BY <1>4, <1>6 DEF Others, Numbering
<1>16. \A j \in Isolates : PassKnows(j)' /\ (Numbering(j)' => ~Others(j)')
  BY <1>14, <1>15 DEF PassKnows, Others
<1>17. counter' \in 0 .. (Count' + 1)
  BY <1>1, <1>8, <1>10 DEF NumbersFollow
<1> QED BY <1>1, <1>12, <1>13, <1>16, <1>17 DEF NumbersFollow

\* The label bears the number its order will have.
LEMMA PutLabelKeeps ==
  ASSUME NumbersInv, NEW i \in Isolates, PutLabel(i)
  PROVE  NumbersInv'
<1> DEFINE turn == [seeding[i] EXCEPT !.at = "put"]
<1>1. /\ seeding' = [seeding EXCEPT ![i] = turn] /\ seeding[i].at = "number"
      /\ "shipped" \in seeding[i].left
      /\ label' = FreeFrom(seeding[i].next, seeding[i].taken)
      /\ UNCHANGED <<sample, ordered, counter, crossed>>
  BY DEF PutLabel, NextFor, GoesTo, Goes, At0
<1>2. /\ DOMAIN turn = PassFields /\ turn.at = "put" /\ turn.left = seeding[i].left
      /\ turn.taken = seeding[i].taken /\ turn.next = seeding[i].next
  BY DEF NumbersInv, PassTyped, PassFields
<1> HIDE DEF turn
<1>3. /\ PassTyped' /\ \A j \in Isolates \ {i} : seeding'[j] = seeding[j]
      /\ seeding'[i] = turn
  BY <1>1, <1>2 DEF NumbersInv, PassTyped
<1> SUFFICES ASSUME NumbersFollow PROVE NumbersFollow'
  BY <1>1, <1>3 DEF NumbersInv
<1>4. PassKnows(i) /\ Numbering(i) /\ ~Others(i)
  BY <1>1 DEF NumbersFollow, Numbering
<1>5. /\ Count' = Count /\ Taken' = Taken
  BY <1>1 DEF Count, Drawn, Taken, InUse
<1>6. label' = Count + 1
  BY <1>1, <1>4, CountBounded, FirstFree DEF PassKnows
<1>7. Apart'
  BY <1>1, <1>4 DEF NumbersFollow, Apart, PassKnows
<1>8. PassKnows(i)'
  BY <1>1, <1>2, <1>3, <1>4, <1>5, <1>6 DEF PassKnows
<1>9. \A j \in Isolates \ {i} : ~Numbering(j)'
  BY <1>3, <1>4 DEF Others, Numbering
<1>10. \A j \in Isolates : PassKnows(j)' /\ (Numbering(j)' => ~Others(j)')
  BY <1>8, <1>9 DEF PassKnows, Others
<1> QED BY <1>1, <1>5, <1>7, <1>10 DEF NumbersFollow

\* The visitor's order takes the next number.
LEMMA PlacesOrderKeeps == ASSUME NumbersInv, PlacesOrder PROVE NumbersInv'
<1>1. PICK n : /\ n = FreeFrom(IF counter = 0 THEN First ELSE counter, Taken)
               /\ ordered' = ordered \cup {n} /\ counter' = n + 1
               /\ Cardinality(ordered) < MaxOrders
               /\ crossed' = (crossed \/ \E i \in Isolates : Numbering(i))
               /\ UNCHANGED <<seeding, sample, label>>
  BY DEF PlacesOrder, Taken
<1> SUFFICES ASSUME ~crossed' PROVE NumbersFollow'
  BY <1>1 DEF NumbersInv, PassTyped
<1>2. NumbersFollow /\ \A i \in Isolates : ~Numbering(i) /\ ~Numbering(i)'
  BY <1>1 DEF NumbersInv, Numbering
<1>3. n = Count + 1 /\ Count \in Nat /\ Count >= 2 /\ Taken = 1 .. Count
  <2>1. (IF counter = 0 THEN First ELSE counter) \in 1 .. (Count + 1)
    BY <1>2, CountBounded DEF NumbersFollow, First
  <2> QED BY <1>1, <1>2, <2>1, CountBounded, FirstFree DEF NumbersFollow
<1>4. n \notin Taken /\ n \notin ordered /\ n \notin Reserved
      /\ \A s \in Samples : sample[s] # n
  <2>1. n \notin Taken
    BY <1>3
  <2> QED BY <1>3, <2>1 DEF Taken, InUse
<1>5. /\ IsFiniteSet(ordered') /\ Cardinality(ordered') = Cardinality(ordered) + 1
  BY <1>1, <1>2, <1>4, FS_AddElement DEF NumbersFollow
<1>6. Cardinality(ordered') \in 0 .. MaxOrders
  BY <1>1, <1>2, <1>5, NumbersReach DEF NumbersFollow
<1>7. Count' = Count + 1
  <2>1. Drawn("shipped")' = Drawn("shipped") /\ Drawn("paid")' = Drawn("paid")
    BY <1>1 DEF Drawn
  <2>2. Drawn("shipped") \in {0, 1} /\ Drawn("paid") \in {0, 1}
    BY DEF Drawn
  <2>3. Cardinality(ordered) \in Nat
    BY <1>2, NumbersReach DEF NumbersFollow
  <2> QED BY <1>5, <2>1, <2>2, <2>3 DEF Count
<1>8. Taken' = Taken \cup {n}
  BY <1>1 DEF Taken, InUse
<1>9. Taken' = 1 .. Count' /\ counter' \in 0 .. (Count' + 1)
  BY <1>1, <1>3, <1>7, <1>8
<1>10. Apart'
  BY <1>1, <1>2, <1>4, NumbersReach DEF NumbersFollow, Apart
<1> QED BY <1>2, <1>5, <1>6, <1>9, <1>10 DEF NumbersFollow, PassKnows

\* What leaves the orders alone leaves their numbers.
LEMMA NumbersSame ==
  ASSUME NumbersInv, UNCHANGED <<seeding, sample, label, ordered, counter, crossed>>
  PROVE  NumbersInv'
BY DEF NumbersInv, PassTyped, NumbersFollow, PassKnows, Numbering, Others, Apart, Taken,
       InUse, Count, Drawn

\* Every step of the seed keeps its numbers apart.
LEMMA SeedGoesOn == NumbersInv /\ [SeedNext]_seedVars => NumbersInv'
<1> SUFFICES ASSUME NumbersInv, [SeedNext]_seedVars PROVE NumbersInv'
  OBVIOUS
<1>1. ASSUME NEW i \in Isolates,
             Request(i) \/ CutShort(i) \/ ReadMerchant(i) \/ SaveMerchant(i)
               \/ ListProducts(i) \/ CreateDemo(i) \/ AddOptions(i) \/ SetPrices(i)
           \/ SetOnSale(i)
      PROVE  NumbersInv'
  <2>1. UNCHANGED <<sample, label, ordered, counter, crossed>>
    BY <1>1 DEF Request, CutShort, ReadMerchant, SaveMerchant, ListProducts, CreateDemo,
                AddOptions, SetPrices, SetOnSale
  <2> QED BY <1>1, <2>1, QuietSteps
<1>2. ASSUME NEW i \in Isolates,
             ReadSamples(i) \/ ScanNumbers(i) \/ PutLabel(i) \/ PutSample(i)
               \/ PutCounter(i)
      PROVE  NumbersInv'
  BY <1>2, ReadSamplesKeeps, ScanKeeps, PutLabelKeeps, PutSampleKeeps,
     PutCounterKeeps
<1>3. CASE SavesSettings \/ \E p \in DemoProducts : EditsPrices(p)
  BY <1>3, NumbersSame DEF SavesSettings, EditsPrices
<1>4. CASE PlacesOrder
  BY <1>4, PlacesOrderKeeps
<1>5. CASE UNCHANGED seedVars
  BY <1>5, NumbersSame DEF seedVars
<1> QED BY <1>1, <1>2, <1>3, <1>4, <1>5 DEF SeedNext

\* Every order of a playground store has a number of its own, however many
\* isolates seed it and wherever their passes are cut short, unless two passes,
\* or a pass and an order, took numbers at the same time (demo-orders).
THEOREM OrdersStayApart == SeedSpec => []OrdersApartAlone
<1>1. NumbersInv => OrdersApartAlone
  BY DEF NumbersInv, NumbersFollow, OrdersApartAlone
<1> QED BY <1>1, SeedBegins, SeedGoesOn, PTL DEF SeedSpec

-----------------------------------------------------------------------------
(***************************************************************************)
(* How far the numbers go.  Once a sample is there, only the passes that   *)
(* found it missing still number it, each once: Owing is who they are, and *)
(* while the sample is missing they are all the isolates.  Top counts what *)
(* was drawn so far from the numbers there can be; an order raises it by   *)
(* one, a sample by one at least, and every number known is below it.      *)
(***************************************************************************)
\* A set of numbers with a member has a least one.
LEMMA LeastNumber ==
  ASSUME NEW S \in SUBSET Nat, S # {}
  PROVE  \E k \in S : \A j \in S : k <= j
<1> DEFINE R == OpToRel(<, Nat)
<1>1. IsWellFoundedOn(R, Nat)
  BY NatLessThanWellFounded
<1>2. \A k, j \in Nat : <<j, k>> \in R <=> j < k
  BY DEF OpToRel
<1> HIDE DEF R
<1>3. PICK k \in S : \A j \in S : ~(<<j, k>> \in R)
  BY <1>1, WFMin
<1>4. ASSUME NEW j \in S PROVE k <= j
  <2>1. j \in Nat /\ k \in Nat /\ ~(<<j, k>> \in R)
    BY <1>3
  <2>2. ~(j < k)
    BY <1>2, <2>1
  <2> QED BY <2>1, <2>2
<1> QED BY <1>4

\* The next number free, when those in use end at b.
LEMMA FreeBelow ==
  ASSUME NEW b \in Nat, b + 1 \in Numbers, NEW taken, taken \subseteq 1 .. b,
         NEW n \in 1 .. (b + 1)
  PROVE  FreeFrom(n, taken) \in n .. (b + 1) /\ FreeFrom(n, taken) \notin taken
<1> DEFINE S == {k \in n .. (b + 1) : k \notin taken}
<1>1. b + 1 \in S /\ S \in SUBSET Nat
  OBVIOUS
<1>2. PICK k \in S : \A j \in S : k <= j
  <2> HIDE DEF S
  <2> QED BY <1>1, LeastNumber
<1>3. k \in Numbers \ taken /\ k >= n /\ k \in Nat
  BY <1>2, NumbersReach
<1>4. ASSUME NEW j \in n .. k - 1 PROVE j \in taken
  <2>1. j \in n .. (b + 1) /\ ~(k <= j)
    BY <1>2
  <2> QED BY <1>2, <2>1
<1>5. /\ FreeFrom(n, taken) \in Numbers \ taken /\ FreeFrom(n, taken) >= n
      /\ \A j \in n .. FreeFrom(n, taken) - 1 : j \in taken
  BY <1>3, <1>4 DEF FreeFrom
<1>6. FreeFrom(n, taken) \in Nat
  BY <1>5, NumbersReach
<1>7. FreeFrom(n, taken) <= b + 1
  <2> SUFFICES ASSUME FreeFrom(n, taken) > b + 1 PROVE FALSE
    BY <1>6
  <2>1. b + 1 \in n .. FreeFrom(n, taken) - 1
    BY <1>6
  <2> QED BY <1>5, <2>1
<1> QED BY <1>5, <1>6, <1>7

Owing(s) == IF sample[s] = 0 THEN Isolates ELSE {i \in Isolates : s \in seeding[i].left}
Top == 2 + Cardinality(ordered) + 2 * Cardinality(Isolates)
         - Cardinality(Owing("shipped")) - Cardinality(Owing("paid"))
PassBelow(i) ==
  /\ seeding[i].left \subseteq Samples /\ seeding[i].taken \subseteq 1 .. Top
  /\ seeding[i].next \in 0 .. (Top + 1) /\ seeding[i].read \in 0 .. (Top + 1)
  /\ seeding[i].at \in {"scan", "number", "put"} => seeding[i].left # {}
  /\ seeding[i].at \in {"number", "put", "counter"} => seeding[i].next # 0
NumbersBelow ==
  /\ IsFiniteSet(ordered) /\ Cardinality(ordered) <= MaxOrders
  /\ ordered \subseteq 1 .. Top /\ \A s \in Samples : sample[s] \in 0 .. Top
  /\ counter \in 0 .. (Top + 1) /\ label \in 0 .. (Top + 1)
  /\ \A i \in Isolates : PassBelow(i)

\* How many passes may still number a sample.
LEMMA OwingCounts ==
  ASSUME NEW s
  PROVE  /\ IsFiniteSet(Owing(s)) /\ Owing(s) \subseteq Isolates
         /\ Cardinality(Owing(s)) \in 0 .. Cardinality(Isolates)
         /\ IsFiniteSet(Owing(s)') /\ Owing(s)' \subseteq Isolates
         /\ Cardinality(Owing(s)') \in 0 .. Cardinality(Isolates)
<1>1. Owing(s) \subseteq Isolates /\ Owing(s)' \subseteq Isolates
  BY DEF Owing
<1>2. ASSUME NEW T \in SUBSET Isolates
      PROVE  IsFiniteSet(T) /\ Cardinality(T) \in 0 .. Cardinality(Isolates)
  BY <1>2, SeedAssumption, FS_Subset, FS_CardinalityType
<1> QED BY <1>1, <1>2

\* The top is within the numbers of the instance.
LEMMA TopBounded ==
  ASSUME IsFiniteSet(ordered), Cardinality(ordered) <= MaxOrders
  PROVE  Top \in Nat /\ Top >= 2 /\ Top + 1 \in Numbers
<1>1. Cardinality(ordered) \in Nat
  BY FS_CardinalityType
<1> QED BY <1>1, OwingCounts, NumbersReach DEF Top

\* The top, in numbers: what is owed less leaves room for more.
LEMMA TopInNumbers ==
  ASSUME NEW o \in Nat, NEW m \in Nat, NEW a \in 0 .. m, NEW b \in 0 .. m,
         NEW c \in 0 .. m, NEW d \in 0 .. m, c <= a, d <= b
  PROVE  /\ 2 + o + 2 * m - a - b \in Nat
         /\ 2 + o + 2 * m - c - d \in Nat
         /\ 2 + o + 2 * m - c - d >= 2 + o + 2 * m - a - b
OBVIOUS

\* What a step leaves to be owed less than before raises the top.
LEMMA TopRises ==
  ASSUME NumbersBelow, ordered' = ordered,
         Owing("shipped")' \subseteq Owing("shipped"), Owing("paid")' \subseteq Owing("paid")
  PROVE  Top \in Nat /\ Top' \in Nat /\ Top' >= Top
<1> DEFINE o == Cardinality(ordered)
           m == Cardinality(Isolates)
           a == Cardinality(Owing("shipped"))
           b == Cardinality(Owing("paid"))
           c == Cardinality(Owing("shipped")')
           d == Cardinality(Owing("paid")')
<1>1. c <= a /\ d <= b
  BY OwingCounts, FS_Subset
<1>2. o \in Nat /\ m \in Nat
  BY SeedAssumption, FS_CardinalityType DEF NumbersBelow
<1>3. a \in 0 .. m /\ b \in 0 .. m /\ c \in 0 .. m /\ d \in 0 .. m
  BY OwingCounts
<1>4. Top = 2 + o + 2 * m - a - b /\ Top' = 2 + o + 2 * m - c - d
  BY DEF Top
<1> HIDE DEF o, m, a, b, c, d
<1>5. /\ 2 + o + 2 * m - a - b \in Nat
      /\ 2 + o + 2 * m - c - d \in Nat
      /\ 2 + o + 2 * m - c - d >= 2 + o + 2 * m - a - b
  BY <1>1, <1>2, <1>3, TopInNumbers
<1> QED BY <1>4, <1>5

\* Ranges grow with their end.
LEMMA RangesGrow ==
  ASSUME NEW a \in Nat, NEW b \in Nat, b >= a
  PROVE  1 .. a \subseteq 1 .. b /\ 0 .. a \subseteq 0 .. b /\ 0 .. (a + 1) \subseteq 0 .. (b + 1)
OBVIOUS

\* The top, in numbers, when a pass numbers a sample.
LEMMA OwedLess ==
  ASSUME NEW o \in Nat, NEW m \in Nat, NEW a \in Nat, NEW b \in Nat, NEW c \in Nat,
         NEW d \in Nat, c + d + 1 <= a + b
  PROVE  /\ 2 + o + 2 * m - c - d >= 2 + o + 2 * m - a - b + 1
         /\ 2 + o + 2 * m - c - d \in Int
OBVIOUS

\* A number next to a range is in the one that is longer.
LEMMA NumberFits ==
  ASSUME NEW a \in Nat, NEW b \in Nat, b >= a + 1, NEW k \in 1 .. (a + 1)
  PROVE  k \in 1 .. b /\ k \in 0 .. b /\ k \in 0 .. (b + 1)
OBVIOUS

\* A step of a pass that numbers nothing: it drops samples, or takes up missing
\* ones, and what it knows of the numbers stays below the top.
LEMMA PassBelowKeeps ==
  ASSUME NumbersBelow, PassTyped, NEW i \in Isolates, NEW turn,
         seeding' = [seeding EXCEPT ![i] = turn],
         turn.left \subseteq seeding[i].left \cup {s \in Samples : sample[s] = 0},
         turn.taken \subseteq 1 .. Top, turn.next \in 0 .. (Top + 1),
         turn.read \in 0 .. (Top + 1),
         turn.at \in {"scan", "number", "put"} => turn.left # {},
         turn.at \in {"number", "put", "counter"} => turn.next # 0,
         counter' \in 0 .. (Top + 1), label' \in 0 .. (Top + 1),
         UNCHANGED <<sample, ordered>>
  PROVE  NumbersBelow'
<1>1. seeding'[i] = turn /\ \A j \in Isolates \ {i} : seeding'[j] = seeding[j]
  BY DEF PassTyped
<1>2. ASSUME NEW s \in Samples PROVE Owing(s)' \subseteq Owing(s)
  BY <1>1 DEF Owing
<1>3. Top \in Nat /\ Top' \in Nat /\ Top' >= Top
  BY <1>2, TopRises, NumbersReach
<1>4. turn.left \subseteq Samples
  BY DEF NumbersBelow, PassBelow
<1>5. 1 .. Top \subseteq 1 .. Top' /\ 0 .. Top \subseteq 0 .. Top'
      /\ 0 .. (Top + 1) \subseteq 0 .. (Top' + 1)
  BY <1>3, RangesGrow
<1>6. ASSUME NEW j \in Isolates PROVE PassBelow(j)'
  <2>1. PassBelow(j)
    BY DEF NumbersBelow
  <2>2. CASE j = i
    BY <1>1, <1>4, <1>5, <2>2 DEF PassBelow
  <2>3. CASE j # i
    BY <1>1, <1>5, <2>1, <2>3 DEF PassBelow
  <2> QED BY <2>2, <2>3
<1>7. ordered \subseteq 1 .. Top' /\ \A s \in Samples : sample[s] \in 0 .. Top'
  BY <1>5 DEF NumbersBelow
<1> QED BY <1>5, <1>6, <1>7 DEF NumbersBelow

\* The top while the numbers are below it.
LEMMA TopOf == ASSUME NumbersBelow PROVE Top \in Nat /\ Top >= 2 /\ Top + 1 \in Numbers
BY TopBounded DEF NumbersBelow

\* The numbers in use are up to the top.
LEMMA TakenBelow == ASSUME NumbersBelow PROVE Taken \subseteq 1 .. Top
<1>1. Reserved \subseteq 1 .. Top
  BY TopOf, NumbersReach
<1>2. \A s \in Samples : sample[s] # 0 => sample[s] \in 1 .. Top
  BY TopOf DEF NumbersBelow
<1> QED BY <1>1, <1>2 DEF NumbersBelow, Taken, InUse

\* A pass that numbers knows where the next number is free.
LEMMA NextFree ==
  ASSUME NumbersBelow, NEW i \in Isolates, seeding[i].at \in {"number", "put", "counter"}
  PROVE  /\ FreeFrom(seeding[i].next, seeding[i].taken) \in 1 .. (Top + 1)
         /\ FreeFrom(seeding[i].next, seeding[i].taken) \notin seeding[i].taken
<1>1. seeding[i].taken \subseteq 1 .. Top /\ seeding[i].next \in 1 .. (Top + 1)
  BY TopOf DEF NumbersBelow, PassBelow
<1> QED BY <1>1, TopOf, FreeBelow

\* A pass that reads the samples may number those missing.
LEMMA ReadSamplesBelow ==
  ASSUME NumbersBelow, PassTyped, NEW i \in Isolates, ReadSamples(i)
  PROVE  NumbersBelow'
<1> DEFINE missing == Missing
           turn == IF missing = {} THEN NoPass0
                   ELSE [seeding[i] EXCEPT !.at = "scan", !.left = missing]
<1>1. /\ seeding' = [seeding EXCEPT ![i] = turn]
      /\ UNCHANGED <<sample, label, ordered, counter>>
  BY DEF ReadSamples, Goes
<1>2. /\ turn.left = missing /\ missing \subseteq {s \in Samples : sample[s] = 0}
      /\ turn.taken \in {{}, seeding[i].taken} /\ turn.next \in {0, seeding[i].next}
      /\ turn.read \in {0, seeding[i].read}
      /\ turn.at \in {"none", "scan"} /\ (turn.at = "scan" => missing # {})
  BY DEF PassTyped, PassFields, NoPass0, Missing
<1> HIDE DEF turn
<1>3. turn.taken \subseteq 1 .. Top /\ turn.next \in 0 .. (Top + 1)
      /\ turn.read \in 0 .. (Top + 1)
  BY <1>2, TopOf DEF NumbersBelow, PassBelow
<1> QED BY <1>1, <1>2, <1>3, PassBelowKeeps DEF NumbersBelow

\* What a scan reads is up to the top.
LEMMA ScanBelow ==
  ASSUME NumbersBelow, PassTyped, NEW i \in Isolates, ScanNumbers(i)
  PROVE  NumbersBelow'
<1> DEFINE turn == [seeding[i] EXCEPT !.at = "number", !.taken = Taken,
                                      !.read = counter,
                                      !.next = IF counter = 0 THEN First ELSE counter]
<1>1. /\ seeding' = [seeding EXCEPT ![i] = turn] /\ seeding[i].at = "scan"
      /\ UNCHANGED <<sample, label, ordered, counter>>
  BY DEF ScanNumbers, Goes, At0
<1>2. /\ turn.left = seeding[i].left /\ turn.taken = Taken /\ turn.at = "number"
      /\ turn.read = counter
      /\ turn.next = IF counter = 0 THEN First ELSE counter
  BY DEF PassTyped, PassFields
<1> HIDE DEF turn
<1>3. turn.next \in 0 .. (Top + 1) /\ turn.next # 0
  BY <1>2, TopOf DEF NumbersBelow, First
<1>4. turn.left # {}
  BY <1>1, <1>2 DEF NumbersBelow, PassBelow
<1> QED BY <1>1, <1>2, <1>3, <1>4, TakenBelow, PassBelowKeeps DEF NumbersBelow

\* The counter is put one past it at most.
LEMMA PutCounterBelow ==
  ASSUME NumbersBelow, PassTyped, NEW i \in Isolates, PutCounter(i)
  PROVE  NumbersBelow'
<1>1. /\ seeding' = [seeding EXCEPT ![i] = NoPass0] /\ seeding[i].at = "counter"
      /\ UNCHANGED <<sample, label, ordered>>
      /\ counter' \in {FreeFrom(seeding[i].next, seeding[i].taken), counter}
  BY DEF PutCounter, NextFor, Goes, At0
<1>2. counter' \in 0 .. (Top + 1)
  BY <1>1, NextFree, TopOf DEF NumbersBelow
<1>3. /\ NoPass0.left = {} /\ NoPass0.taken = {} /\ NoPass0.next = 0 /\ NoPass0.at = "none"
      /\ NoPass0.read = 0
  BY DEF NoPass0
<1>4. 0 \in 0 .. (Top + 1)
  BY TopOf
<1> HIDE DEF NoPass0
<1> QED BY <1>1, <1>2, <1>3, <1>4, PassBelowKeeps DEF NumbersBelow

\* The label's number is one past the top at most.
LEMMA PutLabelBelow ==
  ASSUME NumbersBelow, PassTyped, NEW i \in Isolates, PutLabel(i)
  PROVE  NumbersBelow'
<1> DEFINE turn == [seeding[i] EXCEPT !.at = "put"]
<1>1. /\ seeding' = [seeding EXCEPT ![i] = turn] /\ seeding[i].at = "number"
      /\ label' = FreeFrom(seeding[i].next, seeding[i].taken)
      /\ UNCHANGED <<sample, ordered, counter>>
  BY DEF PutLabel, NextFor, GoesTo, Goes, At0
<1>2. /\ turn.left = seeding[i].left /\ turn.taken = seeding[i].taken /\ turn.at = "put"
      /\ turn.next = seeding[i].next /\ turn.read = seeding[i].read
  BY DEF PassTyped, PassFields
<1> HIDE DEF turn
<1>3. label' \in 0 .. (Top + 1)
  BY <1>1, NextFree, TopOf
<1>4. PassBelow(i)
  BY DEF NumbersBelow
<1> QED BY <1>1, <1>2, <1>3, <1>4, PassBelowKeeps DEF NumbersBelow, PassBelow

\* The pass owes the sample no longer, so the top rises with the number.
LEMMA PutSampleBelow ==
  ASSUME NumbersBelow, PassTyped, DOMAIN sample = Samples, NEW i \in Isolates, PutSample(i)
  PROVE  NumbersBelow'
<1>1. PICK s, n, left :
        /\ s = IF "shipped" \in seeding[i].left THEN "shipped" ELSE "paid"
        /\ n = FreeFrom(seeding[i].next, seeding[i].taken)
        /\ left = seeding[i].left \ {s}
        /\ sample' = [sample EXCEPT ![s] = n]
        /\ seeding' = [seeding EXCEPT ![i] =
             [seeding[i] EXCEPT !.left = left, !.taken = seeding[i].taken \cup {n}, !.next = n,
                                !.at = IF left = {} THEN "counter" ELSE "number"]]
        /\ seeding[i].at \in {"number", "put"}
        /\ UNCHANGED <<label, ordered, counter>>
  BY DEF PutSample, NextFor, Goes, At0
<1> DEFINE turn == [seeding[i] EXCEPT !.left = left, !.taken = seeding[i].taken \cup {n},
                                      !.next = n,
                                      !.at = IF left = {} THEN "counter" ELSE "number"]
<1>2. /\ turn.left = left /\ turn.read = seeding[i].read
      /\ turn.taken = seeding[i].taken \cup {n} /\ turn.next = n
      /\ turn.at = IF left = {} THEN "counter" ELSE "number"
  BY DEF PassTyped, PassFields
<1>3. seeding' = [seeding EXCEPT ![i] = turn]
  BY <1>1
<1> HIDE DEF turn
<1>4. seeding'[i] = turn /\ \A j \in Isolates \ {i} : seeding'[j] = seeding[j]
  BY <1>3 DEF PassTyped
<1>5. seeding[i].left \subseteq Samples /\ seeding[i].left # {}
  BY <1>1 DEF NumbersBelow, PassBelow
<1>6. s \in Samples /\ s \in seeding[i].left
  BY <1>1, <1>5, NumbersReach
<1>7. n \in 1 .. (Top + 1) /\ n # 0
  BY <1>1, NextFree, TopOf
<1>8. \A t \in Samples : sample'[t] = IF t = s THEN n ELSE sample[t]
  BY <1>1, <1>6
<1>9. i \in Owing(s) /\ i \notin Owing(s)'
  BY <1>1, <1>2, <1>4, <1>6, <1>7, <1>8 DEF Owing
<1>10. ASSUME NEW t \in Samples PROVE Owing(t)' \subseteq Owing(t)
  BY <1>1, <1>2, <1>4, <1>7, <1>8, <1>10 DEF Owing
<1>11. Cardinality(Owing(s)') + 1 <= Cardinality(Owing(s))
  <2>1. Owing(s)' \cup {i} \subseteq Owing(s)
    BY <1>6, <1>9, <1>10
  <2>2. Cardinality(Owing(s)' \cup {i}) = Cardinality(Owing(s)') + 1
    BY <1>9, OwingCounts, FS_AddElement
  <2>3. Cardinality(Owing(s)' \cup {i}) <= Cardinality(Owing(s))
    BY <2>1, OwingCounts, FS_Subset
  <2> QED BY <2>2, <2>3
<1>12. \A t \in Samples : Cardinality(Owing(t)') <= Cardinality(Owing(t))
  BY <1>10, OwingCounts, FS_Subset
<1>13. Top \in Nat /\ Top' \in Nat /\ Top' >= Top + 1 /\ Top' >= Top
  <2>1. Cardinality(ordered) \in Nat /\ ordered' = ordered
    BY <1>1, FS_CardinalityType DEF NumbersBelow
  <2>2. s = "shipped" \/ s = "paid"
    BY <1>6, NumbersReach
  <2>3. /\ Cardinality(Owing("shipped")') <= Cardinality(Owing("shipped"))
        /\ Cardinality(Owing("paid")') <= Cardinality(Owing("paid"))
    BY <1>12, NumbersReach
  <2>4. \A t \in Samples : t = s => Cardinality(Owing(t)') + 1 <= Cardinality(Owing(t))
    BY <1>11
  <2>5. \/ Cardinality(Owing("shipped")') + 1 <= Cardinality(Owing("shipped"))
        \/ Cardinality(Owing("paid")') + 1 <= Cardinality(Owing("paid"))
    BY <2>2, <2>4, NumbersReach
  <2>6. Cardinality(Owing("shipped")') + Cardinality(Owing("paid")') + 1
          <= Cardinality(Owing("shipped")) + Cardinality(Owing("paid"))
    BY <2>3, <2>5, OwingCounts, NumbersReach
  <2>7. Top \in Nat
    BY TopOf
  <2>8. Top' = 2 + Cardinality(ordered) + 2 * Cardinality(Isolates)
                 - Cardinality(Owing("shipped")') - Cardinality(Owing("paid")')
    BY <2>1 DEF Top
  <2>9. Top' >= Top + 1 /\ Top' \in Int
    <3>1. /\ Cardinality(ordered) \in Nat /\ Cardinality(Isolates) \in Nat
          /\ Cardinality(Owing("shipped")) \in Nat /\ Cardinality(Owing("paid")) \in Nat
          /\ Cardinality(Owing("shipped")') \in Nat /\ Cardinality(Owing("paid")') \in Nat
      BY <2>1, OwingCounts, NumbersReach
    <3>2. Top = 2 + Cardinality(ordered) + 2 * Cardinality(Isolates)
                  - Cardinality(Owing("shipped")) - Cardinality(Owing("paid"))
      BY DEF Top
    <3> QED BY <2>6, <2>8, <3>1, <3>2, OwedLess
  <2> QED BY <2>7, <2>9
<1>14. /\ 1 .. Top \subseteq 1 .. Top' /\ 0 .. Top \subseteq 0 .. Top'
       /\ 0 .. (Top + 1) \subseteq 0 .. (Top' + 1)
  BY <1>13, RangesGrow
<1>15. n \in 1 .. Top' /\ n \in 0 .. Top' /\ n \in 0 .. (Top' + 1)
  BY <1>7, <1>13, NumberFits
<1>16. ASSUME NEW j \in Isolates PROVE PassBelow(j)'
  <2>1. PassBelow(j)
    BY DEF NumbersBelow
  <2>2. CASE j = i
    BY <1>1, <1>2, <1>4, <1>5, <1>7, <1>14, <1>15, <2>1, <2>2 DEF PassBelow
  <2>3. CASE j # i
    BY <1>4, <1>14, <2>1, <2>3 DEF PassBelow
  <2> QED BY <2>2, <2>3
<1>17. ordered' \subseteq 1 .. Top' /\ counter' \in 0 .. (Top' + 1)
       /\ label' \in 0 .. (Top' + 1)
  BY <1>1, <1>14 DEF NumbersBelow
<1>18. \A t \in Samples : sample'[t] \in 0 .. Top'
  BY <1>8, <1>14, <1>15 DEF NumbersBelow
<1> QED BY <1>1, <1>16, <1>17, <1>18 DEF NumbersBelow

\* An order of the visitor raises the top by one.
LEMMA PlacesOrderBelow ==
  ASSUME NumbersBelow, PlacesOrder
  PROVE  NumbersBelow'
<1>1. PICK n : /\ n = FreeFrom(IF counter = 0 THEN First ELSE counter, Taken)
               /\ ordered' = ordered \cup {n} /\ counter' = n + 1
               /\ Cardinality(ordered) < MaxOrders
               /\ UNCHANGED <<seeding, sample, label>>
  BY DEF PlacesOrder, Taken
<1>2. n \in 1 .. (Top + 1) /\ n \notin Taken
  <2>1. (IF counter = 0 THEN First ELSE counter) \in 1 .. (Top + 1)
    BY TopOf DEF NumbersBelow, First
  <2> QED BY <1>1, <2>1, TopOf, TakenBelow, FreeBelow
<1>3. n \notin ordered
  BY <1>2, TopOf DEF Taken, InUse
<1>4. IsFiniteSet(ordered') /\ Cardinality(ordered') = Cardinality(ordered) + 1
  BY <1>1, <1>3, FS_AddElement DEF NumbersBelow
<1>5. Owing("shipped")' = Owing("shipped") /\ Owing("paid")' = Owing("paid")
  BY <1>1 DEF Owing
<1>6. Cardinality(ordered) \in Nat /\ Cardinality(ordered') <= MaxOrders
  BY <1>1, <1>4, FS_CardinalityType, NumbersReach DEF NumbersBelow
<1>7. Top \in Nat /\ Top' = Top + 1
  BY <1>4, <1>5, <1>6, TopOf, OwingCounts, NumbersReach DEF Top
<1>8. /\ 1 .. Top \subseteq 1 .. Top' /\ 0 .. Top \subseteq 0 .. Top'
      /\ 0 .. (Top + 1) \subseteq 0 .. (Top' + 1)
  BY <1>7, RangesGrow
<1>9. n \in 1 .. Top' /\ n + 1 \in 0 .. (Top' + 1)
  BY <1>2, <1>7
<1>10. \A j \in Isolates : PassBelow(j)'
  BY <1>1, <1>8 DEF NumbersBelow, PassBelow
<1>11. ordered' \subseteq 1 .. Top' /\ \A s \in Samples : sample'[s] \in 0 .. Top'
  BY <1>1, <1>8, <1>9 DEF NumbersBelow
<1>12. counter' \in 0 .. (Top' + 1) /\ label' \in 0 .. (Top' + 1)
  BY <1>1, <1>8, <1>9 DEF NumbersBelow
<1> QED BY <1>4, <1>6, <1>10, <1>11, <1>12 DEF NumbersBelow

-----------------------------------------------------------------------------
\* What else a pass and the store are made of.
SeedPoints == {"none", "merchant", "save", "list", "create", "options", "prices", "sale",
               "orders", "scan", "number", "put", "counter"}
QuietPoints == SeedPoints \ {"scan", "number", "put", "counter"}
Products == [made : BOOLEAN, sized : BOOLEAN, prices : {"none", "demo", "visitor"},
             onSale : BOOLEAN]

SeedKinds ==
  /\ seeded \subseteq Isolates /\ merchant \in {"nobody", "seed", "visitor"}
  /\ product \in [DemoProducts -> Products] /\ crossed \in BOOLEAN
  /\ \A i \in Isolates : seeding[i].at \in SeedPoints /\ seeding[i].todo \subseteq DemoProducts

\* Wherever a pass goes that is not at the orders, it keeps or drops what it knows.
QuietTurn(i, turn) ==
  /\ seeding' = [seeding EXCEPT ![i] = turn]
  /\ turn.at \in QuietPoints /\ turn.todo \subseteq DemoProducts
  /\ turn.left \in {{}, seeding[i].left} /\ turn.taken \in {{}, seeding[i].taken}
  /\ turn.next \in {0, seeding[i].next} /\ turn.read \in {0, seeding[i].read}

\* A pass that moves on takes up no sample.
LEMMA QuietGoesTo ==
  ASSUME PassTyped, SeedKinds, NEW i \in Isolates, NEW at \in QuietPoints, GoesTo(i, at)
  PROVE  \E turn : QuietTurn(i, turn)
<1> DEFINE turn == [seeding[i] EXCEPT !.at = at]
<1>1. seeding' = [seeding EXCEPT ![i] = turn]
  BY DEF GoesTo, Goes
<1>2. /\ turn.at = at /\ turn.todo = seeding[i].todo /\ turn.left = seeding[i].left
      /\ turn.taken = seeding[i].taken /\ turn.next = seeding[i].next
      /\ turn.read = seeding[i].read
  BY DEF PassTyped, PassFields
<1>3. turn.todo \subseteq DemoProducts
  BY <1>2 DEF SeedKinds
<1> HIDE DEF turn
<1> QED BY <1>1, <1>2, <1>3 DEF QuietTurn

\* Nor does one that ends.
LEMMA NoPassQuiet ==
  ASSUME NEW i \in Isolates, Goes(i, NoPass0)
  PROVE  \E turn : QuietTurn(i, turn)
<1>1. /\ NoPass0.at = "none" /\ NoPass0.todo = {} /\ NoPass0.left = {}
      /\ NoPass0.taken = {} /\ NoPass0.next = 0 /\ NoPass0.read = 0
  BY DEF NoPass0
<1>2. seeding' = [seeding EXCEPT ![i] = NoPass0] /\ "none" \in QuietPoints
  BY DEF Goes, QuietPoints, SeedPoints
<1> HIDE DEF NoPass0
<1>3. QuietTurn(i, NoPass0)
  BY <1>1, <1>2 DEF QuietTurn
<1> QED BY <1>3

\* Before the samples a pass takes up none.
LEMMA QuietTurns ==
  ASSUME PassTyped, SeedKinds, NEW i \in Isolates,
         Request(i) \/ CutShort(i) \/ ReadMerchant(i) \/ SaveMerchant(i)
           \/ ListProducts(i) \/ CreateDemo(i) \/ AddOptions(i) \/ SetPrices(i)
           \/ SetOnSale(i)
  PROVE  \E turn : QuietTurn(i, turn)
<1>1. {"none", "merchant", "save", "list", "create", "options", "prices", "sale", "orders"}
        \subseteq QuietPoints
  BY DEF QuietPoints, SeedPoints
<1>2. /\ DOMAIN seeding[i] = PassFields /\ seeding[i].todo \subseteq DemoProducts
  BY DEF PassTyped, SeedKinds
<1>3. CASE CutShort(i)
  BY <1>3, NoPassQuiet DEF CutShort
<1>4. CASE ListProducts(i)
  <2> DEFINE turn == [seeding[i] EXCEPT !.at = "create",
                                        !.todo = {p \in DemoProducts : ~product[p].made}]
  <2>1. seeding' = [seeding EXCEPT ![i] = turn]
    BY <1>4 DEF ListProducts, Goes
  <2>2. /\ turn.at = "create" /\ turn.todo \subseteq DemoProducts
        /\ turn.left = seeding[i].left /\ turn.taken = seeding[i].taken
        /\ turn.next = seeding[i].next /\ turn.read = seeding[i].read
    BY <1>2 DEF PassFields
  <2> HIDE DEF turn
  <2>3. QuietTurn(i, turn)
    BY <1>1, <2>1, <2>2 DEF QuietTurn
  <2> QED BY <2>3
<1>5. ASSUME NEW p, Goes(i, [seeding[i] EXCEPT !.at = "options", !.on = p,
                                               !.todo = seeding[i].todo \ {p}])
      PROVE  \E turn : QuietTurn(i, turn)
  <2> DEFINE turn == [seeding[i] EXCEPT !.at = "options", !.on = p,
                                        !.todo = seeding[i].todo \ {p}]
  <2>1. seeding' = [seeding EXCEPT ![i] = turn]
    BY <1>5 DEF Goes
  <2>2. /\ turn.at = "options" /\ turn.todo \subseteq DemoProducts
        /\ turn.left = seeding[i].left /\ turn.taken = seeding[i].taken
        /\ turn.next = seeding[i].next /\ turn.read = seeding[i].read
    BY <1>2 DEF PassFields
  <2> HIDE DEF turn
  <2>3. QuietTurn(i, turn)
    BY <1>1, <2>1, <2>2 DEF QuietTurn
  <2> QED BY <2>3
<1>6. CASE SetOnSale(i)
  <2> DEFINE turn == [seeding[i] EXCEPT !.at = "create", !.on = "none"]
  <2>1. seeding' = [seeding EXCEPT ![i] = turn]
    BY <1>6 DEF SetOnSale, Goes
  <2>2. /\ turn.at = "create" /\ turn.todo \subseteq DemoProducts
        /\ turn.left = seeding[i].left /\ turn.taken = seeding[i].taken
        /\ turn.next = seeding[i].next /\ turn.read = seeding[i].read
    BY <1>2 DEF PassFields
  <2> HIDE DEF turn
  <2>3. QuietTurn(i, turn)
    BY <1>1, <2>1, <2>2 DEF QuietTurn
  <2> QED BY <2>3
<1>7. CASE CreateDemo(i)
  <2>1. GoesTo(i, "orders")
        \/ \E p \in seeding[i].todo :
             Goes(i, [seeding[i] EXCEPT !.at = "options", !.on = p,
                                        !.todo = seeding[i].todo \ {p}])
    BY <1>7 DEF CreateDemo
  <2> QED BY <1>1, <1>5, <2>1, QuietGoesTo
<1>8. CASE Request(i) \/ ReadMerchant(i) \/ SaveMerchant(i) \/ AddOptions(i) \/ SetPrices(i)
  <2>1. PICK at \in {"merchant", "save", "list", "prices", "sale"} : GoesTo(i, at)
    BY <1>8 DEF Request, ReadMerchant, SaveMerchant, AddOptions, SetPrices
  <2> QED BY <1>1, <2>1, QuietGoesTo
<1> QED BY <1>3, <1>4, <1>6, <1>7, <1>8

\* The steps of a pass keep its stage and its products, and the store's.
LEMMA TurnKinds ==
  ASSUME PassTyped, SeedKinds, NEW i \in Isolates, NEW turn,
         seeding' = [seeding EXCEPT ![i] = turn],
         turn.at \in SeedPoints, turn.todo \subseteq DemoProducts,
         seeded' \subseteq Isolates, merchant' \in {"nobody", "seed", "visitor"},
         product' \in [DemoProducts -> Products], crossed' \in BOOLEAN
  PROVE  SeedKinds'
<1>1. seeding'[i] = turn /\ \A j \in Isolates \ {i} : seeding'[j] = seeding[j]
  BY DEF PassTyped
<1>2. ASSUME NEW j \in Isolates
      PROVE  seeding'[j].at \in SeedPoints /\ seeding'[j].todo \subseteq DemoProducts
  BY <1>1 DEF SeedKinds
<1> QED BY <1>2 DEF SeedKinds

\* A product that is made, sold or priced has its type.
LEMMA ProductKinds ==
  ASSUME SeedKinds, NEW p
  PROVE  /\ [product EXCEPT ![p].made = TRUE] \in [DemoProducts -> Products]
         /\ [product EXCEPT ![p].sized = TRUE] \in [DemoProducts -> Products]
         /\ [product EXCEPT ![p].onSale = TRUE] \in [DemoProducts -> Products]
         /\ [product EXCEPT ![p].prices = "demo"] \in [DemoProducts -> Products]
         /\ [product EXCEPT ![p].prices = "visitor"] \in [DemoProducts -> Products]
<1>1. product \in [DemoProducts -> Products]
  BY DEF SeedKinds
<1>2. ASSUME NEW q \in Products
      PROVE  /\ [q EXCEPT !.made = TRUE] \in Products /\ [q EXCEPT !.onSale = TRUE] \in Products
             /\ [q EXCEPT !.sized = TRUE] \in Products
             /\ [q EXCEPT !.prices = "demo"] \in Products
             /\ [q EXCEPT !.prices = "visitor"] \in Products
  BY <1>2 DEF Products
<1>3. CASE p \in DemoProducts
  <2>1. product[p] \in Products
    BY <1>1, <1>3
  <2> QED BY <1>1, <1>2, <2>1
<1>4. CASE p \notin DemoProducts
  BY <1>1, <1>4
<1> QED BY <1>3, <1>4

\* A pass leaves settings, products and prices in their types.
LEMMA QuietKinds ==
  ASSUME PassTyped, SeedKinds, NEW i \in Isolates,
         Request(i) \/ CutShort(i) \/ ReadMerchant(i) \/ SaveMerchant(i)
           \/ ListProducts(i) \/ CreateDemo(i) \/ AddOptions(i) \/ SetPrices(i)
           \/ SetOnSale(i)
  PROVE  SeedKinds'
<1>1. PICK turn : QuietTurn(i, turn)
  BY QuietTurns
<1>2. seeded' \subseteq Isolates
  BY DEF SeedKinds, Request, CutShort, ReadMerchant, SaveMerchant, ListProducts,
         CreateDemo, AddOptions, SetPrices, SetOnSale
<1>3. merchant' \in {"nobody", "seed", "visitor"}
  BY DEF SeedKinds, Request, CutShort, ReadMerchant, SaveMerchant, ListProducts,
         CreateDemo, AddOptions, SetPrices, SetOnSale
<1>4. product' \in [DemoProducts -> Products]
  <2>1. \/ product' = product
        \/ \E p : \/ product' = [product EXCEPT ![p].made = TRUE]
                  \/ product' = [product EXCEPT ![p].sized = TRUE]
                  \/ product' = [product EXCEPT ![p].prices = "demo"]
                  \/ product' = [product EXCEPT ![p].onSale = TRUE]
    BY DEF Request, CutShort, ReadMerchant, SaveMerchant, ListProducts, CreateDemo,
           AddOptions, SetPrices, SetOnSale
  <2>2. CASE product' = product
    BY <2>2 DEF SeedKinds
  <2>3. ASSUME NEW p, \/ product' = [product EXCEPT ![p].made = TRUE]
                      \/ product' = [product EXCEPT ![p].sized = TRUE]
                      \/ product' = [product EXCEPT ![p].prices = "demo"]
                      \/ product' = [product EXCEPT ![p].onSale = TRUE]
        PROVE  product' \in [DemoProducts -> Products]
    <3>1. /\ [product EXCEPT ![p].made = TRUE] \in [DemoProducts -> Products]
          /\ [product EXCEPT ![p].sized = TRUE] \in [DemoProducts -> Products]
          /\ [product EXCEPT ![p].prices = "demo"] \in [DemoProducts -> Products]
          /\ [product EXCEPT ![p].onSale = TRUE] \in [DemoProducts -> Products]
      BY ProductKinds
    <3> QED BY <2>3, <3>1
  <2> QED BY <2>1, <2>2, <2>3
<1>5. crossed' \in BOOLEAN
  BY DEF SeedKinds, Request, CutShort, ReadMerchant, SaveMerchant, ListProducts,
         CreateDemo, AddOptions, SetPrices, SetOnSale
<1>6. turn.at \in SeedPoints
  BY <1>1 DEF QuietTurn, QuietPoints
<1> QED BY <1>1, <1>2, <1>3, <1>4, <1>5, <1>6, TurnKinds DEF QuietTurn

\* So it does while it numbers samples.
LEMMA OrderTurnKinds ==
  ASSUME PassTyped, SeedKinds, NEW i \in Isolates,
         ReadSamples(i) \/ ScanNumbers(i) \/ PutLabel(i) \/ PutSample(i)
               \/ PutCounter(i)
  PROVE  SeedKinds'
<1>1. PICK turn : /\ seeding' = [seeding EXCEPT ![i] = turn]
                  /\ turn.at \in SeedPoints /\ turn.todo \in {{}, seeding[i].todo}
  <2>1. NoPass0.at \in SeedPoints /\ NoPass0.todo = {}
    BY DEF NoPass0, SeedPoints
  <2>2. {"scan", "number", "put", "counter"} \subseteq SeedPoints
    BY DEF SeedPoints
  <2>3. CASE ReadSamples(i)
    <3> DEFINE missing == Missing
               turn == IF missing = {} THEN NoPass0
                       ELSE [seeding[i] EXCEPT !.at = "scan", !.left = missing]
    <3>1. seeding' = [seeding EXCEPT ![i] = turn]
      BY <2>3 DEF ReadSamples, Goes
    <3>2. turn.at \in SeedPoints /\ turn.todo \in {{}, seeding[i].todo}
      BY <2>1, <2>2 DEF PassTyped, PassFields
    <3> HIDE DEF turn
    <3> QED BY <3>1, <3>2
  <2>4. CASE ScanNumbers(i)
    <3> DEFINE turn == [seeding[i] EXCEPT !.at = "number", !.taken = Taken,
                                          !.read = counter,
                                          !.next = IF counter = 0 THEN First ELSE counter]
    <3>1. seeding' = [seeding EXCEPT ![i] = turn]
      BY <2>4 DEF ScanNumbers, Goes
    <3>2. turn.at \in SeedPoints /\ turn.todo = seeding[i].todo
      BY <2>2 DEF PassTyped, PassFields
    <3> HIDE DEF turn
    <3> QED BY <3>1, <3>2
  <2>5. CASE PutSample(i)
    <3>1. PICK s, n, left :
            /\ left = seeding[i].left \ {s}
            /\ seeding' = [seeding EXCEPT ![i] =
                 [seeding[i] EXCEPT !.left = left, !.taken = seeding[i].taken \cup {n},
                                    !.next = n,
                                    !.at = IF left = {} THEN "counter" ELSE "number"]]
      BY <2>5 DEF PutSample, Goes
    <3> DEFINE turn == [seeding[i] EXCEPT !.left = left, !.taken = seeding[i].taken \cup {n},
                                          !.next = n,
                                          !.at = IF left = {} THEN "counter" ELSE "number"]
    <3>2. seeding' = [seeding EXCEPT ![i] = turn]
      BY <3>1
    <3>3. turn.at \in SeedPoints /\ turn.todo = seeding[i].todo
      BY <2>2 DEF PassTyped, PassFields
    <3> HIDE DEF turn
    <3> QED BY <3>2, <3>3
  <2>7. CASE PutLabel(i)
    <3> DEFINE turn == [seeding[i] EXCEPT !.at = "put"]
    <3>1. seeding' = [seeding EXCEPT ![i] = turn]
      BY <2>7 DEF PutLabel, GoesTo, Goes
    <3>2. turn.at \in SeedPoints /\ turn.todo = seeding[i].todo
      BY <2>2 DEF PassTyped, PassFields
    <3> HIDE DEF turn
    <3> QED BY <3>1, <3>2
  <2>6. CASE PutCounter(i)
    <3>1. seeding' = [seeding EXCEPT ![i] = NoPass0]
      BY <2>6 DEF PutCounter, Goes
    <3> HIDE DEF NoPass0
    <3> QED BY <2>1, <3>1
  <2> QED BY <2>3, <2>4, <2>5, <2>6, <2>7
<1>2. turn.todo \subseteq DemoProducts
  BY <1>1 DEF SeedKinds
<1>3. /\ seeded' \subseteq Isolates /\ merchant' \in {"nobody", "seed", "visitor"}
      /\ product' \in [DemoProducts -> Products] /\ crossed' \in BOOLEAN
  BY DEF SeedKinds, ReadSamples, ScanNumbers, PutLabel, PutSample, PutCounter
<1> QED BY <1>1, <1>2, <1>3, TurnKinds

\* Settings and products begin in their types.
LEMMA KindsBegin == ASSUME SeedInit PROVE SeedKinds
<1>1. NoPass0.at \in SeedPoints /\ NoPass0.todo = {}
  BY DEF NoPass0, SeedPoints
<1>2. \A i \in Isolates : seeding[i] = NoPass0
  BY DEF SeedInit
<1>3. product \in [DemoProducts -> Products]
  BY DEF SeedInit, Products
<1>4. seeded \subseteq Isolates /\ merchant = "nobody" /\ crossed = FALSE
  BY DEF SeedInit
<1> QED BY <1>1, <1>2, <1>3, <1>4 DEF SeedKinds

\* Every step keeps them there.
LEMMA KindsGoOn == ASSUME PassTyped, SeedKinds, [SeedNext]_seedVars PROVE SeedKinds'
<1>1. ASSUME NEW i \in Isolates,
             Request(i) \/ CutShort(i) \/ ReadMerchant(i) \/ SaveMerchant(i)
               \/ ListProducts(i) \/ CreateDemo(i) \/ AddOptions(i) \/ SetPrices(i)
           \/ SetOnSale(i)
      PROVE  SeedKinds'
  BY <1>1, QuietKinds
<1>2. ASSUME NEW i \in Isolates,
             ReadSamples(i) \/ ScanNumbers(i) \/ PutLabel(i) \/ PutSample(i)
               \/ PutCounter(i)
      PROVE  SeedKinds'
  BY <1>2, OrderTurnKinds
<1>3. CASE SavesSettings
  BY <1>3 DEF SavesSettings, SeedKinds
<1>4. ASSUME NEW p, EditsPrices(p) PROVE SeedKinds'
  BY <1>4, ProductKinds DEF EditsPrices, SeedKinds
<1>5. CASE PlacesOrder
  BY <1>5 DEF PlacesOrder, SeedKinds
<1>6. CASE UNCHANGED seedVars
  BY <1>6 DEF seedVars, SeedKinds
<1> QED BY <1>1, <1>2, <1>3, <1>4, <1>5, <1>6 DEF SeedNext

-----------------------------------------------------------------------------
\* The numbers in use begin below the top.
LEMMA BelowBegins == ASSUME SeedInit PROVE NumbersBelow
<1>1. /\ \A s \in Samples : sample[s] = 0
      /\ \A i \in Isolates : seeding[i] = NoPass0
      /\ ordered = {} /\ counter = 0 /\ label = 0
  BY DEF SeedInit
<1>2. IsFiniteSet(ordered) /\ Cardinality(ordered) = 0 /\ Cardinality(ordered) <= MaxOrders
  BY <1>1, FS_EmptySet, NumbersReach
<1>3. Top \in Nat /\ Top >= 2
  BY <1>2, TopBounded
<1>4. ASSUME NEW i \in Isolates PROVE PassBelow(i)
  BY <1>1, <1>3 DEF PassBelow, NoPass0
<1> QED BY <1>1, <1>2, <1>3, <1>4 DEF NumbersBelow

\* What leaves orders, samples and passes alone leaves the top.
LEMMA BelowSame ==
  ASSUME NumbersBelow, UNCHANGED <<seeding, sample, label, ordered, counter>>
  PROVE  NumbersBelow'
<1>1. Owing("shipped")' = Owing("shipped") /\ Owing("paid")' = Owing("paid")
  BY DEF Owing
<1>2. Top' = Top
  BY <1>1 DEF Top
<1> QED BY <1>2 DEF NumbersBelow, PassBelow

\* Every step keeps the numbers below the top.
LEMMA BelowGoesOn ==
  ASSUME NumbersInv, SeedKinds, NumbersBelow, [SeedNext]_seedVars PROVE NumbersBelow'
<1>1. PassTyped /\ DOMAIN sample = Samples
  BY DEF NumbersInv
<1>2. ASSUME NEW i \in Isolates,
             Request(i) \/ CutShort(i) \/ ReadMerchant(i) \/ SaveMerchant(i)
               \/ ListProducts(i) \/ CreateDemo(i) \/ AddOptions(i) \/ SetPrices(i)
           \/ SetOnSale(i)
      PROVE  NumbersBelow'
  <2>1. PICK turn : QuietTurn(i, turn)
    BY <1>1, <1>2, QuietTurns
  <2>2. UNCHANGED <<sample, label, ordered, counter>>
    BY <1>2 DEF Request, CutShort, ReadMerchant, SaveMerchant, ListProducts, CreateDemo,
                AddOptions, SetPrices, SetOnSale
  <2>3. PassBelow(i) /\ counter \in 0 .. (Top + 1) /\ label \in 0 .. (Top + 1)
    BY DEF NumbersBelow
  <2>4. 0 \in 0 .. (Top + 1) /\ {} \subseteq 1 .. Top
    BY TopOf
  <2>5. /\ seeding' = [seeding EXCEPT ![i] = turn]
        /\ turn.left \subseteq seeding[i].left
        /\ turn.taken \subseteq 1 .. Top /\ turn.next \in 0 .. (Top + 1)
        /\ turn.read \in 0 .. (Top + 1)
    BY <2>1, <2>3, <2>4 DEF QuietTurn, PassBelow
  <2>6. turn.at \notin {"scan", "number", "put", "counter"}
    BY <2>1 DEF QuietTurn, QuietPoints
  <2> QED BY <1>1, <2>2, <2>3, <2>5, <2>6, PassBelowKeeps
<1>3. ASSUME NEW i \in Isolates,
             ReadSamples(i) \/ ScanNumbers(i) \/ PutLabel(i) \/ PutSample(i)
               \/ PutCounter(i)
      PROVE  NumbersBelow'
  BY <1>1, <1>3, ReadSamplesBelow, ScanBelow, PutLabelBelow, PutSampleBelow,
     PutCounterBelow
<1>4. CASE SavesSettings \/ \E p \in DemoProducts : EditsPrices(p)
  BY <1>4, BelowSame DEF SavesSettings, EditsPrices
<1>5. CASE PlacesOrder
  BY <1>5, PlacesOrderBelow
<1>6. CASE UNCHANGED seedVars
  BY <1>6, BelowSame DEF seedVars
<1> QED BY <1>2, <1>3, <1>4, <1>5, <1>6 DEF SeedNext

\* What they come to is the type invariant of the seed.
LEMMA SeedTypes == ASSUME SeedKinds, NumbersBelow PROVE SeedTypeOK
<1>1. Top \in Nat /\ Top + 1 \in Numbers
  BY TopOf
<1>2. 1 .. Top \subseteq Numbers /\ 0 .. Top \subseteq Numbers \cup {0}
      /\ 0 .. (Top + 1) \subseteq Numbers \cup {0}
  BY <1>1, NumbersReach
<1>3. \A i \in Isolates :
        /\ seeding[i].at \in SeedPoints /\ seeding[i].todo \subseteq DemoProducts
        /\ seeding[i].left \subseteq Samples /\ seeding[i].taken \subseteq Numbers
        /\ seeding[i].next \in Numbers \cup {0} /\ seeding[i].read \in Numbers \cup {0}
  BY <1>2 DEF SeedKinds, NumbersBelow, PassBelow
<1>4. \A p \in DemoProducts : /\ product[p].made \in BOOLEAN /\ product[p].sized \in BOOLEAN
                               /\ product[p].onSale \in BOOLEAN
                               /\ product[p].prices \in {"none", "demo", "visitor"}
  BY DEF SeedKinds, Products
<1>5. /\ \A s \in Samples : sample[s] \in Numbers \cup {0}
      /\ ordered \subseteq Numbers /\ counter \in Numbers \cup {0}
      /\ label \in Numbers \cup {0}
  BY <1>2 DEF NumbersBelow
<1> QED BY <1>3, <1>4, <1>5 DEF SeedTypeOK, SeedKinds, SeedPoints

-----------------------------------------------------------------------------
(***************************************************************************)
(* The parts together, as MCShopperServices puts them side by side: a step *)
(* of one leaves the others alone, so the parts' invariants hold at once.  *)
(***************************************************************************)
PartsInv ==
  /\ AccountInv /\ PricesInv /\ CartsFit /\ RelayInv /\ PayInv /\ PayBounded
  /\ NumbersInv /\ SeedKinds /\ NumbersBelow /\ TourInv /\ focus \in Parts

\* Each part begins in its invariant.
LEMMA PartsBegin == ServicesInit => PartsInv
BY AccountsBegin, PricesBegin, CartsFitAtFirst, RelayBegins, PayBegins, PayBoundedAtFirst,
   SeedBegins, KindsBegin, BelowBegins, TourBegins
   DEF ServicesInit, PartsInv

\* A step of the part in focus keeps its invariant, and the others stay.
LEMMA PartsGoOn ==
  PartsInv /\ [ServicesNext]_<<focus, accountVars, priceVars, relayVars,
                              payVars, seedVars, tourVars>> => PartsInv'
<1> SUFFICES ASSUME PartsInv,
                    [ServicesNext]_<<focus, accountVars, priceVars, relayVars,
                                     payVars, seedVars, tourVars>>
             PROVE  PartsInv'
  OBVIOUS
<1>1. /\ [AccountNext]_accountVars /\ [PricesNext]_priceVars /\ [RelayNext]_relayVars
      /\ [PayNext]_payVars /\ [SeedNext]_seedVars /\ [TourNext]_tourVars
  BY DEF ServicesNext
<1>2. AccountInv' /\ RelayInv' /\ TourInv'
  BY <1>1, AccountsGoOn, RelayGoesOn, TourGoesOn DEF PartsInv
<1>3. PricesInv' /\ CartsFit'
  BY <1>1, PricesGoOn, CartsStayFit DEF PartsInv
<1>4. PayInv' /\ PayBounded'
  BY <1>1, PayGoesOn, PayStaysBounded DEF PartsInv
<1>5. NumbersInv' /\ SeedKinds' /\ NumbersBelow'
  <2>1. PassTyped
    BY DEF PartsInv, NumbersInv
  <2> QED BY <1>1, <2>1, SeedGoesOn, KindsGoOn, BelowGoesOn DEF PartsInv
<1>6. focus' \in Parts
  BY DEF PartsInv, ServicesNext
<1> QED BY <1>2, <1>3, <1>4, <1>5, <1>6 DEF PartsInv

\* Every part keeps to its types, whatever the sizes and the bounds: among them
\* carts stay within the limits of lines and quantities (intent.ts) and the
\* seeding never needs an order number past those it may take (demo-orders).
THEOREM ShopperServicesTyped == ServicesSpec => []ServicesTypeOK
<1>1. PartsInv => ServicesTypeOK
  <2> SUFFICES ASSUME PartsInv PROVE ServicesTypeOK
    OBVIOUS
  <2>1. AccountTypeOK /\ RelayTypeOK /\ TourTypeOK
    BY RelayTypes, TourTypes DEF PartsInv, AccountInv
  <2>2. PricesTypeOK /\ PayTypeOK /\ SeedTypeOK
    BY PricesTypes, PayTypes, SeedTypes DEF PartsInv
  <2>3. focus \in Parts
    BY DEF PartsInv
  <2> QED BY <2>1, <2>2, <2>3 DEF ServicesTypeOK, Parts
<1> QED BY <1>1, PartsBegin, PartsGoOn, PTL DEF ServicesSpec
================================================================================
