---------------------------- MODULE ShopperAccounts ----------------------------
(***************************************************************************)
(* Shopper accounts of the playground: the account page                    *)
(* (features/shopper-account/shopper-account-client.ts) in tabs that share *)
(* one browser storage, the store's account routes (middleware.ts,         *)
(* pages/api/account/demo-session.ts) and the demonstration session        *)
(* (playground-runtime.ts).  Commerce's sign-in is external: a code per    *)
(* email, a session per verified code, kept under the session's identity.  *)
(* An operation is what one click or page load sets going in a tab.        *)
(*                                                                         *)
(* Left out: the demonstration's one order, made if it is missing, and how *)
(* orders are shown.                                                       *)
(***************************************************************************)
EXTENDS Naturals

CONSTANTS
  Clicks,         \* operations in flight at once, of any tab
  MaxSessions,    \* bound: sessions Commerce makes
  MaxCodes,       \* bound: codes Commerce sends
  AccountFaults   \* out of "lost", "noEmail", "unrecorded", "unrevoked",
                  \* "expires"

VARIABLES
  codes,          \* Commerce: per email, the code it waits for; 0: none
  sent,           \* codes sent so far
  sessions,       \* Commerce: per session, whose it is and whether it is live
  minted,         \* sessions made so far
  leads,          \* emails recorded as opted in
  stored,         \* the browser's stored session; 0: none
  clicks,         \* per operation: what it is and the await it is at
  accountLog      \* history: sessions left neither recorded nor revoked

accountVars ==
  <<codes, sent, sessions, minted, leads, stored, clicks, accountLog>>

Emails == {"shopper", "demo"}
Tokens == 1 .. MaxSessions
NoClick == [kind |-> "none", at |-> "idle", token |-> 0, code |-> 0]
Kinds == {"none", "load", "start", "verify", "demo", "profile", "signOut"}
ClickStages == {"idle", "start", "verify", "record", "revoke", "clearCode",
                "clearSession", "demoStart", "demoVerify", "orders", "save",
                "profile", "signOut"}

ASSUME AccountAssumption ==
  /\ MaxSessions \in Nat /\ MaxCodes \in Nat
  /\ AccountFaults \subseteq
       {"lost", "noEmail", "unrecorded", "unrevoked", "expires"}

AccountTypeOK ==
  /\ codes \in [Emails -> 0 .. MaxCodes] /\ sent \in 0 .. MaxCodes
  /\ sessions \in [Tokens -> [email : Emails \cup {"none"}, live : BOOLEAN,
                              expired : BOOLEAN]]
  /\ minted \in 0 .. MaxSessions
  /\ leads \subseteq Emails \ {"demo"}
  /\ stored \in Tokens \cup {0}
  /\ clicks \in [Clicks -> [kind : Kinds, at : ClickStages,
                            token : Tokens \cup {0}, code : 0 .. MaxCodes]]
  /\ accountLog \subseteq Tokens

AccountInit ==
  /\ codes = [e \in Emails |-> 0] /\ sent = 0
  /\ sessions = [t \in Tokens |->
                   [email |-> "none", live |-> FALSE, expired |-> FALSE]]
  /\ minted = 0 /\ leads = {} /\ stored = 0
  /\ clicks = [c \in Clicks |-> NoClick]
  /\ accountLog = {}
-----------------------------------------------------------------------------
commerce == <<codes, sent, sessions, minted>>
Becomes(c, next) == clicks' = [clicks EXCEPT ![c] = next]
ClickGoes(c, stage) == Becomes(c, [clicks[c] EXCEPT !.at = stage])
ClickEnds(c) == Becomes(c, NoClick)
At(c, stage) == clicks[c].at = stage
LiveSession(t) == t # 0 /\ sessions[t].live
Kills(ts) == [t \in Tokens |-> [sessions[t] EXCEPT !.live = @ /\ t \notin ts]]
DemoSessions == {t \in Tokens : sessions[t].email = "demo"}

\* readStoredShopperSession: an expired session is cleared and not found.
StoredSession == IF stored # 0 /\ sessions[stored].expired THEN 0 ELSE stored

Begins(c, kind, stage, token, code) ==
  Becomes(c, [kind |-> kind, at |-> stage, token |-> token, code |-> code])

\* A page load and a profile change go on only with a session that is stored.
LoadPage(c) == StoredSession # 0 /\ Begins(c, "load", "orders", StoredSession, 0)
ClickSave(c) == StoredSession # 0 /\ Begins(c, "profile", "profile", StoredSession, 0)
ClickClear(c) == StoredSession # 0 /\ Begins(c, "profile", "profile", StoredSession, 0)

\* The sign-in form sends an email, and then the code of the last mail.
ClickStart(c) == Begins(c, "start", "start", 0, 0)
ClickVerify(c) ==
  codes["shopper"] # 0 /\ Begins(c, "verify", "verify", 0, codes["shopper"])

ClickDemo(c) == Begins(c, "demo", "clearCode", 0, 0)

\* Without a session a sign-out only clears.
ClickSignOut(c) == StoredSession # 0 /\ Begins(c, "signOut", "signOut", StoredSession, 0)

ClickOn(c) ==
  /\ At(c, "idle")
  /\ stored' = StoredSession
  /\ \/ LoadPage(c) \/ ClickSave(c) \/ ClickClear(c) \/ ClickStart(c)
     \/ ClickVerify(c) \/ ClickDemo(c) \/ ClickSignOut(c)
  /\ UNCHANGED <<commerce, leads, accountLog>>

\* The store refuses before it asks Commerce: no dispatcher, a wrong method, a
\* body that is too large or no object, no opt-in, nowhere to record it, or too
\* many requests.
Refused(c) ==
  /\ clicks[c].at \in {"start", "verify", "orders", "profile"}
  /\ ClickEnds(c)
  /\ UNCHANGED <<commerce, leads, stored, accountLog>>

\* The demonstration is refused on another origin or past the limiter.
DemoRefused(c) ==
  /\ At(c, "clearCode")
  /\ ClickEnds(c)
  /\ UNCHANGED <<commerce, leads, stored, accountLog>>

\* A request or its answer is lost, or the isolate drops it, also one that has
\* a session to record or to revoke.
LostAnswer(c) ==
  /\ "lost" \in AccountFaults
  /\ clicks[c].at \notin {"idle", "signOut"}
  /\ ClickEnds(c)
  /\ accountLog' = IF clicks[c].at \in {"record", "revoke"}
                   THEN accountLog \cup {clicks[c].token} ELSE accountLog
  /\ UNCHANGED <<commerce, leads, stored>>

SendsCode(email) ==
  /\ sent < MaxCodes
  /\ sent' = sent + 1
  /\ codes' = [codes EXCEPT ![email] = sent + 1]

\* sign-in/start, opted in.
StartSignIn(c) ==
  /\ At(c, "start")
  /\ SendsCode("shopper")
  /\ ClickEnds(c)
  /\ UNCHANGED <<sessions, minted, leads, stored, accountLog>>

\* Commerce makes a session for the code it waits for, and only once.  A
\* session under the demonstration's fixed identity replaces the last one.
Verified(email) ==
  /\ minted < MaxSessions
  /\ minted' = minted + 1
  /\ codes' = [codes EXCEPT ![email] = 0]
  /\ sessions' =
       [Kills(IF email = "demo" THEN DemoSessions ELSE {}) EXCEPT
          ![minted + 1] = [email |-> email, live |-> TRUE, expired |-> FALSE]]
  /\ UNCHANGED sent

\* Mutant: the shopper is answered before the lead is recorded.
VerifyAnswered(c) ==
  /\ At(c, "verify")
  /\ \/ /\ codes["shopper"] \in {clicks[c].code} \ {0}
        /\ Verified("shopper")
        /\ Becomes(c, [clicks[c] EXCEPT !.at = "orders", !.token = minted + 1])
     \/ ClickEnds(c) /\ UNCHANGED commerce
  /\ UNCHANGED <<leads, stored, accountLog>>

\* sign-in/verify, opted in: a refusal in Commerce's envelope goes back as it
\* is and records no lead; a profile without an email is refused, and the
\* session Commerce made for it is not revoked.
VerifySignIn(c) ==
  /\ At(c, "verify")
  /\ \/ /\ codes["shopper"] \in {clicks[c].code} \ {0}
        /\ Verified("shopper")
        /\ \/ /\ Becomes(c, [clicks[c] EXCEPT !.at = "record", !.token = minted + 1])
              /\ UNCHANGED accountLog
           \/ /\ "noEmail" \in AccountFaults
              /\ ClickEnds(c) /\ accountLog' = accountLog \cup {minted + 1}
     \/ ClickEnds(c) /\ UNCHANGED <<commerce, accountLog>>
  /\ UNCHANGED <<leads, stored>>

\* recordVerifiedPlaygroundLead: kept once per email, or it throws.
RecordLead(c) ==
  /\ At(c, "record")
  /\ \/ leads' = leads \cup {"shopper"} /\ ClickGoes(c, "orders")
     \/ /\ "unrecorded" \in AccountFaults
        /\ ClickGoes(c, "revoke") /\ UNCHANGED leads
  /\ UNCHANGED <<commerce, stored, accountLog>>

\* revokeShopperSessionById; a revocation that fails is not heard of.
Revoke(c) ==
  /\ At(c, "revoke")
  /\ \/ sessions' = Kills({clicks[c].token}) /\ UNCHANGED accountLog
     \/ /\ "unrevoked" \in AccountFaults
        /\ accountLog' = accountLog \cup {clicks[c].token} /\ UNCHANGED sessions
  /\ ClickEnds(c)
  /\ UNCHANGED <<codes, sent, minted, leads, stored>>
-----------------------------------------------------------------------------
(***************************************************************************)
(* mintDemoShopperSession: the last code and session are deleted, a code is*)
(* asked for and captured, and verified.  Mints of two visitors overlap.   *)
(***************************************************************************)
ClearCode(c) ==
  /\ At(c, "clearCode") /\ ClickGoes(c, "clearSession")
  /\ codes' = [codes EXCEPT !["demo"] = 0]
  /\ UNCHANGED <<sent, sessions, minted, leads, stored, accountLog>>

ClearSession(c) ==
  /\ At(c, "clearSession") /\ ClickGoes(c, "demoStart")
  /\ sessions' = Kills(DemoSessions)
  /\ UNCHANGED <<codes, sent, minted, leads, stored, accountLog>>

StartDemo(c) ==
  /\ At(c, "demoStart")
  /\ SendsCode("demo")
  /\ Becomes(c, [clicks[c] EXCEPT !.at = "demoVerify", !.code = sent + 1])
  /\ UNCHANGED <<sessions, minted, leads, stored, accountLog>>

\* A mint whose code another one replaced throws, and is answered 503.
VerifyDemo(c) ==
  /\ At(c, "demoVerify")
  /\ IF clicks[c].code = codes["demo"]
     THEN /\ Verified("demo")
          /\ Becomes(c, [clicks[c] EXCEPT !.at = "orders", !.token = minted + 1])
     ELSE ClickEnds(c) /\ UNCHANGED commerce
  /\ UNCHANGED <<leads, stored, accountLog>>
-----------------------------------------------------------------------------
\* Mutant: a denial clears whatever is stored.
DeniedAny(c) == stored' = 0

\* recoverDeniedSession: a late denial leaves a session that is newer.
Denied(c) == stored' = IF StoredSession = clicks[c].token THEN 0 ELSE StoredSession

\* loadSignedInDashboard: the orders of a live session, a denial, or an error.
\* A session that was just made is stored once they are loaded.
LoadOrders(c) ==
  /\ At(c, "orders")
  /\ IF LiveSession(clicks[c].token)
     THEN /\ IF clicks[c].kind = "load" THEN ClickEnds(c) ELSE ClickGoes(c, "save")
          /\ UNCHANGED stored
     ELSE Denied(c) /\ ClickEnds(c)
  /\ UNCHANGED <<commerce, leads, accountLog>>

SaveSession(c) ==
  /\ At(c, "save")
  /\ stored' = clicks[c].token
  /\ ClickEnds(c)
  /\ UNCHANGED <<commerce, leads, accountLog>>

\* The profile is saved or cleared; only a denial matters to the session.
ChangeProfile(c) ==
  /\ At(c, "profile")
  /\ IF LiveSession(clicks[c].token) THEN UNCHANGED stored ELSE Denied(c)
  /\ ClickEnds(c)
  /\ UNCHANGED <<commerce, leads, accountLog>>

\* Sign-out: Commerce ends the session, or does not hear of it; then the page
\* clears what is stored by now.
SignOut(c) ==
  /\ At(c, "signOut")
  /\ sessions' \in {Kills({clicks[c].token})}
                     \cup (IF "lost" \in AccountFaults THEN {sessions} ELSE {})
  /\ stored' = 0
  /\ ClickEnds(c)
  /\ UNCHANGED <<codes, sent, minted, leads, accountLog>>

ExpireSession(t) ==
  /\ "expires" \in AccountFaults
  /\ LiveSession(t)
  /\ sessions' = [Kills({t}) EXCEPT ![t].expired = TRUE]
  /\ UNCHANGED <<codes, sent, minted, leads, stored, clicks, accountLog>>

AccountStep(c) ==
  \/ ClickOn(c) \/ Refused(c) \/ DemoRefused(c) \/ LostAnswer(c)
  \/ StartSignIn(c) \/ VerifySignIn(c) \/ RecordLead(c) \/ Revoke(c)
  \/ ClearCode(c) \/ ClearSession(c) \/ StartDemo(c) \/ VerifyDemo(c)
  \/ LoadOrders(c) \/ SaveSession(c) \/ ChangeProfile(c) \/ SignOut(c)

AccountNext ==
  (\E c \in Clicks : AccountStep(c)) \/ \E t \in Tokens : ExpireSession(t)

AccountSpec == AccountInit /\ [][AccountNext]_accountVars
-----------------------------------------------------------------------------
\* Nobody gets a shopper's session before its opt-in is recorded as a lead,
\* whatever fails: no tab has one in hand or stored.  And none lives on without
\* its lead but those that were made for a request that still records or
\* revokes it, was dropped doing so, named no email, or could not revoke it.
SessionHasLead ==
  \A t \in Tokens : sessions[t].email = "shopper" /\ "shopper" \notin leads =>
    /\ stored # t
    /\ \A c \in Clicks :
         clicks[c].token = t => clicks[c].at \in {"record", "revoke"}
    /\ sessions[t].live =>
         t \in accountLog \/ \E c \in Clicks : clicks[c].token = t

\* "A late response for an old capability must not discard a newer sign-in":
\* whatever tabs load, save and are denied meanwhile, a stored session that
\* Commerce still honours is cleared by a sign-out only.
LiveSessionKept ==
  [][LiveSession(stored) /\ stored' = 0 => \E c \in Clicks : SignOut(c)]_accountVars
=============================================================================
