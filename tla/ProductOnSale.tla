---------------------------- MODULE ProductOnSale ----------------------------
(***************************************************************************)
(* One Content > Products page, the product Commerce sells through it, and *)
(* the overlapping publish, unpublish, trash and permanent-delete requests *)
(* that `withProductOnSale` wraps (features/product-on-sale/index.ts).     *)
(*                                                                         *)
(* A request is a sequence of awaits.  Every await is one step here, so    *)
(* other requests, the panel, EmDash's scheduler and a change of the       *)
(* person's role run between any two of them.  EmDash's own handler        *)
(* (`next`) and each Commerce route are external and atomic; what Commerce *)
(* does is read off the calls made to it and the comments at those calls.  *)
(***************************************************************************)
EXTENDS Naturals

CONSTANTS
  Requests,    \* the requests that can be in flight at once
  Products,    \* the Commerce products a page's panel can pick
  NoProduct,   \* Commerce links the page to nothing
  Seed,        \* the page's demonstration id (NoProduct when it has none)
  Actions,     \* which requests arrive
  Faults,      \* what can go wrong, out of FaultKinds
  MaxTitle,    \* bound: titles are 1 .. MaxTitle
  NameWrites   \* NAME_WRITES, title-only writes one request makes at most

(***************************************************************************)
(* "refused": Commerce answers an error and applied nothing.  "lost": it   *)
(* applied the write and its answer did not arrive.  "unread": the page or *)
(* its link cannot be read.  "dies": the isolate drops a request between   *)
(* two awaits.  "relink": the panel picks a product for the page meanwhile.*)
(***************************************************************************)
FaultKinds == {"refused", "lost", "unread", "dies", "relink"}

ASSUME ConstantsAssumption ==
  /\ NoProduct \notin Products
  /\ Seed \notin Products
  /\ Actions \subseteq {"publish", "unpublish", "trash", "permanent"}
  /\ Faults \subseteq FaultKinds
  /\ MaxTitle \in Nat \ {0}
  /\ NameWrites \in Nat \ {0}

VARIABLES
  status,    \* the CMS page
  title,     \* its published title
  picked,    \* Commerce: the product the page's panel picked
  selling,   \* Commerce: the product on sale through the page
  name,      \* Commerce: the name of that product
  retitle,   \* a `retitle:` record is listed for the sweep
  pc,        \* per request: the await it is at
  action,    \* per request: the change it makes
  may,       \* per request: the person holds content:publish_any now
  product,   \* per request: page.catalogItemId as first read
  tookOff,   \* per request: its first off-sale write changed something
  sent,      \* per request: the name it last sent, 0 for none
  seen,      \* per request: the published title it last read, 0 for none
  writes,    \* per request: title-only writes made so far
  log        \* history: what this store has warned about or let through

pageVars == <<status, title>>
commerceVars == <<picked, selling, name>>
local == <<action, may, product, tookOff, sent, seen, writes>>
vars == <<status, title, picked, selling, name, retitle, pc, action, may,
          product, tookOff, sent, seen, writes, log>>

Titles == 1 .. MaxTitle
Stages == {"idle", "content", "link", "authorize", "off", "change", "check",
           "on", "readBack", "linkBack", "takeOff", "rename", "renameRead",
           "renameLink", "offAgain", "undo", "undoLink", "plain", "delete",
           "release"}

(***************************************************************************)
(* "offFailed", "draft" and "linkStays" are the code's console.warn calls. *)
(* The others are history the code does not keep: "left", the page began   *)
(* with nothing on sale or left published; "untold", a publish whose title *)
(* Commerce was not told;                                                  *)
(* "lostOn", an on-sale write applied whose answer was lost; "bypass", an  *)
(* unpublish or trash without a working Commerce half while the product    *)
(* was on sale; "dropped", a request the isolate dropped, and "owing", one *)
(* dropped while it still had to take the product off.                     *)
(***************************************************************************)
Events == {"offFailed", "draft", "linkStays", "left", "untold", "lostOn",
           "bypass", "dropped", "owing"}

PageTypeOK ==
  /\ status \in {"draft", "published", "trashed", "deleted"}
  /\ title \in Titles
  /\ picked \in Products \cup {NoProduct}
  /\ selling \in Products \cup {NoProduct}
  /\ name \in Titles \cup {0}
  /\ retitle \in BOOLEAN
  /\ log \subseteq Events

RequestTypeOK ==
  /\ pc \in [Requests -> Stages]
  /\ action \in [Requests -> {"publish", "unpublish", "trash", "permanent"}]
  /\ may \in [Requests -> BOOLEAN]
  /\ product \in [Requests -> Products \cup {NoProduct, Seed}]
  /\ tookOff \in [Requests -> BOOLEAN]
  /\ sent \in [Requests -> Titles \cup {0}]
  /\ seen \in [Requests -> Titles \cup {0}]
  /\ writes \in [Requests -> 0 .. NameWrites]

\* The page, Commerce and every request keep to their types; in particular a
\* request never makes more than NameWrites title-only writes.
TypeOK == PageTypeOK /\ RequestTypeOK

Init ==
  /\ picked \in Products \cup {NoProduct}
  /\ \/ status = "draft" /\ selling = NoProduct
     \/ status = "published" /\ selling = picked
  /\ title = 1
  /\ name = IF selling = NoProduct THEN 0 ELSE 1
  /\ retitle = FALSE
  /\ pc = [r \in Requests |-> "idle"]
  /\ action = [r \in Requests |-> "publish"]
  /\ may = [r \in Requests |-> FALSE]
  /\ product = [r \in Requests |-> NoProduct]
  /\ tookOff = [r \in Requests |-> FALSE]
  /\ sent = [r \in Requests |-> 0]
  /\ seen = [r \in Requests |-> 0]
  /\ writes = [r \in Requests |-> 0]
  /\ log = IF selling = NoProduct THEN {"left"} ELSE {}
-----------------------------------------------------------------------------
(***************************************************************************)
(* Steps of a request.  `Goto` moves it on; `Return` answers the browser   *)
(* and forgets the request's locals, so the slot is free for a new request.*)
(***************************************************************************)
Goto(r, stage) == pc' = [pc EXCEPT ![r] = stage]

Return(r) ==
  /\ pc' = [pc EXCEPT ![r] = "idle"]
  /\ action' = [action EXCEPT ![r] = "publish"]
  /\ may' = [may EXCEPT ![r] = FALSE]
  /\ product' = [product EXCEPT ![r] = NoProduct]
  /\ tookOff' = [tookOff EXCEPT ![r] = FALSE]
  /\ sent' = [sent EXCEPT ![r] = 0]
  /\ seen' = [seen EXCEPT ![r] = 0]
  /\ writes' = [writes EXCEPT ![r] = 0]

Keep == UNCHANGED local
Warn(e) == log' = log \cup {e}

Fault(f) == f \in Faults
Exists == status \in {"draft", "published"}

\* A new request for the page, from someone who does or does not hold the
\* set-on-sale route's permission.
Begin(r) ==
  /\ pc[r] = "idle"
  /\ \E a \in Actions, m \in BOOLEAN :
       /\ action' = [action EXCEPT ![r] = a]
       /\ may' = [may EXCEPT ![r] = m]
       /\ Goto(r, IF a = "permanent" THEN "delete" ELSE "content")
  /\ UNCHANGED <<pageVars, commerceVars, retitle, product, tookOff, sent,
                 seen, writes, log>>

\* An unreadable page: a publish goes on without its Commerce half, an
\* unpublish or trash is refused (503).
Unreadable(r) ==
  IF action[r] = "publish"
  THEN Goto(r, "plain") /\ Keep
  ELSE Return(r)

\* productPage, first await: the page as EmDash holds it.  A page that is
\* gone changes with no Commerce half.
ReadContent(r) ==
  /\ pc[r] = "content"
  /\ \/ Exists /\ Goto(r, "link") /\ Keep
     \/ ~Exists /\ Goto(r, "plain") /\ Keep
     \/ Fault("unread") /\ Unreadable(r)
  /\ UNCHANGED <<pageVars, commerceVars, retitle, log>>

\* The product this read says the page sells: Commerce's link, else the
\* seed's own id, also when Commerce cannot say.
Linked == IF picked # NoProduct THEN picked ELSE Seed

\* productPage, second await: a page that sells nothing cannot be published
\* (422) and is unpublished or trashed with no Commerce half.
ReadLink(r) ==
  /\ pc[r] = "link"
  /\ \/ /\ Linked # NoProduct
        /\ product' = [product EXCEPT ![r] = Linked]
        /\ Goto(r, "authorize")
        /\ UNCHANGED <<action, may, tookOff, sent, seen, writes>>
     \/ /\ Linked = NoProduct
        /\ IF action[r] = "publish" THEN Return(r) ELSE Goto(r, "plain") /\ Keep
     \/ /\ Fault("unread") /\ Seed # NoProduct
        /\ product' = [product EXCEPT ![r] = Seed]
        /\ Goto(r, "authorize")
        /\ UNCHANGED <<action, may, tookOff, sent, seen, writes>>
     \/ Fault("unread") /\ Seed = NoProduct /\ Unreadable(r)
  /\ UNCHANGED <<pageVars, commerceVars, retitle, log>>

\* The person as stored now.  A publish goes on either way; an unpublish or
\* trash without the permission is refused (403).  Both reads an unpublish
\* makes before its first write refuse alike, so they are one step.
Authorize(r) ==
  /\ pc[r] = "authorize"
  /\ IF action[r] = "publish"
     THEN Goto(r, IF may[r] THEN "change" ELSE "plain") /\ Keep
     ELSE IF may[r] THEN Goto(r, "off") /\ Keep ELSE Return(r)
  /\ UNCHANGED <<pageVars, commerceVars, retitle, log>>
-----------------------------------------------------------------------------
(***************************************************************************)
(* Commerce.  It answers a write that names an id it does not have, or a   *)
(* page it links to nothing, with a code the store takes as done.          *)
(***************************************************************************)
ForThisPage(r) == picked # NoProduct /\ product[r] # Seed

AnswersIf(linked) ==
  IF linked
  THEN {"done"} \cup (Faults \cap {"refused", "lost"})
  ELSE {"notThisPages"} \cup (Faults \cap {"refused"})

Answers(r) == AnswersIf(ForThisPage(r))

Applied(answer) == answer \in {"done", "lost"}
Failed(answer) == answer \in {"refused", "lost"}

OffSale(answer) ==
  /\ selling' = IF Applied(answer) THEN NoProduct ELSE selling
  /\ UNCHANGED <<picked, name>>

OnSale(answer, newName) ==
  /\ selling' = IF Applied(answer) THEN picked ELSE selling
  /\ name' = IF Applied(answer) /\ newName # 0 THEN newName ELSE name
  /\ UNCHANGED picked

\* Unpublish and trash take the product off sale first; if that fails, the
\* page change is refused (503).
TakeOffFirst(r) ==
  /\ pc[r] = "off"
  /\ \E answer \in Answers(r) :
       /\ OffSale(answer)
       /\ IF Failed(answer)
          THEN Return(r)
          ELSE /\ tookOff' = [tookOff EXCEPT ![r] =
                                answer = "done" /\ selling # NoProduct]
               /\ Goto(r, "change")
               /\ UNCHANGED <<action, may, product, sent, seen, writes>>
  /\ UNCHANGED <<pageVars, retitle, log>>
-----------------------------------------------------------------------------
(***************************************************************************)
(* `next()`: EmDash's own handler.                                         *)
(***************************************************************************)
Publishes(newTitle) ==
  /\ Exists
  /\ status' = "published"
  /\ newTitle \in {title, title + 1}
  /\ newTitle \in Titles
  /\ title' = newTitle

\* Unpublishing leaves a draft; trash hides the page until it is restored.
Withdraws(a) ==
  /\ Exists
  /\ status' = IF a = "trash" THEN "trashed" ELSE "draft"
  /\ title' = title

\* What a page change that no off-sale write follows leaves behind.
Bypassed == IF selling = NoProduct THEN {} ELSE {"bypass"}

\* A publish EmDash accepted: its answer names the published title, or that
\* title cannot be read (0).
ChangePublish(r) ==
  /\ pc[r] = "change"
  /\ action[r] = "publish"
  /\ \/ /\ \E t \in Titles :
             /\ Publishes(t)
             /\ \E answered \in {0, t} : sent' = [sent EXCEPT ![r] = answered]
        /\ Goto(r, "check")
        /\ UNCHANGED <<action, may, product, tookOff, seen, writes>>
     \/ Return(r) /\ UNCHANGED pageVars
  /\ UNCHANGED <<commerceVars, retitle, log>>

\* Mutant: no second off-sale write after the page change.
WithdrawOnce(r) ==
  /\ pc[r] = "change"
  /\ action[r] \in {"unpublish", "trash"}
  /\ \/ /\ Withdraws(action[r])
        /\ Warn("left")
        /\ Return(r)
     \/ /\ IF tookOff[r] THEN Goto(r, "undo") /\ Keep ELSE Return(r)
        /\ UNCHANGED <<pageVars, log>>
  /\ UNCHANGED <<commerceVars, retitle>>

\* Mutant: a failed page change is not undone.
WithdrawNoUndo(r) ==
  /\ pc[r] = "change"
  /\ action[r] \in {"unpublish", "trash"}
  /\ \/ /\ Withdraws(action[r])
        /\ Goto(r, "offAgain")
        /\ Warn("left")
        /\ Keep
     \/ Return(r) /\ UNCHANGED <<pageVars, log>>
  /\ UNCHANGED <<commerceVars, retitle>>

\* An unpublish or trash, after the first off-sale write.  EmDash refusing
\* or throwing starts the undo if that write took the product off sale.
ChangeWithdraw(r) ==
  /\ pc[r] = "change"
  /\ action[r] \in {"unpublish", "trash"}
  /\ \/ /\ Withdraws(action[r])
        /\ Goto(r, "offAgain")
        /\ log' = log \cup {"left"}
                      \cup (IF product[r] = Seed THEN Bypassed ELSE {})
        /\ Keep
     \/ /\ IF tookOff[r] THEN Goto(r, "undo") /\ Keep ELSE Return(r)
        /\ UNCHANGED <<pageVars, log>>
  /\ UNCHANGED <<commerceVars, retitle>>

\* Off sale again after the page change.
OffAgain(r) ==
  /\ pc[r] = "offAgain"
  /\ \E answer \in Answers(r) :
       /\ OffSale(answer)
       /\ IF Failed(answer) THEN Warn("offFailed") ELSE UNCHANGED log
  /\ Return(r)
  /\ UNCHANGED <<pageVars, retitle>>

\* A request the store passes straight to EmDash: the page was missing,
\* unlinked or unreadable, or a person without the permission publishes it.
Plain(r) ==
  /\ pc[r] = "plain"
  /\ \/ /\ action[r] = "publish"
        /\ \E t \in Titles : Publishes(t)
        /\ Warn("untold")
     \/ /\ action[r] \in {"unpublish", "trash"}
        /\ Withdraws(action[r])
        /\ log' = log \cup {"left"} \cup Bypassed
     \/ UNCHANGED <<pageVars, log>>
  /\ Return(r)
  /\ UNCHANGED <<commerceVars, retitle>>
-----------------------------------------------------------------------------
(***************************************************************************)
(* putOnSale: recheck the person, write, read the page again, and take the *)
(* product off sale again unless the page is still published with it.      *)
(***************************************************************************)
Check(r) ==
  /\ pc[r] = "check"
  /\ IF may[r]
     THEN Goto(r, "on") /\ Keep /\ UNCHANGED log
     ELSE Return(r) /\ log' = log \cup {"draft", "untold"}
  /\ UNCHANGED <<pageVars, commerceVars, retitle>>

PutOnSale(r) ==
  /\ pc[r] = "on"
  /\ \E answer \in Answers(r) :
       /\ OnSale(answer, sent[r])
       /\ IF Failed(answer)
          THEN /\ Return(r)
               /\ log' = log \cup {"draft", "untold"}
                             \cup (IF Applied(answer) THEN {"lostOn"} ELSE {})
          ELSE /\ Goto(r, "readBack") /\ Keep
               /\ IF Applied(answer) THEN UNCHANGED log ELSE Warn("untold")
  /\ UNCHANGED <<pageVars, retitle>>

\* A fresh read of the page: published, or anything else.
ReadsPublished(r, stage) ==
  /\ status = "published"
  /\ seen' = [seen EXCEPT ![r] = title]
  /\ Goto(r, stage)
  /\ UNCHANGED <<action, may, product, tookOff, sent, writes>>

\* Mutant: the read after the on-sale write is not acted on.
TrustWrite(r) ==
  /\ pc[r] = "readBack"
  /\ \/ ReadsPublished(r, "linkBack")
     \/ status # "published" /\ Return(r)
  /\ UNCHANGED <<pageVars, commerceVars, retitle, log>>

ReadBack(r) ==
  /\ pc[r] = "readBack"
  /\ \/ ReadsPublished(r, "linkBack")
     \/ /\ status # "published" \/ Fault("unread")
        /\ Goto(r, "takeOff") /\ Keep
  /\ UNCHANGED <<pageVars, commerceVars, retitle, log>>

\* The ids a link read may give the page; with "unread" the seed's, or none.
LinkReads == {Linked} \cup (IF Fault("unread") THEN {Seed} ELSE {})

\* Mutant: a title that changed meanwhile is not caught up.
KeepSentTitle(r) ==
  /\ pc[r] = "linkBack"
  /\ \/ product[r] \in LinkReads /\ Return(r)
     \/ LinkReads \ {product[r]} # {} /\ Goto(r, "takeOff") /\ Keep
  /\ UNCHANGED <<pageVars, commerceVars, retitle, log>>

LinkBack(r) ==
  /\ pc[r] = "linkBack"
  /\ \/ /\ product[r] \in LinkReads
        /\ IF seen[r] = sent[r]
           THEN Return(r)
           ELSE /\ sent' = [sent EXCEPT ![r] = seen[r]]
                /\ Goto(r, "rename")
                /\ UNCHANGED <<action, may, product, tookOff, seen, writes>>
     \/ /\ LinkReads \ {product[r]} # {}
        /\ Goto(r, "takeOff") /\ Keep
  /\ UNCHANGED <<pageVars, commerceVars, retitle, log>>

TakeOff(r) ==
  /\ pc[r] = "takeOff"
  /\ \E answer \in Answers(r) :
       /\ OffSale(answer)
       /\ log' = log \cup {"draft"}
                     \cup (IF Failed(answer) THEN {"offFailed"} ELSE {})
  /\ Return(r)
  /\ UNCHANGED <<pageVars, retitle>>
-----------------------------------------------------------------------------
(***************************************************************************)
(* renameToTitle: title-only writes until Commerce has the newest title.   *)
(* "retry" lists the page for the sweep.                                   *)
(***************************************************************************)
Retry(r) == Return(r) /\ retitle' = TRUE

Rename(r) ==
  /\ pc[r] = "rename"
  /\ \/ ~may[r] /\ Retry(r) /\ UNCHANGED commerceVars
     \/ /\ may[r]
        /\ \E answer \in Answers(r) :
             /\ name' = IF Applied(answer) THEN sent[r] ELSE name
             /\ IF Failed(answer)
                THEN Retry(r)
                ELSE /\ writes' = [writes EXCEPT ![r] = @ + 1]
                     /\ Goto(r, "renameRead")
                     /\ UNCHANGED <<action, may, product, tookOff, sent, seen,
                                    retitle>>
        /\ UNCHANGED <<picked, selling>>
  /\ UNCHANGED <<pageVars, log>>

RenameRead(r) ==
  /\ pc[r] = "renameRead"
  /\ \/ ReadsPublished(r, "renameLink") /\ UNCHANGED retitle
     \/ status # "published" /\ Return(r) /\ UNCHANGED retitle
     \/ Fault("unread") /\ Retry(r)
  /\ UNCHANGED <<pageVars, commerceVars, log>>

\* Mutant: one title-only write too many.
RenameOnceMore(r) ==
  /\ pc[r] = "renameLink"
  /\ product[r] \in LinkReads
  /\ IF seen[r] = sent[r]
     THEN Return(r) /\ UNCHANGED retitle
     ELSE IF writes[r] <= NameWrites
     THEN /\ sent' = [sent EXCEPT ![r] = seen[r]]
          /\ Goto(r, "rename")
          /\ UNCHANGED <<action, may, product, tookOff, seen, writes, retitle>>
     ELSE Retry(r)
  /\ UNCHANGED <<pageVars, commerceVars, log>>

RenameLink(r) ==
  /\ pc[r] = "renameLink"
  /\ \/ /\ \/ Linked # product[r]
           \/ seen[r] = sent[r]
           \/ Fault("unread") /\ Seed \notin {NoProduct, product[r]}
        /\ Return(r) /\ UNCHANGED retitle
     \/ /\ product[r] \in LinkReads
        /\ seen[r] # sent[r]
        /\ IF writes[r] < NameWrites
           THEN /\ sent' = [sent EXCEPT ![r] = seen[r]]
                /\ Goto(r, "rename")
                /\ UNCHANGED <<action, may, product, tookOff, seen, writes,
                               retitle>>
           ELSE Retry(r)
     \/ Fault("unread") /\ Seed = NoProduct /\ Retry(r)
  /\ UNCHANGED <<pageVars, commerceVars, log>>
-----------------------------------------------------------------------------
(***************************************************************************)
(* undo: the page change failed after the product went off sale.           *)
(***************************************************************************)
Undo(r) ==
  /\ pc[r] = "undo"
  /\ \/ ReadsPublished(r, "undoLink") /\ UNCHANGED log
     \/ /\ status # "published" \/ Fault("unread")
        /\ Return(r) /\ Warn("draft")
  /\ UNCHANGED <<pageVars, commerceVars, retitle>>

UndoLink(r) ==
  /\ pc[r] = "undoLink"
  /\ \/ /\ product[r] \in LinkReads
        /\ sent' = [sent EXCEPT ![r] = seen[r]]
        /\ Goto(r, "check")
        /\ UNCHANGED <<action, may, product, tookOff, seen, writes, log>>
     \/ /\ LinkReads \ {product[r]} # {}
        /\ Return(r) /\ Warn("draft")
  /\ UNCHANGED <<pageVars, commerceVars, retitle>>
-----------------------------------------------------------------------------
(***************************************************************************)
(* Permanent deletion: EmDash deletes a trashed page; only then is the     *)
(* person read and Commerce told to release the link.                      *)
(***************************************************************************)
DeletePage(r) ==
  /\ pc[r] = "delete"
  /\ \/ /\ status = "trashed"
        /\ status' = "deleted"
        /\ title' = title
        /\ IF may[r] THEN Goto(r, "release") /\ Keep ELSE Return(r)
     \/ Return(r) /\ UNCHANGED pageVars
  /\ UNCHANGED <<commerceVars, retitle, log>>

\* The release names the page and no product, so Commerce answers it by the
\* page's own link.
Release(r) ==
  /\ pc[r] = "release"
  /\ \E answer \in AnswersIf(picked # NoProduct) :
       /\ selling' = IF Applied(answer) THEN NoProduct ELSE selling
       /\ picked' = IF Applied(answer) THEN NoProduct ELSE picked
       /\ name' = name
       /\ IF Failed(answer) THEN Warn("linkStays") ELSE UNCHANGED log
  /\ Return(r)
  /\ UNCHANGED <<pageVars, retitle>>
-----------------------------------------------------------------------------
(***************************************************************************)
(* What runs beside the requests.                                          *)
(***************************************************************************)
\* An administrator changes the person's role, or restores it.
PersonChanges(r) ==
  /\ pc[r] # "idle"
  /\ may' = [may EXCEPT ![r] = ~@]
  /\ UNCHANGED <<pageVars, commerceVars, retitle, pc, action, product, tookOff,
                 sent, seen, writes, log>>

\* A request whose next read or write can still take the product off sale.
Owes(r) ==
  /\ product[r] # Seed
  /\ pc[r] \in {"readBack", "takeOff", "offAgain"}

\* The isolate drops the request before its next await resumes.
Dies(r) ==
  /\ Fault("dies")
  /\ pc[r] # "idle"
  /\ Return(r)
  /\ log' = log \cup {"dropped"} \cup (IF Owes(r) THEN {"owing"} ELSE {})
  /\ UNCHANGED <<pageVars, commerceVars, retitle>>

\* The Dinkus Commerce panel picks a product for a page not yet deleted.
PanelPicks(p) ==
  /\ Fault("relink")
  /\ status # "deleted"
  /\ picked # p
  /\ picked' = p
  /\ UNCHANGED <<pageVars, selling, name, retitle, pc, local, log>>

\* EmDash publishes a scheduled page with nobody signed in.
ScheduledPublish ==
  /\ status = "draft"
  /\ \E t \in Titles : Publishes(t)
  /\ Warn("untold")
  /\ UNCHANGED <<commerceVars, retitle, pc, local>>

\* A trashed page is restored as a draft; the store wraps no request for it.
RestorePage ==
  /\ status = "trashed"
  /\ status' = "draft"
  /\ title' = title
  /\ UNCHANGED <<commerceVars, retitle, pc, local, log>>

Step(r) ==
  \/ ReadContent(r) \/ ReadLink(r) \/ Authorize(r) \/ TakeOffFirst(r)
  \/ ChangePublish(r) \/ ChangeWithdraw(r) \/ OffAgain(r) \/ Plain(r)
  \/ Check(r) \/ PutOnSale(r) \/ ReadBack(r) \/ LinkBack(r) \/ TakeOff(r)
  \/ Rename(r) \/ RenameRead(r) \/ RenameLink(r)
  \/ Undo(r) \/ UndoLink(r)
  \/ DeletePage(r) \/ Release(r)

Next ==
  \/ \E r \in Requests : Begin(r) \/ Step(r) \/ PersonChanges(r) \/ Dies(r)
  \/ \E p \in Products : PanelPicks(p)
  \/ ScheduledPublish \/ RestorePage

Spec == Init /\ [][Next]_vars

\* The runtime resumes a request's next await.
Fairness == \A r \in Requests : WF_vars(Step(r))
FairSpec == Spec /\ Fairness
-----------------------------------------------------------------------------
Quiet == \A r \in Requests : pc[r] = "idle"

\* A product on sale behind a page that is not published.
Exposed == selling # NoProduct /\ status # "published"

\* Ways the code itself can leave a product buyable: an off-sale write that
\* failed (warned about), an on-sale write that failed after Commerce applied
\* it, a page change with no working Commerce half, a request dropped owing.
Excuses == {"offFailed", "lostOn", "bypass", "owing"}

\* "Overlapping requests settle on the page's final state": while a product
\* is on sale behind a page that is not published, some request in flight
\* still has the read or the write ahead of it that takes it off, unless one
\* of the Excuses happened.
OffSaleOwed ==
  Exposed => (\E r \in Requests : Owes(r)) \/ log \cap Excuses # {}

\* "Whichever request reads last settles on the newest title": with no
\* request in flight, the product on sale bears the page's title, or the page
\* is listed for the sweep, or some publish's title never went to Commerce.
NewestTitle ==
  (/\ Quiet
   /\ selling # NoProduct
   /\ status = "published"
   /\ log \cap {"untold", "dropped", "offFailed"} = {})
     => name = title \/ retitle

\* "If the page change fails after Commerce took the product off sale, the
\* product goes back on sale": while the page has never left published, a
\* product that was on sale from the start is on sale whenever no request is in
\* flight, unless the store warned that it stays a Draft.
FailedChangeKeepsSale ==
  (Quiet /\ log \cap {"left", "draft", "dropped", "lostOn"} = {})
    => selling # NoProduct

\* A product does not stay on sale behind a page that is not published: it
\* goes off sale or the page is published again, unless an Excuse happens.
ExposureEnds == Exposed ~> (~Exposed \/ log \cap Excuses # {})

\* The doc comment's absolute form: "a product is never left buyable behind
\* an unpublished or trashed page" once no request is in flight.
NeverLeftBuyable == Quiet => ~Exposed
=============================================================================
