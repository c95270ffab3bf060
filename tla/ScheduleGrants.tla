---------------------------- MODULE ScheduleGrants ----------------------------
(***************************************************************************)
(* Who may have a page's product put on sale when EmDash publishes it on a *)
(* schedule (features/product-url-plugin/index.ts).  The plugin's content  *)
(* hooks keep one record per page beside EmDash's own schedule of it.  The *)
(* hooks of overlapping schedules, publishes and withdrawals run in any    *)
(* order: each EmDash change and each hook is one step, and so is the read *)
(* of the page that content:afterSchedule makes before it changes the      *)
(* record.  EmDash is external: it stores one schedule per page, takes     *)
(* none for a moment that has passed, and publishes a page once its moment *)
(* has come.                                                               *)
(***************************************************************************)
EXTENDS Naturals, FiniteSets

CONSTANTS
  Requests,      \* the changes of the page that can be in flight at once
  People,
  Nobody,        \* a schedule from no person
  Roles,         \* a person's role, which may be another at every request
  MaxMoment,     \* bound: schedules are for the moments 1 .. MaxMoment
  MaxProposals,  \* MAX_PROPOSALS, 50 in the code
  Kinds,         \* which changes arrive
  Faults         \* what can go wrong, out of FaultKinds

(***************************************************************************)
(* "unreadable": the page cannot be read.  "dies": the isolate goes before *)
(* the next hook.  "raced": a hook lost every compare-and-set.             *)
(***************************************************************************)
FaultKinds == {"unreadable", "dies", "raced"}
Withdrawals == {"unschedule", "unpublish", "trash"}

ASSUME GrantAssumption ==
  /\ Nobody \notin People
  /\ 0 \in Roles /\ Roles \subseteq Nat
  /\ MaxMoment \in Nat
  /\ MaxProposals \in Nat
  /\ Kinds \subseteq {"schedule", "publish", "scheduler"} \cup Withdrawals
  /\ Faults \subseteq FaultKinds

VARIABLES
  now,           \* the moments that have come
  page,          \* EmDash: the page and the schedule it holds
  sale,          \* the page's PendingSale record
  request,       \* per request: what it does and how far it is
  asked,         \* history: schedules asked for since the record was made
  publishedFor   \* history: the schedule EmDash last published the page for

vars == <<now, page, sale, request, asked, publishedFor>>

Moments == 1 .. MaxMoment
Never == 0
Grants == [by : People \cup {Nobody}, role : Roles, at : Moments]
NoGrant == [by |-> Nobody, role |-> 0, at |-> Never]

\* The moment a page is scheduled for, and the schedule that was stored.
NoRecord == [state |-> "none", proposals |-> {}, overflowed |-> FALSE,
             confirmed |-> {}]
Idle == [at |-> "idle", kind |-> "none", ask |-> NoGrant, seen |-> Never]

\* The record, the page and the requests keep to their types; in particular a
\* page never has more proposals than are kept.
TypeOK ==
  /\ now \in 0 .. MaxMoment
  /\ page \in [status : {"draft", "published", "trashed"},
               scheduled : Grants \cup {NoGrant}]
  /\ sale \in [state : {"none", "scheduled", "publishing", "published"},
               proposals : SUBSET Grants, overflowed : BOOLEAN,
               confirmed : SUBSET Grants]
  /\ IsFiniteSet(sale.proposals)
  /\ Cardinality(sale.proposals) <= MaxProposals
  /\ request \in [Requests ->
       [at : {"idle", "before", "change", "read", "after"},
        kind : Kinds \cup {"none"}, ask : Grants \cup {NoGrant},
        seen : Moments \cup {Never}]]
  /\ asked \subseteq Grants
  /\ publishedFor \in Grants \cup {NoGrant}

Init ==
  /\ now = 0
  /\ page \in [status : {"draft", "published"}, scheduled : {NoGrant}]
  /\ sale = NoRecord
  /\ request = [r \in Requests |-> Idle]
  /\ asked = {}
  /\ publishedFor = NoGrant
-----------------------------------------------------------------------------
Fault(f) == f \in Faults
Becomes(r, q) == request' = [request EXCEPT ![r] = q]
Goto(r, step) == Becomes(r, [request[r] EXCEPT !.at = step])
Held == sale # NoRecord

\* changePending: the record changes in one step.  A hook that lost every
\* race removes it.
Change(next) ==
  /\ sale' \in {next} \cup (IF Fault("raced") THEN {NoRecord} ELSE {})
  /\ asked' = IF sale' = NoRecord THEN {} ELSE asked

Matching(proposals, at) == {p \in proposals : p.at = at}

\* Mutant: the role asked with first, not the least one, is granted.
GrantAnyRole(proposals, overflowed, at) ==
  {p \in Matching(proposals, at) :
     /\ ~overflowed /\ p.by # Nobody
     /\ \A q \in Matching(proposals, at) : q.by = p.by /\ p.role >= q.role}

\* Mutant: one person's proposal is enough, whoever else asked.
GrantAnyone(proposals, overflowed, at) ==
  {p \in Matching(proposals, at) :
     /\ ~overflowed /\ p.by # Nobody
     /\ \A q \in Matching(proposals, at) : q.role <= p.role}

\* grantFor: every proposal for that moment comes from one person; the least
\* role among them is taken.  At most one grant.
GrantFor(proposals, overflowed, at) ==
  {p \in Matching(proposals, at) :
     /\ ~overflowed /\ p.by # Nobody
     /\ \A q \in Matching(proposals, at) : q.by = p.by /\ p.role <= q.role}

Begin(r) ==
  /\ request[r].at = "idle"
  /\ \E kind \in Kinds :
       \/ /\ kind = "schedule"
          /\ \E ask \in Grants :
               /\ ask.at > now
               /\ ask.by = Nobody => ask.role = 0
               /\ Becomes(r, [Idle EXCEPT !.at = "before", !.kind = kind,
                                          !.ask = ask])
       \/ /\ kind = "scheduler"
          /\ page.scheduled.at \in 1 .. now
          /\ Becomes(r, [Idle EXCEPT !.at = "before", !.kind = kind])
       \/ /\ kind = "publish"
          /\ Becomes(r, [Idle EXCEPT !.at = "before", !.kind = kind])
       \/ /\ kind \in Withdrawals
          /\ Becomes(r, [Idle EXCEPT !.at = "change", !.kind = kind])
  /\ UNCHANGED <<now, page, sale, asked, publishedFor>>
-----------------------------------------------------------------------------
\* Mutant: a proposal too many is kept.
KeepsOneMore(ask) ==
  Cardinality(sale.proposals) <= MaxProposals \/ ask \in sale.proposals

\* A proposal is kept unless as many distinct ones are kept already.
Keeps(ask) ==
  Cardinality(sale.proposals) < MaxProposals \/ ask \in sale.proposals

\* content:beforeSchedule: the proposal, which can only weaken what is
\* confirmed, before EmDash stores the schedule.
BeforeSchedule(r) ==
  LET ask == request[r].ask
      over == sale.overflowed \/ ~Keeps(ask)
      kept == IF over THEN sale.proposals ELSE sale.proposals \cup {ask}
  IN
  /\ request[r].at = "before" /\ request[r].kind = "schedule"
  /\ ask.at > now
  /\ sale' \in
       {[state |-> IF Held THEN sale.state ELSE "scheduled",
         proposals |-> kept, overflowed |-> over,
         confirmed |-> UNION {GrantFor(kept \cup {ask}, over, g.at) :
                                g \in sale.confirmed}]}
       \cup (IF Fault("raced") THEN {NoRecord} ELSE {})
  /\ asked' = IF sale' = NoRecord THEN {} ELSE asked \cup {ask}
  /\ Goto(r, "change")
  /\ UNCHANGED <<now, page, publishedFor>>

\* EmDash stores the schedule.
StoreSchedule(r) ==
  /\ request[r].at = "change" /\ request[r].kind = "schedule"
  /\ request[r].ask.at > now
  /\ page.status # "trashed"
  /\ page' = [page EXCEPT !.scheduled = request[r].ask]
  /\ Goto(r, "read")
  /\ UNCHANGED <<now, sale, asked, publishedFor>>

\* content:afterSchedule reads the page: the schedule EmDash holds now.
ReadPage(r) ==
  /\ request[r].at = "read"
  /\ \E seen \in {IF page.status = "trashed" THEN Never ELSE page.scheduled.at}
                 \cup (IF Fault("unreadable") THEN {Never} ELSE {}) :
       Becomes(r, [request[r] EXCEPT !.at = "after", !.seen = seen])
  /\ UNCHANGED <<now, page, sale, asked, publishedFor>>

\* content:afterSchedule: the record grants what that schedule may sell.
AfterSchedule(r) ==
  /\ request[r].at = "after" /\ request[r].kind = "schedule"
  /\ IF Held
     THEN Change([sale EXCEPT !.state = "scheduled", !.confirmed =
                    GrantFor(sale.proposals, sale.overflowed, request[r].seen)])
     ELSE UNCHANGED <<sale, asked>>
  /\ Becomes(r, Idle)
  /\ UNCHANGED <<now, page, publishedFor>>
-----------------------------------------------------------------------------
\* content:beforePublish: EmDash's scheduled publish of a granted schedule is
\* marked; any other publish ends the grant.
BeforePublish(r) ==
  /\ request[r].at = "before" /\ request[r].kind \in {"publish", "scheduler"}
  /\ Change(IF request[r].kind = "scheduler" /\ sale.confirmed # {}
            THEN [sale EXCEPT !.state = "publishing"] ELSE NoRecord)
  /\ Goto(r, "change")
  /\ UNCHANGED <<now, page, publishedFor>>

\* EmDash publishes the page; its scheduler ends the schedule it publishes
\* for, a person's publish may leave it.
PublishPage(r) ==
  /\ request[r].at = "change" /\ request[r].kind \in {"publish", "scheduler"}
  /\ page.status # "trashed"
  /\ \/ /\ request[r].kind = "scheduler"
        /\ page.scheduled.at \in 1 .. now
        /\ page' = [status |-> "published", scheduled |-> NoGrant]
        /\ publishedFor' = page.scheduled
     \/ /\ request[r].kind = "publish"
        /\ \E left \in {NoGrant, page.scheduled} :
             page' = [status |-> "published", scheduled |-> left]
        /\ publishedFor' = NoGrant
  /\ Goto(r, "after")
  /\ UNCHANGED <<now, sale, asked>>

\* content:afterPublish: only a record marked as publishing is completed.
AfterPublish(r) ==
  /\ request[r].at = "after" /\ request[r].kind \in {"publish", "scheduler"}
  /\ IF sale.state = "publishing"
     THEN Change([sale EXCEPT !.state = "published"])
     ELSE UNCHANGED <<sale, asked>>
  /\ Becomes(r, Idle)
  /\ UNCHANGED <<now, page, publishedFor>>

\* EmDash unschedules, unpublishes or trashes the page.
WithdrawPage(r) ==
  /\ request[r].at = "change" /\ request[r].kind \in Withdrawals
  /\ page' = CASE request[r].kind = "unschedule" ->
                    [page EXCEPT !.scheduled = NoGrant]
               [] request[r].kind = "unpublish" ->
                    [page EXCEPT !.status = "draft"]
               [] request[r].kind = "trash" -> [page EXCEPT !.status = "trashed"]
  /\ Goto(r, "after")
  /\ UNCHANGED <<now, sale, asked, publishedFor>>

\* content:afterUnschedule, afterUnpublish and afterDelete: no record is left.
DropRecord(r) ==
  /\ request[r].at = "after" /\ request[r].kind \in Withdrawals
  /\ sale' = NoRecord /\ asked' = {}
  /\ Becomes(r, Idle)
  /\ UNCHANGED <<now, page, publishedFor>>
-----------------------------------------------------------------------------
\* EmDash refuses a schedule for a moment that has passed, or any change after
\* its before-hook; no after-hook runs then.
Refused(r) ==
  /\ \/ request[r].at = "change"
     \/ request[r].at = "before" /\ request[r].ask.at \in 1 .. now
  /\ Becomes(r, Idle)
  /\ UNCHANGED <<now, page, sale, asked, publishedFor>>

Dies(r) ==
  /\ Fault("dies")
  /\ request[r].at # "idle"
  /\ Becomes(r, Idle)
  /\ UNCHANGED <<now, page, sale, asked, publishedFor>>

MomentComes ==
  /\ now < MaxMoment
  /\ now' = now + 1
  /\ UNCHANGED <<page, sale, request, asked, publishedFor>>

Step(r) ==
  \/ Begin(r)
  \/ BeforeSchedule(r) \/ StoreSchedule(r) \/ ReadPage(r) \/ AfterSchedule(r)
  \/ BeforePublish(r) \/ PublishPage(r) \/ AfterPublish(r)
  \/ WithdrawPage(r) \/ DropRecord(r)
  \/ Refused(r) \/ Dies(r)

Next == MomentComes \/ \E r \in Requests : Step(r)

Spec == Init /\ [][Next]_vars
-----------------------------------------------------------------------------
\* "Adding proposals can only weaken it": a grant never outlives a schedule
\* asked for at its moment by someone else, and never holds a higher role than
\* one that was asked with, however hooks overlapped and whichever proposals
\* were not kept.
GrantWeakest ==
  \A g \in sale.confirmed : \A ask \in asked :
    ask.at = g.at => ask.by = g.by /\ g.role <= ask.role

\* What the sweep puts on sale: the page was published on a schedule and is
\* not scheduled again.
Sellable ==
  /\ sale.state = "published" /\ sale.confirmed # {}
  /\ page.status = "published" /\ page.scheduled = NoGrant

\* "Never lends one request's authority to another's stored schedule": a page
\* sells on the grant of the person whose schedule EmDash stored and published,
\* with a role they held then.
GrantNamesScheduler ==
  Sellable => \A g \in sale.confirmed :
                g.by = publishedFor.by /\ g.role <= publishedFor.role
=============================================================================
