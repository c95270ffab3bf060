------------------------- MODULE ScheduleGrantsProofs -------------------------
(***************************************************************************)
(* Proofs about ScheduleGrants: the record's grant for any number of       *)
(* overlapping requests, people, moments and proposals, with every kind of *)
(* change and every fault; and whom it names, for a page scheduled for one *)
(* moment.                                                                 *)
(***************************************************************************)
EXTENDS ScheduleGrants, FiniteSetTheorems, TLAPS

(***************************************************************************)
(* The record keeps every schedule asked for since it was made, unless it  *)
(* overflowed, and then it grants nothing; so what it grants is what it    *)
(* would grant from everything that was asked.                             *)
(***************************************************************************)
SaleInv ==
  /\ sale.state = "none" => sale = NoRecord /\ asked = {}
  /\ sale.overflowed => sale.confirmed = {}
  /\ ~sale.overflowed => asked = sale.proposals
  /\ \A g \in sale.confirmed : g \in GrantFor(sale.proposals, FALSE, g.at)

GInv == TypeOK /\ SaleInv

-----------------------------------------------------------------------------
RequestStates ==
  [at : {"idle", "before", "change", "read", "after"},
   kind : Kinds \cup {"none"}, ask : Grants \cup {NoGrant},
   seen : Moments \cup {Never}]

\* The conjunct of TypeOK about the requests.
RequestOK == request \in [Requests -> RequestStates]

\* The conjuncts of TypeOK about the record.
RecordOK ==
  /\ sale \in [state : {"none", "scheduled", "publishing", "published"},
               proposals : SUBSET Grants, overflowed : BOOLEAN,
               confirmed : SUBSET Grants]
  /\ IsFiniteSet(sale.proposals)
  /\ Cardinality(sale.proposals) <= MaxProposals
  /\ asked \subseteq Grants

\* TypeOK in three parts, so a step proves only those it changes.
LEMMA TypeParts ==
  TypeOK <=> /\ RequestOK
             /\ RecordOK
             /\ now \in 0 .. MaxMoment
             /\ page \in [status : {"draft", "published", "trashed"},
                          scheduled : Grants \cup {NoGrant}]
             /\ publishedFor \in Grants \cup {NoGrant}
BY DEF TypeOK, RequestOK, RequestStates, RecordOK

\* The empty record is one.
LEMMA NoRecordOK ==
  ASSUME sale' = NoRecord, asked' = {}
  PROVE  RecordOK' /\ SaleInv'
<1>1. IsFiniteSet({}) /\ Cardinality({}) = 0
  BY FS_EmptySet
<1> QED BY <1>1, GrantAssumption DEF NoRecord, RecordOK, SaleInv

\* A grant is one of the proposals it is made from.
LEMMA GrantIsProposal ==
  ASSUME NEW proposals, NEW over, NEW at
  PROVE  /\ GrantFor(proposals, over, at) \subseteq proposals
         /\ over => GrantFor(proposals, over, at) = {}
         /\ \A g \in GrantFor(proposals, over, at) :
              g.at = at /\ g \in GrantFor(proposals, FALSE, g.at)
BY DEF GrantFor, Matching

\* A record changed only in its state and its grant, the grant being made
\* from its own proposals, stays sound; so does one that was removed.
LEMMA ChangeOK ==
  ASSUME GInv, NEW next, Change(next),
         next = NoRecord \/
           /\ sale.state # "none"
           /\ next \in [state : {"scheduled", "publishing", "published"},
                        proposals : {sale.proposals},
                        overflowed : {sale.overflowed},
                        confirmed : SUBSET Grants]
           /\ sale.overflowed => next.confirmed = {}
           /\ \A g \in next.confirmed :
                g \in GrantFor(sale.proposals, FALSE, g.at)
  PROVE  RecordOK' /\ SaleInv'
<1>1. CASE sale' = NoRecord
  BY <1>1, NoRecordOK DEF Change
<1>2. CASE sale' # NoRecord
  <2>1. sale' = next /\ asked' = asked
    BY <1>2 DEF Change
  <2>2. RecordOK'
    BY <1>2, <2>1, TypeParts DEF GInv, RecordOK
  <2>3. SaleInv'
    BY <1>2, <2>1 DEF GInv, SaleInv
  <2> QED BY <2>2, <2>3
<1> QED BY <1>1, <1>2

-----------------------------------------------------------------------------
\* Nothing is asked for or granted at the start.
LEMMA GrantInit == Init => GInv
<1> SUFFICES ASSUME Init PROVE GInv
  OBVIOUS
<1>1. IsFiniteSet({}) /\ Cardinality({}) = 0
  BY FS_EmptySet
<1>2. TypeOK
  BY <1>1, GrantAssumption DEF Init, TypeOK, NoRecord, Idle, NoGrant, Never
<1>3. SaleInv
  BY DEF Init, SaleInv, NoRecord
<1> QED BY <1>2, <1>3 DEF GInv

\* content:beforeSchedule keeps the record sound: the proposal is kept, or the
\* record overflows and grants nothing.
LEMMA ProposalOK ==
  ASSUME GInv, NEW r \in Requests, BeforeSchedule(r)
  PROVE  RecordOK' /\ SaleInv'
<1> DEFINE ask == request[r].ask
           over == sale.overflowed \/ ~Keeps(ask)
           kept == IF over THEN sale.proposals ELSE sale.proposals \cup {ask}
           next == [state |-> IF Held THEN sale.state ELSE "scheduled",
                    proposals |-> kept, overflowed |-> over,
                    confirmed |-> UNION {GrantFor(kept \cup {ask}, over, g.at) :
                                           g \in sale.confirmed}]
<1>1. CASE sale' = NoRecord
  BY <1>1, NoRecordOK DEF BeforeSchedule
<1>2. CASE sale' # NoRecord
  <2>1. sale' = next /\ asked' = asked \cup {ask}
    BY <1>2 DEF BeforeSchedule
  <2>2. ask \in Grants
    BY GrantAssumption DEF GInv, TypeOK, BeforeSchedule, NoGrant, Never
  <2>3. kept \subseteq Grants /\ over \in BOOLEAN
    BY <2>2 DEF GInv, TypeOK
  <2>4. IsFiniteSet(kept) /\ Cardinality(kept) <= MaxProposals
    <3>1. CASE over
      BY <3>1 DEF GInv, TypeOK
    <3>2. CASE ~over
      <4>1. /\ IsFiniteSet(sale.proposals)
            /\ Cardinality(sale.proposals) <= MaxProposals
            /\ Cardinality(sale.proposals) \in Nat
        BY FS_CardinalityType DEF GInv, TypeOK
      <4>2. kept = sale.proposals \cup {ask}
        BY <3>2
      <4>3. IsFiniteSet(kept) /\
            (\/ Cardinality(kept) = Cardinality(sale.proposals)
             \/ /\ Cardinality(kept) = Cardinality(sale.proposals) + 1
                /\ ask \notin sale.proposals)
        <5>1. CASE ask \in sale.proposals
          BY <4>1, <4>2, <5>1, kept = sale.proposals
        <5>2. CASE ask \notin sale.proposals
          BY <4>1, <4>2, <5>2, FS_AddElement
        <5> QED BY <5>1, <5>2
      <4>4. Cardinality(sale.proposals) < MaxProposals \/ ask \in sale.proposals
        BY <3>2 DEF Keeps
      <4> QED BY <4>1, <4>3, <4>4, GrantAssumption
    <3> QED BY <3>1, <3>2
  <2>5. \A g \in sale'.confirmed :
          /\ ~over
          /\ g \in kept
          /\ g \in GrantFor(kept, FALSE, g.at)
    <3> SUFFICES ASSUME NEW g \in sale'.confirmed
                 PROVE  ~over /\ g \in kept /\ g \in GrantFor(kept, FALSE, g.at)
      OBVIOUS
    <3>1. PICK h \in sale.confirmed : g \in GrantFor(kept \cup {ask}, over, h.at)
      BY <2>1
    <3>2. ~over /\ g \in GrantFor(kept \cup {ask}, FALSE, g.at)
      BY <3>1, GrantIsProposal
    <3>3. kept \cup {ask} = kept
      BY <3>2
    <3>4. g \in kept
      <4>1. g \in kept \cup {ask}
        BY <3>1 DEF GrantFor, Matching
      <4> QED BY <3>3, <4>1
    <3> QED BY <3>2, <3>3, <3>4
  <2>6. sale'.state \in {"scheduled", "publishing", "published"}
    <3>1. Held => sale.state # "none"
      BY DEF GInv, SaleInv, Held
    <3> QED BY <2>1, <3>1 DEF GInv, TypeOK
  <2>7. /\ sale'.proposals = kept /\ sale'.overflowed = over
        /\ sale'.confirmed \subseteq Grants
        /\ sale' \in [state : {"none", "scheduled", "publishing", "published"},
                      proposals : SUBSET Grants, overflowed : BOOLEAN,
                      confirmed : SUBSET Grants]
    <3>1. sale'.confirmed \subseteq Grants
      BY <2>3, <2>5
    <3> QED BY <2>1, <2>3, <2>6, <3>1
  <2>8. RecordOK'
    BY <2>1, <2>2, <2>4, <2>7 DEF RecordOK, GInv, TypeOK
  <2>9. ~over => asked \cup {ask} = kept
    BY DEF GInv, SaleInv
  <2>10. SaleInv'
    <3> HIDE DEF kept, over, ask, next
    <3>1. sale'.state # "none"
      BY <2>6
    <3>2. sale'.overflowed => sale'.confirmed = {}
      BY <2>5, <2>7
    <3>3. ~sale'.overflowed => asked' = sale'.proposals
      BY <2>1, <2>7, <2>9
    <3>4. \A g \in sale'.confirmed : g \in GrantFor(sale'.proposals, FALSE, g.at)
      BY <2>5, <2>7
    <3>5. (\A g \in sale.confirmed : g \in GrantFor(sale.proposals, FALSE, g.at))'
      BY <3>4 DEF GrantFor, Matching
    <3> QED BY <3>1, <3>2, <3>3, <3>5 DEF SaleInv
  <2> QED BY <2>8, <2>10
<1> QED BY <1>1, <1>2

(***************************************************************************)
(* Every step keeps the invariant.  Only the hooks change the record.      *)
(***************************************************************************)
\* What a hook may set a request to.
LEMMA RequestKept ==
  ASSUME TypeOK, NEW r \in Requests,
         NEW step \in {"idle", "before", "change", "read", "after"}
  PROVE  /\ Goto(r, step) => RequestOK'
         /\ Becomes(r, Idle) => RequestOK'
BY GrantAssumption
   DEF TypeOK, RequestOK, RequestStates, Goto, Becomes, Idle, NoGrant, Never

\* Whatever state of its type a request goes to.
LEMMA RequestBecomes ==
  ASSUME TypeOK, NEW r \in Requests, NEW q \in RequestStates, Becomes(r, q)
  PROVE  RequestOK'
<1>1. request \in [Requests -> RequestStates]
  BY DEF TypeOK, RequestStates
<1>2. request' = [request EXCEPT ![r] = q]
  BY DEF Becomes
<1> QED BY <1>1, <1>2 DEF RequestOK

\* A request that reads the page takes a moment with it.
LEMMA ReadTyped ==
  ASSUME NEW q \in RequestStates, NEW seen \in Moments \cup {Never}
  PROVE  [q EXCEPT !.at = "after", !.seen = seen] \in RequestStates
BY DEF RequestStates

\* Every step keeps the record sound.
LEMMA GrantStep == GInv /\ [Next]_vars => GInv'
<1> SUFFICES ASSUME GInv, [Next]_vars PROVE GInv'
  OBVIOUS
<1> USE GrantAssumption
<1>1. TypeOK /\ SaleInv
  BY DEF GInv
<1>a. RecordOK /\ RequestOK
  BY <1>1, TypeParts
<1>b. ASSUME UNCHANGED <<sale, asked>> PROVE RecordOK' /\ SaleInv'
  BY <1>1, <1>a, <1>b DEF RecordOK, SaleInv
<1>2. ASSUME MomentComes PROVE GInv'
  <2>1. now' \in 0 .. MaxMoment
    BY <1>1, <1>2 DEF MomentComes, TypeOK
  <2> QED BY <1>1, <1>2, <1>b, <2>1 DEF MomentComes, GInv, TypeOK
<1>3. ASSUME NEW r \in Requests, Begin(r) PROVE GInv'
  <2>1. PICK q \in RequestStates : Becomes(r, q)
    <3>1. ASSUME NEW kind \in Kinds, NEW ask \in Grants \cup {NoGrant},
                 NEW step \in {"before", "change"}
          PROVE  [Idle EXCEPT !.at = step, !.kind = kind, !.ask = ask]
                   \in RequestStates
      BY DEF Idle, RequestStates
    <3>2. ASSUME NEW kind \in Kinds, NEW step \in {"before", "change"}
          PROVE  [Idle EXCEPT !.at = step, !.kind = kind] \in RequestStates
      BY DEF Idle, RequestStates
    <3> QED BY <1>3, <3>1, <3>2 DEF Begin
  <2>2. RequestOK'
    BY <1>1, <2>1, RequestBecomes
  <2> QED BY <1>1, <1>3, <1>b, <2>2
          DEF Begin, GInv, TypeOK, RequestOK, RequestStates,
               RecordOK
<1>4. ASSUME NEW r \in Requests, BeforeSchedule(r) PROVE GInv'
  <2>1. RequestOK'
    BY <1>1, <1>4, RequestKept DEF BeforeSchedule
  <2> QED BY <1>1, <1>4, <2>1, ProposalOK
          DEF BeforeSchedule, GInv, TypeOK, RequestOK, RequestStates,
               RecordOK
<1>5. ASSUME NEW r \in Requests, StoreSchedule(r) PROVE GInv'
  <2>1. RequestOK'
    BY <1>1, <1>5, RequestKept DEF StoreSchedule
  <2>2. page' \in [status : {"draft", "published", "trashed"},
                   scheduled : Grants \cup {NoGrant}]
    BY <1>1, <1>5 DEF StoreSchedule, TypeOK
  <2> QED BY <1>1, <1>5, <1>b, <2>1, <2>2
          DEF StoreSchedule, GInv, TypeOK, RequestOK, RequestStates,
               RecordOK
<1>6. ASSUME NEW r \in Requests, ReadPage(r) PROVE GInv'
  <2>1. page.scheduled.at \in Moments \cup {Never}
    BY <1>1 DEF TypeOK, Grants, NoGrant, Never
  <2>2. PICK seen \in Moments \cup {Never} :
          Becomes(r, [request[r] EXCEPT !.at = "after", !.seen = seen])
    BY <1>6, <2>1 DEF ReadPage
  <2>3. [request[r] EXCEPT !.at = "after", !.seen = seen] \in RequestStates
    <3>1. request[r] \in RequestStates
      BY <1>1 DEF TypeOK, RequestStates
    <3> QED BY <3>1, ReadTyped
  <2>4. RequestOK'
    BY <1>1, <2>2, <2>3, RequestBecomes
  <2> QED BY <1>1, <1>6, <1>b, <2>4 DEF ReadPage, GInv, TypeOK, RequestOK, RequestStates,
               RecordOK
<1>7. ASSUME NEW r \in Requests, AfterSchedule(r) PROVE GInv'
  <2>1. RequestOK'
    BY <1>1, <1>7, RequestKept DEF AfterSchedule
  <2>2. RecordOK' /\ SaleInv'
    <3>1. CASE ~Held
      BY <1>7, <1>b, <3>1 DEF AfterSchedule
    <3>2. CASE Held
      <4> DEFINE granted == GrantFor(sale.proposals, sale.overflowed,
                                     request[r].seen)
                 next == [sale EXCEPT !.state = "scheduled",
                                      !.confirmed = granted]
      <4>1. Change(next) /\ sale.state # "none"
        BY <1>1, <1>7, <3>2 DEF AfterSchedule, Held, SaleInv
      <4>2. /\ granted \subseteq Grants
            /\ sale.overflowed => granted = {}
            /\ \A g \in granted : g \in GrantFor(sale.proposals, FALSE, g.at)
        BY <1>1, GrantIsProposal DEF TypeOK
      <4>3. /\ next \in [state : {"scheduled", "publishing", "published"},
                         proposals : {sale.proposals},
                         overflowed : {sale.overflowed},
                         confirmed : SUBSET Grants]
            /\ next.confirmed = granted
        BY <1>1, <4>2 DEF TypeOK
      <4> QED BY <4>1, <4>2, <4>3, ChangeOK
    <3> QED BY <3>1, <3>2
  <2> QED BY <1>1, <1>7, <2>1, <2>2 DEF AfterSchedule, GInv, TypeOK, RequestOK, RequestStates,
               RecordOK
<1>8. ASSUME NEW r \in Requests, BeforePublish(r) PROVE GInv'
  <2>1. RequestOK'
    BY <1>1, <1>8, RequestKept DEF BeforePublish
  <2>2. RecordOK' /\ SaleInv'
    <3> DEFINE marks == request[r].kind = "scheduler" /\ sale.confirmed # {}
               marked == [sale EXCEPT !.state = "publishing"]
    <3>1. CASE ~marks
      BY <1>8, <3>1, ChangeOK DEF BeforePublish
    <3>2. CASE marks
      <4>1. Change(marked) /\ sale.state # "none"
        BY <1>1, <1>8, <3>2 DEF BeforePublish, SaleInv, NoRecord
      <4>2. /\ marked \in [state : {"scheduled", "publishing", "published"},
                           proposals : {sale.proposals},
                           overflowed : {sale.overflowed},
                           confirmed : SUBSET Grants]
            /\ marked.confirmed = sale.confirmed
        BY <1>1 DEF TypeOK
      <4> QED BY <1>1, <4>1, <4>2, ChangeOK DEF SaleInv
    <3> QED BY <3>1, <3>2
  <2> QED BY <1>1, <1>8, <2>1, <2>2 DEF BeforePublish, GInv, TypeOK, RequestOK, RequestStates,
               RecordOK
<1>9. ASSUME NEW r \in Requests, PublishPage(r) PROVE GInv'
  <2>1. RequestOK'
    BY <1>1, <1>9, RequestKept DEF PublishPage
  <2>2. /\ page' \in [status : {"draft", "published", "trashed"},
                      scheduled : Grants \cup {NoGrant}]
        /\ publishedFor' \in Grants \cup {NoGrant}
    BY <1>1, <1>9 DEF PublishPage, TypeOK
  <2> QED BY <1>1, <1>9, <1>b, <2>1, <2>2
          DEF PublishPage, GInv, TypeOK, RequestOK, RequestStates,
               RecordOK
<1>10. ASSUME NEW r \in Requests, AfterPublish(r) PROVE GInv'
  <2>1. RequestOK'
    BY <1>1, <1>10, RequestKept DEF AfterPublish
  <2>2. RecordOK' /\ SaleInv'
    <3> DEFINE completed == [sale EXCEPT !.state = "published"]
    <3>1. CASE sale.state # "publishing"
      BY <1>10, <1>b, <3>1 DEF AfterPublish
    <3>2. CASE sale.state = "publishing"
      <4>1. Change(completed)
        BY <1>10, <3>2 DEF AfterPublish
      <4>2. /\ completed \in [state : {"scheduled", "publishing", "published"},
                              proposals : {sale.proposals},
                              overflowed : {sale.overflowed},
                              confirmed : SUBSET Grants]
            /\ completed.confirmed = sale.confirmed
        BY <1>1 DEF TypeOK
      <4> QED BY <1>1, <3>2, <4>1, <4>2, ChangeOK DEF SaleInv
    <3> QED BY <3>1, <3>2
  <2> QED BY <1>1, <1>10, <2>1, <2>2 DEF AfterPublish, GInv, TypeOK, RequestOK, RequestStates,
               RecordOK
<1>11. ASSUME NEW r \in Requests, WithdrawPage(r) PROVE GInv'
  <2>1. RequestOK'
    BY <1>1, <1>11, RequestKept DEF WithdrawPage
  <2>2. page' \in [status : {"draft", "published", "trashed"},
                   scheduled : Grants \cup {NoGrant}]
    BY <1>1, <1>11 DEF WithdrawPage, Withdrawals, TypeOK
  <2> QED BY <1>1, <1>11, <1>b, <2>1, <2>2
          DEF WithdrawPage, GInv, TypeOK, RequestOK, RequestStates,
               RecordOK
<1>12. ASSUME NEW r \in Requests, DropRecord(r) PROVE GInv'
  <2>1. RequestOK'
    BY <1>1, <1>12, RequestKept DEF DropRecord
  <2> QED BY <1>1, <1>12, <2>1, NoRecordOK
          DEF DropRecord, GInv, TypeOK, RequestOK, RequestStates,
               RecordOK
<1>13. ASSUME NEW r \in Requests, Refused(r) \/ Dies(r) PROVE GInv'
  <2>1. RequestOK'
    BY <1>1, <1>13, RequestKept DEF Refused, Dies
  <2> QED BY <1>1, <1>13, <1>b, <2>1 DEF Refused, Dies, GInv, TypeOK, RequestOK, RequestStates,
               RecordOK
<1>14. ASSUME UNCHANGED vars PROVE GInv'
  BY <1>1, <1>14 DEF vars, GInv, TypeOK, SaleInv
<1> QED BY <1>2, <1>3, <1>4, <1>5, <1>6, <1>7, <1>8, <1>9, <1>10, <1>11, <1>12,
        <1>13, <1>14 DEF Next, Step

\* The record is sound in every reachable state.
LEMMA GrantInvariant == Spec => []GInv
BY GrantInit, GrantStep, PTL DEF Spec

\* What the record grants is the least of everything asked for at its moment.
LEMMA SoundIsWeakest == GInv => GrantWeakest
<1> SUFFICES ASSUME GInv, NEW g \in sale.confirmed, NEW ask \in asked,
                    ask.at = g.at
             PROVE  ask.by = g.by /\ g.role <= ask.role
  BY DEF GrantWeakest
<1>1. ask \in sale.proposals
  BY DEF GInv, SaleInv
<1>2. g \in GrantFor(sale.proposals, FALSE, g.at)
  BY DEF GInv, SaleInv
<1> QED BY <1>1, <1>2 DEF GrantFor, Matching

\* Types, for any number of overlapping requests: in particular no record
\* keeps more than MaxProposals proposals.
THEOREM GrantsTyped == Spec => []TypeOK
<1>1. GInv => TypeOK
  BY DEF GInv
<1> QED BY <1>1, GrantInvariant, PTL

\* A grant is never stronger than any schedule asked for at its moment since
\* the record was made, with every kind of change and every fault.
THEOREM NoStrongerGrant == Spec => []GrantWeakest
BY SoundIsWeakest, GrantInvariant, PTL

-----------------------------------------------------------------------------
(***************************************************************************)
(* Whom a page sells for.  With one moment, no withdrawal and no hook that *)
(* loses every race, the record is removed only once the moment has come,  *)
(* and then no schedule is asked for or stored any more.  So while there   *)
(* is a record, the schedule EmDash holds, or published the page for, is   *)
(* among those asked for, and the grant is no stronger than it.            *)
(***************************************************************************)
OneMomentOnly ==
  /\ MaxMoment = 1
  /\ Kinds \subseteq {"schedule", "scheduler"}
  /\ "raced" \notin Faults

\* Before the moment comes only schedules are in flight, and each is proposed
\* before EmDash stores it.
EarlyInv ==
  /\ publishedFor = NoGrant
  /\ page.scheduled \in asked \cup {NoGrant}
  /\ \A r \in Requests :
       /\ request[r].at # "idle" => request[r].kind = "schedule"
       /\ request[r].at = "change" => request[r].ask \in asked

NInv ==
  /\ now = 0 => EarlyInv
  /\ Held => {page.scheduled, publishedFor} \subseteq asked \cup {NoGrant}
  /\ sale.state = "published" => publishedFor # NoGrant
  /\ \A r \in Requests :
       /\ request[r].at = "read" => request[r].kind = "schedule"
       /\ request[r].at = "after" /\ request[r].kind = "scheduler"
            => publishedFor # NoGrant

\* A request that becomes idle owes nothing, and the others are as they were.
LEMMA IdleKept ==
  ASSUME GInv, NInv, NEW r \in Requests, Becomes(r, Idle),
         UNCHANGED <<now, page, publishedFor>>,
         asked' = asked \/ now # 0,
         Held' => asked' = asked /\ Held,
         sale'.state = "published" => publishedFor # NoGrant
  PROVE  NInv'
<1>1. /\ request'[r] = Idle
      /\ \A q \in Requests \ {r} : request'[q] = request[q]
  BY DEF GInv, TypeOK, Becomes
<1>2. /\ request'[r].at = "idle"
      /\ request'[r].kind = "none"
  BY <1>1 DEF Idle
<1> QED BY <1>1, <1>2 DEF NInv, EarlyInv

\* Nothing is scheduled at the start.
LEMMA NamesInit == Init => NInv
BY DEF Init, NInv, EarlyInv, Held, NoRecord, Idle, NoGrant

\* With one moment, every step keeps who may hold the record's grant.
LEMMA NamesStep ==
  ASSUME OneMomentOnly
  PROVE  GInv /\ NInv /\ [Next]_vars => NInv'
<1> SUFFICES ASSUME GInv, NInv, [Next]_vars PROVE NInv'
  OBVIOUS
<1>1. TypeOK /\ SaleInv
  BY DEF GInv
<1>2. /\ Moments = {1}
      /\ now \in {0, 1}
      /\ \A ask \in Grants : ask.at = 1
      /\ NoGrant.at = 0
  BY <1>1 DEF OneMomentOnly, Moments, TypeOK, Grants, NoGrant, Never
<1>3. \A r \in Requests : request[r].kind \in {"schedule", "scheduler", "none"}
  BY <1>1 DEF OneMomentOnly, TypeOK
<1>4. ASSUME NEW next, Change(next)
      PROVE  /\ sale' = next
             /\ next # NoRecord => asked' = asked
  BY <1>4 DEF Change, OneMomentOnly, Fault
<1>5. Held <=> sale.state # "none"
  BY <1>1 DEF SaleInv, Held, NoRecord
<1>6. ASSUME NEW r \in Requests, NEW step, Goto(r, step)
      PROVE  /\ request'[r].at = step
             /\ request'[r].kind = request[r].kind
             /\ request'[r].ask = request[r].ask
             /\ \A q \in Requests \ {r} : request'[q] = request[q]
  BY <1>1, <1>6 DEF TypeOK, Goto, Becomes
<1>7. ASSUME MomentComes PROVE NInv'
  BY <1>2, <1>7 DEF MomentComes, NInv, EarlyInv, Held
<1>8. ASSUME NEW r \in Requests, Begin(r) PROVE NInv'
  <2>1. PICK kind, q :
          /\ kind \in {"schedule", "scheduler"} /\ Becomes(r, q)
          /\ q.at = "before" /\ q.kind = kind
          /\ kind = "scheduler" => now # 0
    <3>1. PICK kind \in Kinds :
            \/ /\ kind = "schedule"
               /\ \E ask \in Grants :
                    Becomes(r, [Idle EXCEPT !.at = "before", !.kind = kind,
                                            !.ask = ask])
            \/ /\ kind = "scheduler"
               /\ page.scheduled.at \in 1 .. now
               /\ Becomes(r, [Idle EXCEPT !.at = "before", !.kind = kind])
      BY <1>8 DEF Begin, OneMomentOnly, Withdrawals
    <3>2. page.scheduled.at \in 1 .. now => now # 0
      BY <1>2
    <3>3. \A ask : LET q == [Idle EXCEPT !.at = "before", !.kind = kind,
                                          !.ask = ask]
                   IN  q.at = "before" /\ q.kind = kind
      BY DEF Idle
    <3>4. LET q == [Idle EXCEPT !.at = "before", !.kind = kind]
          IN  q.at = "before" /\ q.kind = kind
      BY DEF Idle
    <3> QED BY <3>1, <3>2, <3>3, <3>4
  <2>2. /\ request'[r].at = "before" /\ request'[r].kind = kind
        /\ \A p \in Requests \ {r} : request'[p] = request[p]
    BY <1>1, <2>1 DEF Becomes, TypeOK
  <2> QED BY <1>8, <2>1, <2>2 DEF Begin, NInv, EarlyInv, Held
<1>9. ASSUME NEW r \in Requests, BeforeSchedule(r) PROVE NInv'
  <2>1. now = 0
    BY <1>1, <1>2, <1>9 DEF BeforeSchedule, TypeOK
  <2>2. sale' # NoRecord /\ (sale'.state = sale.state \/ sale'.state = "scheduled")
    BY <1>1, <1>5, <1>9 DEF BeforeSchedule, OneMomentOnly, Fault, Held, NoRecord
  <2>3. asked' = asked \cup {request[r].ask}
    BY <1>9, <2>2 DEF BeforeSchedule
  <2>4. Goto(r, "change") /\ UNCHANGED <<now, page, publishedFor>>
    BY <1>9 DEF BeforeSchedule
  <2> QED BY <1>6, <1>9, <2>1, <2>2, <2>3, <2>4
          DEF NInv, EarlyInv, Held, BeforeSchedule
<1>10. ASSUME NEW r \in Requests, StoreSchedule(r) PROVE NInv'
  <2>1. now = 0
    BY <1>1, <1>2, <1>10 DEF StoreSchedule, TypeOK
  <2>2. page'.scheduled = request[r].ask /\ request[r].ask \in asked
    BY <1>1, <1>10, <2>1 DEF StoreSchedule, NInv, EarlyInv, TypeOK
  <2>3. Goto(r, "read") /\ UNCHANGED <<now, sale, asked, publishedFor>>
    BY <1>10 DEF StoreSchedule
  <2> QED BY <1>6, <1>10, <2>1, <2>2, <2>3
          DEF NInv, EarlyInv, Held, StoreSchedule
<1>11. ASSUME NEW r \in Requests, ReadPage(r) PROVE NInv'
  <2>1. /\ request'[r].at = "after" /\ request'[r].kind = "schedule"
        /\ \A p \in Requests \ {r} : request'[p] = request[p]
    BY <1>1, <1>11 DEF ReadPage, Becomes, TypeOK, NInv
  <2> QED BY <1>11, <2>1 DEF ReadPage, NInv, EarlyInv, Held
<1>12. ASSUME NEW r \in Requests, AfterSchedule(r) PROVE NInv'
  <2>1. CASE ~Held
    BY <1>12, <2>1, IdleKept DEF AfterSchedule, NInv, Held
  <2>2. CASE Held
    <3> DEFINE next == [sale EXCEPT !.state = "scheduled", !.confirmed =
                 GrantFor(sale.proposals, sale.overflowed, request[r].seen)]
    <3>a. Change(next)
      BY <1>12, <2>2 DEF AfterSchedule
    <3>b. next.state = "scheduled" /\ next # NoRecord
      BY <1>1 DEF TypeOK, NoRecord
    <3>1. sale'.state = "scheduled" /\ asked' = asked
      BY <1>4, <3>a, <3>b
    <3> QED BY <1>12, <2>2, <3>1, IdleKept DEF AfterSchedule
  <2> QED BY <2>1, <2>2
<1>13. ASSUME NEW r \in Requests, BeforePublish(r) PROVE NInv'
  <2>1. now # 0
    BY <1>13 DEF BeforePublish, NInv, EarlyInv
  <2>2. \/ sale' = NoRecord
        \/ Held /\ sale'.state = "publishing" /\ asked' = asked
    BY <1>1, <1>4, <1>5, <1>13 DEF BeforePublish, TypeOK, NoRecord, Held
  <2>3. sale'.state # "published" /\ (Held' => Held /\ asked' = asked)
    BY <2>2 DEF NoRecord, Held
  <2>4. Goto(r, "change") /\ UNCHANGED <<now, page, publishedFor>>
    BY <1>13 DEF BeforePublish
  <2> QED BY <1>6, <2>1, <2>3, <2>4 DEF NInv
<1>14. ASSUME NEW r \in Requests, PublishPage(r) PROVE NInv'
  <2>1. /\ page'.scheduled = NoGrant
        /\ publishedFor' = page.scheduled
        /\ page.scheduled.at \in 1 .. now
    BY <1>3, <1>14 DEF PublishPage
  <2>2. publishedFor' # NoGrant /\ now # 0
    BY <1>2, <2>1
  <2>3. Goto(r, "after") /\ UNCHANGED <<now, sale, asked>>
    BY <1>14 DEF PublishPage
  <2> QED BY <1>6, <2>1, <2>2, <2>3 DEF NInv, Held
<1>15. ASSUME NEW r \in Requests, AfterPublish(r) PROVE NInv'
  <2>1. publishedFor # NoGrant
    BY <1>3, <1>15 DEF AfterPublish, NInv
  <2>2. asked' = asked /\ (Held' => Held)
    <3>1. CASE sale.state = "publishing"
      BY <1>1, <1>4, <1>5, <1>15, <3>1 DEF AfterPublish, TypeOK, NoRecord
    <3>2. CASE sale.state # "publishing"
      BY <1>15, <3>2 DEF AfterPublish, Held
    <3> QED BY <3>1, <3>2
  <2> QED BY <1>15, <2>1, <2>2, IdleKept DEF AfterPublish
<1>16. ASSUME NEW r \in Requests, WithdrawPage(r) \/ DropRecord(r) PROVE NInv'
  BY <1>3, <1>16 DEF WithdrawPage, DropRecord, Withdrawals
<1>17. ASSUME NEW r \in Requests, Refused(r) \/ Dies(r) PROVE NInv'
  BY <1>17, IdleKept DEF Refused, Dies, NInv, Held
<1>18. ASSUME UNCHANGED vars PROVE NInv'
  BY <1>18 DEF vars, NInv, EarlyInv, Held
<1> QED BY <1>7, <1>8, <1>9, <1>10, <1>11, <1>12, <1>13, <1>14, <1>15, <1>16,
        <1>17, <1>18 DEF Next, Step

\* For a page scheduled for one moment, by any number of people, requests and
\* roles: what is sold on the schedule is granted to the person whose schedule
\* EmDash published, with no more than the role they held.
THEOREM GrantIsSchedulers ==
  ASSUME OneMomentOnly
  PROVE  Spec => []GrantNamesScheduler
<1>1. GInv /\ NInv => GrantNamesScheduler
  <2> SUFFICES ASSUME GInv, NInv, Sellable, NEW g \in sale.confirmed
               PROVE  g.by = publishedFor.by /\ g.role <= publishedFor.role
    BY DEF GrantNamesScheduler
  <2>1. Held /\ publishedFor # NoGrant
    BY DEF Sellable, NInv, Held, NoRecord
  <2>2. publishedFor \in asked
    BY <2>1 DEF NInv
  <2>3. publishedFor.at = g.at
    BY <2>2 DEF OneMomentOnly, GInv, TypeOK, Grants, Moments
  <2> QED BY <2>2, <2>3, SoundIsWeakest DEF GrantWeakest
<1>2. Init => NInv
  BY NamesInit
<1>3. GInv /\ NInv /\ [Next]_vars => NInv'
  BY NamesStep
<1> QED BY <1>1, <1>2, <1>3, GrantInvariant, PTL DEF Spec
=============================================================================
