------------------------- MODULE ProductOnSaleProofs -------------------------
(***************************************************************************)
(* For any number of overlapping requests, products and titles, and every  *)
(* fault: the type invariant, and that a product on sale behind a page     *)
(* that is not published is always still owed an off-sale write, unless    *)
(* one of the four named Excuses happened.  With some faults left out:     *)
(* that a refused change gives the sale back, and that the newest title    *)
(* is the one the product ends up with.  And, again with every fault, that *)
(* a request can always go on and comes nearer to its answer with each     *)
(* step, whatever runs beside it.                                          *)
(***************************************************************************)
EXTENDS ProductOnSale, TLAPS

\* A request that is catching up a title.
Naming(r) == pc[r] \in {"rename", "renameRead", "renameLink"}

\* A request about to make a title-only write has one left to make; TypeOK
\* alone does not say so.
WriteBudget ==
  \A r \in Requests :
    /\ pc[r] = "rename" => writes[r] < NameWrites
    /\ ~Naming(r) => writes[r] = 0

\* Answering the browser leaves every request's locals in their types.
LEMMA ReturnTyped ==
  ASSUME RequestTypeOK, NEW r \in Requests, Return(r)
  PROVE  RequestTypeOK'
BY ConstantsAssumption DEF RequestTypeOK, Return, Stages, Titles

\* So does moving on to another await.
LEMMA GotoTyped ==
  ASSUME RequestTypeOK, NEW r \in Requests, NEW stage \in Stages,
         Goto(r, stage), Keep
  PROVE  RequestTypeOK'
BY DEF RequestTypeOK, Goto, Keep, local

\* Every step of a request keeps the page and Commerce in their types.
LEMMA PageStep ==
  ASSUME TypeOK, NEW r \in Requests,
         Begin(r) \/ Step(r) \/ PersonChanges(r) \/ Dies(r)
  PROVE  PageTypeOK'
<1> USE DEF TypeOK, PageTypeOK, pageVars, commerceVars, Events
<1>1. CASE Begin(r)
  BY <1>1 DEF Begin
<1>2. CASE ReadContent(r)
  BY <1>2 DEF ReadContent
<1>3. CASE ReadLink(r)
  BY <1>3 DEF ReadLink
<1>4. CASE Authorize(r)
  BY <1>4 DEF Authorize
<1>5. CASE TakeOffFirst(r)
  BY <1>5 DEF TakeOffFirst, OffSale, Applied
<1>6. CASE ChangePublish(r)
  BY <1>6 DEF ChangePublish, Publishes
<1>7. CASE ChangeWithdraw(r)
  BY <1>7 DEF ChangeWithdraw, Withdraws, Bypassed
<1>8. CASE OffAgain(r)
  BY <1>8 DEF OffAgain, OffSale, Applied, Warn
<1>9. CASE Plain(r)
  BY <1>9 DEF Plain, Publishes, Withdraws, Bypassed, Warn
<1>10. CASE Check(r)
  BY <1>10 DEF Check
<1>11. CASE PutOnSale(r)
  BY <1>11 DEF RequestTypeOK, PutOnSale, OnSale, Applied, Warn
<1>12. CASE ReadBack(r)
  BY <1>12 DEF ReadBack
<1>13. CASE LinkBack(r)
  BY <1>13 DEF LinkBack
<1>14. CASE TakeOff(r)
  BY <1>14 DEF TakeOff, OffSale, Applied
<1>15. CASE Rename(r)
  BY <1>15 DEF RequestTypeOK, Rename, Retry, Applied
<1>16. CASE RenameRead(r)
  BY <1>16 DEF RenameRead, Retry
<1>17. CASE RenameLink(r)
  BY <1>17 DEF RenameLink, Retry
<1>18. CASE Undo(r)
  BY <1>18 DEF Undo, ReadsPublished, Warn
<1>19. CASE UndoLink(r)
  BY <1>19 DEF UndoLink, Warn
<1>20. CASE DeletePage(r)
  BY <1>20 DEF DeletePage
<1>21. CASE Release(r)
  BY <1>21 DEF Release, Applied, Warn
<1>22. CASE PersonChanges(r)
  BY <1>22 DEF PersonChanges
<1>23. CASE Dies(r)
  BY <1>23 DEF Dies
<1> QED
  BY <1>1, <1>2, <1>3, <1>4, <1>5, <1>6, <1>7, <1>8, <1>9, <1>10, <1>11, <1>12, <1>13, <1>14, <1>15, <1>16, <1>17, <1>18, <1>19, <1>20, <1>21, <1>22, <1>23 DEF Step

\* And its own locals.
LEMMA RequestStep ==
  ASSUME TypeOK, WriteBudget, NEW r \in Requests,
         Begin(r) \/ Step(r) \/ PersonChanges(r) \/ Dies(r)
  PROVE  RequestTypeOK'
<1> USE DEF TypeOK, Stages
<1>1. CASE Begin(r)
  <2>1. PICK a \in Actions, m \in BOOLEAN :
          /\ action' = [action EXCEPT ![r] = a]
          /\ may' = [may EXCEPT ![r] = m]
          /\ Goto(r, IF a = "permanent" THEN "delete" ELSE "content")
    BY <1>1 DEF Begin
  <2>2. a \in {"publish", "unpublish", "trash", "permanent"}
    BY ConstantsAssumption
  <2>3. pc' \in [Requests -> Stages]
    BY <2>1 DEF Goto, RequestTypeOK
  <2> QED
    BY <1>1, <2>1, <2>2, <2>3 DEF Begin, RequestTypeOK
<1>2. CASE ReadContent(r)
  BY <1>2, ReturnTyped, GotoTyped DEF ReadContent, Unreadable
<1>3. CASE ReadLink(r)
  BY <1>3, ReturnTyped, GotoTyped, ConstantsAssumption DEF ReadLink, Unreadable, Linked, RequestTypeOK, PageTypeOK, Goto, Titles
<1>4. CASE Authorize(r)
  BY <1>4, ReturnTyped, GotoTyped DEF Authorize
<1>5. CASE TakeOffFirst(r)
  BY <1>5, ReturnTyped, GotoTyped, ConstantsAssumption DEF TakeOffFirst, RequestTypeOK, PageTypeOK, Goto, Titles
<1>6. CASE ChangePublish(r)
  BY <1>6, ReturnTyped, GotoTyped, ConstantsAssumption DEF ChangePublish, Publishes, RequestTypeOK, PageTypeOK, Goto, Titles
<1>7. CASE ChangeWithdraw(r)
  BY <1>7, ReturnTyped, GotoTyped DEF ChangeWithdraw
<1>8. CASE OffAgain(r)
  BY <1>8, ReturnTyped, GotoTyped DEF OffAgain
<1>9. CASE Plain(r)
  BY <1>9, ReturnTyped, GotoTyped DEF Plain
<1>10. CASE Check(r)
  BY <1>10, ReturnTyped, GotoTyped DEF Check
<1>11. CASE PutOnSale(r)
  BY <1>11, ReturnTyped, GotoTyped DEF PutOnSale
<1>12. CASE ReadBack(r)
  BY <1>12, ReturnTyped, GotoTyped, ConstantsAssumption DEF ReadBack, ReadsPublished, RequestTypeOK, PageTypeOK, Goto, Titles
<1>13. CASE LinkBack(r)
  BY <1>13, ReturnTyped, GotoTyped, ConstantsAssumption DEF LinkBack, RequestTypeOK, PageTypeOK, Goto, Titles
<1>14. CASE TakeOff(r)
  BY <1>14, ReturnTyped, GotoTyped DEF TakeOff
<1>15. CASE Rename(r)
  BY <1>15, ReturnTyped, GotoTyped, ConstantsAssumption DEF Rename, Retry, WriteBudget, Naming, RequestTypeOK, PageTypeOK, Goto, Titles
<1>16. CASE RenameRead(r)
  BY <1>16, ReturnTyped, GotoTyped, ConstantsAssumption DEF RenameRead, Retry, ReadsPublished, RequestTypeOK, PageTypeOK, Goto, Titles
<1>17. CASE RenameLink(r)
  BY <1>17, ReturnTyped, GotoTyped, ConstantsAssumption DEF RenameLink, Retry, RequestTypeOK, PageTypeOK, Goto, Titles
<1>18. CASE Undo(r)
  BY <1>18, ReturnTyped, GotoTyped, ConstantsAssumption DEF Undo, ReadsPublished, RequestTypeOK, PageTypeOK, Goto, Titles
<1>19. CASE UndoLink(r)
  BY <1>19, ReturnTyped, GotoTyped, ConstantsAssumption DEF UndoLink, RequestTypeOK, PageTypeOK, Goto, Titles
<1>20. CASE DeletePage(r)
  BY <1>20, ReturnTyped, GotoTyped DEF DeletePage
<1>21. CASE Release(r)
  BY <1>21, ReturnTyped, GotoTyped DEF Release
<1>22. CASE PersonChanges(r)
  BY <1>22, ReturnTyped, GotoTyped, ConstantsAssumption DEF PersonChanges, RequestTypeOK, PageTypeOK, Goto, Titles
<1>23. CASE Dies(r)
  BY <1>23, ReturnTyped, GotoTyped DEF Dies
<1> QED
  BY <1>1, <1>2, <1>3, <1>4, <1>5, <1>6, <1>7, <1>8, <1>9, <1>10, <1>11, <1>12, <1>13, <1>14, <1>15, <1>16, <1>17, <1>18, <1>19, <1>20, <1>21, <1>22, <1>23 DEF Step

\* The title-only writes of every request stay within their budget.
LEMMA BudgetStep ==
  ASSUME TypeOK, WriteBudget, NEW r \in Requests,
         Begin(r) \/ Step(r) \/ PersonChanges(r) \/ Dies(r)
  PROVE  WriteBudget'
<1> USE ConstantsAssumption DEF TypeOK, RequestTypeOK, WriteBudget, Naming
<1> SUFFICES ASSUME NEW q \in Requests
             PROVE  /\ pc'[q] = "rename" => writes'[q] < NameWrites
                    /\ ~Naming(q)' => writes'[q] = 0
  OBVIOUS
<1>1. CASE Return(r)
  BY <1>1 DEF Return
<1>3. CASE Begin(r)
  BY <1>3, <1>1 DEF Begin, Goto, Keep, local
<1>4. CASE ReadContent(r)
  BY <1>4, <1>1 DEF ReadContent, Unreadable, Goto, Keep, local
<1>5. CASE ReadLink(r)
  BY <1>5, <1>1 DEF ReadLink, Unreadable, Goto, Keep, local
<1>6. CASE Authorize(r)
  BY <1>6, <1>1 DEF Authorize, Goto, Keep, local
<1>7. CASE TakeOffFirst(r)
  BY <1>7, <1>1 DEF TakeOffFirst, Goto, Keep, local
<1>8. CASE ChangePublish(r)
  BY <1>8, <1>1 DEF ChangePublish, Goto, Keep, local
<1>9. CASE ChangeWithdraw(r)
  BY <1>9, <1>1 DEF ChangeWithdraw, Goto, Keep, local
<1>10. CASE OffAgain(r)
  BY <1>10, <1>1 DEF OffAgain, Goto, Keep, local
<1>11. CASE Plain(r)
  BY <1>11, <1>1 DEF Plain, Goto, Keep, local
<1>12. CASE Check(r)
  BY <1>12, <1>1 DEF Check, Goto, Keep, local
<1>13. CASE PutOnSale(r)
  BY <1>13, <1>1 DEF PutOnSale, Goto, Keep, local
<1>14. CASE ReadBack(r)
  BY <1>14, <1>1 DEF ReadBack, ReadsPublished, Goto, Keep, local
<1>15. CASE LinkBack(r)
  BY <1>15, <1>1 DEF LinkBack, Goto, Keep, local
<1>16. CASE TakeOff(r)
  BY <1>16, <1>1 DEF TakeOff, Goto, Keep, local
<1>17. CASE Rename(r)
  BY <1>17, <1>1 DEF Rename, Goto, Retry, Keep, local
<1>18. CASE RenameRead(r)
  BY <1>18, <1>1 DEF RenameRead, Goto, Retry, ReadsPublished, Keep, local
<1>19. CASE RenameLink(r)
  BY <1>19, <1>1 DEF RenameLink, Goto, Retry, Keep, local
<1>20. CASE Undo(r)
  BY <1>20, <1>1 DEF Undo, ReadsPublished, Goto, Keep, local
<1>21. CASE UndoLink(r)
  BY <1>21, <1>1 DEF UndoLink, Goto, Keep, local
<1>22. CASE DeletePage(r)
  BY <1>22, <1>1 DEF DeletePage, Goto, Keep, local
<1>23. CASE Release(r)
  BY <1>23, <1>1 DEF Release, Goto, Keep, local
<1>24. CASE PersonChanges(r)
  BY <1>24, <1>1 DEF PersonChanges, Goto, Keep, local
<1>25. CASE Dies(r)
  BY <1>25, <1>1 DEF Dies, Goto, Keep, local
<1> QED
  BY <1>3, <1>4, <1>5, <1>6, <1>7, <1>8, <1>9, <1>10, <1>11, <1>12, <1>13, <1>14, <1>15, <1>16, <1>17, <1>18, <1>19, <1>20, <1>21, <1>22, <1>23, <1>24, <1>25 DEF Step

\* Commerce sells a product through the page only while it links the page to
\* one, so an off-sale write for the page takes it off.
SellingLinked == selling # NoProduct => picked # NoProduct

IInv == TypeOK /\ WriteBudget /\ SellingLinked /\ OffSaleOwed

\* What the steps of a request do to the other requests: nothing.
LEMMA OthersKeep ==
  ASSUME RequestTypeOK, NEW r \in Requests,
         Begin(r) \/ Step(r) \/ PersonChanges(r) \/ Dies(r)
  PROVE  \A q \in Requests \ {r} :
           /\ pc'[q] = pc[q]
           /\ product'[q] = product[q]
           /\ tookOff'[q] = tookOff[q]
           /\ sent'[q] = sent[q]
           /\ seen'[q] = seen[q]
           /\ writes'[q] = writes[q]
<1> USE DEF RequestTypeOK, Return, Goto, Keep, local
<1>1. CASE Begin(r)
  BY <1>1 DEF Begin
<1>2. CASE ReadContent(r)
  BY <1>2 DEF ReadContent, Unreadable
<1>3. CASE ReadLink(r)
  BY <1>3 DEF ReadLink, Unreadable
<1>4. CASE Authorize(r)
  BY <1>4 DEF Authorize
<1>5. CASE TakeOffFirst(r)
  BY <1>5 DEF TakeOffFirst
<1>6. CASE ChangePublish(r)
  BY <1>6 DEF ChangePublish
<1>7. CASE ChangeWithdraw(r)
  BY <1>7 DEF ChangeWithdraw
<1>8. CASE OffAgain(r)
  BY <1>8 DEF OffAgain
<1>9. CASE Plain(r)
  BY <1>9 DEF Plain
<1>10. CASE Check(r)
  BY <1>10 DEF Check
<1>11. CASE PutOnSale(r)
  BY <1>11 DEF PutOnSale
<1>12. CASE ReadBack(r)
  BY <1>12 DEF ReadBack, ReadsPublished
<1>13. CASE LinkBack(r)
  BY <1>13 DEF LinkBack
<1>14. CASE TakeOff(r)
  BY <1>14 DEF TakeOff
<1>15. CASE Rename(r)
  BY <1>15 DEF Rename, Retry
<1>16. CASE RenameRead(r)
  BY <1>16 DEF RenameRead, Retry, ReadsPublished
<1>17. CASE RenameLink(r)
  BY <1>17 DEF RenameLink, Retry
<1>18. CASE Undo(r)
  BY <1>18 DEF Undo, ReadsPublished
<1>19. CASE UndoLink(r)
  BY <1>19 DEF UndoLink
<1>20. CASE DeletePage(r)
  BY <1>20 DEF DeletePage
<1>21. CASE Release(r)
  BY <1>21 DEF Release
<1>22. CASE PersonChanges(r)
  BY <1>22 DEF PersonChanges
<1>23. CASE Dies(r)
  BY <1>23 DEF Dies
<1> QED
  BY <1>1, <1>2, <1>3, <1>4, <1>5, <1>6, <1>7, <1>8, <1>9, <1>10, <1>11, <1>12, <1>13, <1>14, <1>15, <1>16, <1>17, <1>18, <1>19, <1>20, <1>21, <1>22, <1>23 DEF Step

\* A request's step keeps Commerce's link under a product on sale.
LEMMA LinkedStep ==
  ASSUME SellingLinked, NEW r \in Requests,
         Begin(r) \/ Step(r) \/ PersonChanges(r) \/ Dies(r)
  PROVE  SellingLinked'
<1> USE DEF SellingLinked, commerceVars
<1>1. CASE Begin(r)
  BY <1>1 DEF Begin
<1>2. CASE ReadContent(r)
  BY <1>2 DEF ReadContent
<1>3. CASE ReadLink(r)
  BY <1>3 DEF ReadLink
<1>4. CASE Authorize(r)
  BY <1>4 DEF Authorize
<1>5. CASE TakeOffFirst(r)
  BY <1>5 DEF TakeOffFirst, OffSale, Answers, AnswersIf, ForThisPage, Applied
<1>6. CASE ChangePublish(r)
  BY <1>6 DEF ChangePublish
<1>7. CASE ChangeWithdraw(r)
  BY <1>7 DEF ChangeWithdraw
<1>8. CASE OffAgain(r)
  BY <1>8 DEF OffAgain, OffSale, Answers, AnswersIf, ForThisPage, Applied
<1>9. CASE Plain(r)
  BY <1>9 DEF Plain
<1>10. CASE Check(r)
  BY <1>10 DEF Check
<1>11. CASE PutOnSale(r)
  BY <1>11 DEF PutOnSale, OnSale, Answers, AnswersIf, ForThisPage, Applied
<1>12. CASE ReadBack(r)
  BY <1>12 DEF ReadBack
<1>13. CASE LinkBack(r)
  BY <1>13 DEF LinkBack
<1>14. CASE TakeOff(r)
  BY <1>14 DEF TakeOff, OffSale, Answers, AnswersIf, ForThisPage, Applied
<1>15. CASE Rename(r)
  BY <1>15 DEF Rename, Retry
<1>16. CASE RenameRead(r)
  BY <1>16 DEF RenameRead, Retry
<1>17. CASE RenameLink(r)
  BY <1>17 DEF RenameLink, Retry
<1>18. CASE Undo(r)
  BY <1>18 DEF Undo
<1>19. CASE UndoLink(r)
  BY <1>19 DEF UndoLink
<1>20. CASE DeletePage(r)
  BY <1>20 DEF DeletePage
<1>21. CASE Release(r)
  BY <1>21 DEF Release, Answers, AnswersIf, ForThisPage, Applied
<1>22. CASE PersonChanges(r)
  BY <1>22 DEF PersonChanges
<1>23. CASE Dies(r)
  BY <1>23 DEF Dies
<1> QED
  BY <1>1, <1>2, <1>3, <1>4, <1>5, <1>6, <1>7, <1>8, <1>9, <1>10, <1>11, <1>12, <1>13, <1>14, <1>15, <1>16, <1>17, <1>18, <1>19, <1>20, <1>21, <1>22, <1>23 DEF Step

\* The heart of the argument: no step of a request leaves a product on sale
\* behind a page that is not published with nobody left to take it off.
LEMMA OwedStep ==
  ASSUME IInv, NEW r \in Requests,
         Begin(r) \/ Step(r) \/ PersonChanges(r) \/ Dies(r)
  PROVE  OffSaleOwed'
<1> SUFFICES ASSUME Exposed', log' \cap Excuses = {}
             PROVE  \E q \in Requests : Owes(q)'
  BY DEF OffSaleOwed, Owes
<1> USE DEF IInv, TypeOK, Excuses
\* The debt of another request is still there.
<1>1. ASSUME NEW q \in Requests \ {r}, Owes(q) PROVE Owes(q)'
  BY <1>1, OthersKeep DEF Owes
\* A page change or write that keeps the debt where it was.
<1>2. ASSUME Exposed, log \subseteq log', Owes(r) => Owes(r)'
      PROVE  \E q \in Requests : Owes(q)'
  BY <1>1, <1>2 DEF OffSaleOwed
<1>3. CASE Begin(r)
  BY <1>3, <1>2 DEF Begin, Exposed, Owes, pageVars, commerceVars, Goto, Keep, local, RequestTypeOK, SellingLinked
<1>4. CASE ReadContent(r)
  BY <1>4, <1>2 DEF ReadContent, Exposed, Owes, pageVars, commerceVars, Unreadable
<1>5. CASE ReadLink(r)
  BY <1>5, <1>2 DEF ReadLink, Exposed, Owes, pageVars, commerceVars, Unreadable, Goto, Keep, local, RequestTypeOK, SellingLinked
<1>6. CASE Authorize(r)
  BY <1>6, <1>2 DEF Authorize, Exposed, Owes, pageVars, commerceVars
<1>7. CASE TakeOffFirst(r)
  BY <1>7, <1>2 DEF TakeOffFirst, Exposed, Owes, pageVars, commerceVars, OffSale, Answers, AnswersIf, ForThisPage, Applied, Failed
<1>8. CASE ChangePublish(r)
  BY <1>8, <1>2 DEF ChangePublish, Exposed, Owes, pageVars, commerceVars, Publishes
<1>9. CASE ChangeWithdraw(r)
  BY <1>9, <1>2 DEF ChangeWithdraw, Exposed, Owes, pageVars, commerceVars, Withdraws, Bypassed, Goto, Keep, local, RequestTypeOK, SellingLinked
<1>10. CASE OffAgain(r)
  BY <1>10, <1>2 DEF OffAgain, Exposed, Owes, pageVars, commerceVars, OffSale, Answers, AnswersIf, ForThisPage, Applied, Failed, Warn, Goto, Keep, local, RequestTypeOK, SellingLinked
<1>11. CASE Plain(r)
  BY <1>11, <1>2 DEF Plain, Exposed, Owes, pageVars, commerceVars, Publishes, Withdraws, Bypassed, Warn
<1>12. CASE Check(r)
  BY <1>12, <1>2 DEF Check, Exposed, Owes, pageVars, commerceVars
<1>13. CASE PutOnSale(r)
  BY <1>13, <1>2 DEF PutOnSale, Exposed, Owes, pageVars, commerceVars, OnSale, Answers, AnswersIf, ForThisPage, Applied, Failed, Warn, Goto, Keep, local, RequestTypeOK, SellingLinked
<1>14. CASE ReadBack(r)
  BY <1>14, <1>2 DEF ReadBack, Exposed, Owes, pageVars, commerceVars, ReadsPublished, Goto, Keep, local, RequestTypeOK, SellingLinked
<1>15. CASE LinkBack(r)
  BY <1>15, <1>2 DEF LinkBack, Exposed, Owes, pageVars, commerceVars
<1>16. CASE TakeOff(r)
  BY <1>16, <1>2 DEF TakeOff, Exposed, Owes, pageVars, commerceVars, OffSale, Answers, AnswersIf, ForThisPage, Applied, Failed, Goto, Keep, local, RequestTypeOK, SellingLinked
<1>17. CASE Rename(r)
  BY <1>17, <1>2 DEF Rename, Exposed, Owes, pageVars, commerceVars, Retry
<1>18. CASE RenameRead(r)
  BY <1>18, <1>2 DEF RenameRead, Exposed, Owes, pageVars, commerceVars, Retry, ReadsPublished
<1>19. CASE RenameLink(r)
  BY <1>19, <1>2 DEF RenameLink, Exposed, Owes, pageVars, commerceVars, Retry
<1>20. CASE Undo(r)
  BY <1>20, <1>2 DEF Undo, Exposed, Owes, pageVars, commerceVars, ReadsPublished, Warn
<1>21. CASE UndoLink(r)
  BY <1>21, <1>2 DEF UndoLink, Exposed, Owes, pageVars, commerceVars, Warn
<1>22. CASE DeletePage(r)
  BY <1>22, <1>2 DEF DeletePage, Exposed, Owes, pageVars, commerceVars
<1>23. CASE Release(r)
  BY <1>23, <1>2 DEF Release, Exposed, Owes, pageVars, commerceVars, Answers, AnswersIf, ForThisPage, Applied, Failed, Warn, Goto, Keep, local, RequestTypeOK, SellingLinked
<1>24. CASE PersonChanges(r)
  BY <1>24, <1>2 DEF PersonChanges, Exposed, Owes, pageVars, commerceVars, Goto, Keep, local, RequestTypeOK, SellingLinked
<1>25. CASE Dies(r)
  BY <1>25, <1>2 DEF Dies, Exposed, Owes, pageVars, commerceVars
<1> QED
  BY <1>3, <1>4, <1>5, <1>6, <1>7, <1>8, <1>9, <1>10, <1>11, <1>12, <1>13, <1>14, <1>15, <1>16, <1>17, <1>18, <1>19, <1>20, <1>21, <1>22, <1>23, <1>24, <1>25 DEF Step

\* The steps beside the requests, and stuttering.
LEMMA OtherStep ==
  ASSUME IInv,
         \/ \E p \in Products : PanelPicks(p)
         \/ ScheduledPublish
         \/ RestorePage
         \/ UNCHANGED vars
  PROVE  IInv'
<1> USE ConstantsAssumption
    DEF IInv, TypeOK, PageTypeOK, RequestTypeOK, WriteBudget, Naming,
        SellingLinked, OffSaleOwed, Exposed, Owes, Excuses,
        pageVars, commerceVars, local
<1>1. ASSUME NEW p \in Products, PanelPicks(p) PROVE IInv'
  BY <1>1 DEF PanelPicks
<1>2. CASE ScheduledPublish
  BY <1>2 DEF ScheduledPublish, Publishes, Warn, Events
<1>3. CASE RestorePage
  BY <1>3 DEF RestorePage
<1>4. CASE UNCHANGED vars
  BY <1>4 DEF vars
<1> QED
  BY <1>1, <1>2, <1>3, <1>4

\* The invariant is inductive.
LEMMA Inductive == IInv /\ [Next]_vars => IInv'
<1> SUFFICES ASSUME IInv, [Next]_vars PROVE IInv'
  OBVIOUS
<1>1. ASSUME NEW r \in Requests,
             Begin(r) \/ Step(r) \/ PersonChanges(r) \/ Dies(r)
      PROVE  IInv'
  BY <1>1, PageStep, RequestStep, BudgetStep, LinkedStep, OwedStep DEF IInv, TypeOK
<1> QED
  BY <1>1, OtherStep DEF Next

\* And it holds at the start.
LEMMA Initially == Init => IInv
<1> SUFFICES ASSUME Init PROVE IInv
  OBVIOUS
<1> USE ConstantsAssumption DEF Init
<1>1. PageTypeOK
  <2>1. 1 \in Titles
    BY DEF Titles
  <2>2. status \in {"draft", "published"} /\ selling \in Products \cup {NoProduct}
    OBVIOUS
  <2>3. name \in {0, 1}
    OBVIOUS
  <2>4. log \subseteq Events
    BY DEF Events
  <2> QED
    BY <2>1, <2>2, <2>3, <2>4 DEF PageTypeOK
<1>2. RequestTypeOK
  BY DEF RequestTypeOK, Titles, Stages
<1>3. WriteBudget /\ SellingLinked
  BY DEF WriteBudget, Naming, SellingLinked
<1>4. OffSaleOwed
  BY DEF OffSaleOwed, Exposed
<1> QED
  BY <1>1, <1>2, <1>3, <1>4 DEF IInv, TypeOK

\* The page, Commerce and every request keep to their types, whatever number
\* of requests overlap; no request exceeds its title-only writes.
THEOREM TypeCorrect == Spec => []TypeOK
BY Initially, Inductive, PTL DEF Spec, IInv

\* While a product is on sale behind a page that is not published, some
\* request still has the read or write ahead of it that takes it off, unless
\* one of the Excuses happened.
THEOREM SaleOwed == Spec => []OffSaleOwed
BY Initially, Inductive, PTL DEF Spec, IInv

\* A store in which nothing fails: Commerce and the page can always be read
\* and written, no request is dropped, no product is picked meanwhile, the
\* page is no demonstration page, and pages are published and unpublished only.
Calm ==
  /\ Faults = {}
  /\ Actions \subseteq {"publish", "unpublish"}
  /\ Seed = NoProduct

\* The stages of a request that has found the page's product.
HasProduct == Stages \ {"idle", "content", "link", "plain"}

\* In a calm store no Excuse can happen: the page is always there to be read,
\* and an unpublish goes on without Commerce only if Commerce links the page
\* to nothing, hence sells nothing through it.
CalmInv ==
  /\ status \in {"draft", "published"}
  /\ log \cap Excuses = {}
  /\ \A r \in Requests :
       /\ action[r] \in {"publish", "unpublish"}
       /\ pc[r] \notin {"delete", "release"}
       /\ pc[r] = "plain" /\ action[r] = "unpublish" => picked = NoProduct
       /\ pc[r] \in HasProduct => product[r] \in Products

\* A request that meets no fault keeps the quiet-time invariant.
LEMMA CalmRequestStep ==
  ASSUME Calm, IInv, CalmInv, NEW r \in Requests,
         Begin(r) \/ Step(r) \/ PersonChanges(r) \/ Dies(r)
  PROVE  CalmInv'
<1> USE ConstantsAssumption
    DEF Calm, IInv, TypeOK, RequestTypeOK, SellingLinked, CalmInv, HasProduct,
        Stages, Excuses, Return, Goto, Keep, local, pageVars, commerceVars, Fault
<1>1. CASE Begin(r)
  BY <1>1 DEF Begin
<1>2. CASE ReadContent(r)
  BY <1>2 DEF ReadContent, Unreadable, Exists
<1>3. CASE ReadLink(r)
  <2>1. Linked = picked
    BY DEF Linked
  <2>2. CASE Linked # NoProduct
    <3>1. Linked \in Products
      BY <2>1, <2>2 DEF PageTypeOK
    <3> QED
      BY <1>3, <2>2, <3>1 DEF ReadLink
  <2>3. CASE Linked = NoProduct
    BY <1>3, <2>1, <2>3 DEF ReadLink
  <2> QED
    BY <2>2, <2>3
<1>4. CASE Authorize(r)
  BY <1>4 DEF Authorize
<1>5. CASE TakeOffFirst(r)
  BY <1>5 DEF TakeOffFirst, OffSale, Answers, AnswersIf, Failed
<1>6. CASE ChangePublish(r)
  BY <1>6 DEF ChangePublish, Publishes
<1>7. CASE ChangeWithdraw(r)
  BY <1>7 DEF ChangeWithdraw, Withdraws, Bypassed
<1>8. CASE OffAgain(r)
  BY <1>8 DEF OffAgain, OffSale, Answers, AnswersIf, Failed, Warn
<1>9. CASE Plain(r)
  BY <1>9 DEF Plain, Publishes, Withdraws, Bypassed, Warn
<1>10. CASE Check(r)
  BY <1>10 DEF Check
<1>11. CASE PutOnSale(r)
  BY <1>11 DEF PutOnSale, OnSale, Answers, AnswersIf, Failed, Warn
<1>12. CASE ReadBack(r)
  BY <1>12 DEF ReadBack, ReadsPublished
<1>13. CASE LinkBack(r)
  BY <1>13 DEF LinkBack
<1>14. CASE TakeOff(r)
  BY <1>14 DEF TakeOff, OffSale, Answers, AnswersIf, Failed
<1>15. CASE Rename(r)
  BY <1>15 DEF Rename, Retry
<1>16. CASE RenameRead(r)
  BY <1>16 DEF RenameRead, Retry, ReadsPublished
<1>17. CASE RenameLink(r)
  BY <1>17 DEF RenameLink, Retry
<1>18. CASE Undo(r)
  BY <1>18 DEF Undo, ReadsPublished, Warn
<1>19. CASE UndoLink(r)
  BY <1>19 DEF UndoLink, Warn
<1>20. CASE DeletePage(r)
  BY <1>20 DEF DeletePage
<1>21. CASE Release(r)
  BY <1>21 DEF Release
<1>22. CASE PersonChanges(r)
  BY <1>22 DEF PersonChanges
<1>23. CASE Dies(r)
  BY <1>23 DEF Dies, Fault
<1> QED
  BY <1>1, <1>2, <1>3, <1>4, <1>5, <1>6, <1>7, <1>8, <1>9, <1>10, <1>11, <1>12, <1>13, <1>14, <1>15, <1>16, <1>17, <1>18, <1>19, <1>20, <1>21, <1>22, <1>23 DEF Step

\* So does every step, when nothing fails and no page is trashed.
LEMMA CalmStep == Calm /\ IInv /\ CalmInv /\ [Next]_vars => CalmInv'
<1> SUFFICES ASSUME Calm, IInv, CalmInv, [Next]_vars PROVE CalmInv'
  OBVIOUS
<1>1. ASSUME NEW p \in Products, PanelPicks(p) PROVE CalmInv'
  BY <1>1 DEF PanelPicks, Fault, Calm
<1>2. CASE ScheduledPublish
  BY <1>2 DEF ScheduledPublish, Publishes, Warn, CalmInv, commerceVars, local, Excuses
<1>3. CASE RestorePage
  BY <1>3 DEF RestorePage, CalmInv
<1>4. CASE UNCHANGED vars
  BY <1>4 DEF vars, CalmInv
<1> QED
  BY <1>1, <1>2, <1>3, <1>4, CalmRequestStep DEF Next

\* In a store where nothing fails, and whose pages are published and
\* unpublished but not trashed, a product is never left buyable behind an
\* unpublished page, however many requests overlap.
THEOREM NothingLeftBuyable == Calm => (Spec => []NeverLeftBuyable)
<1>1. ASSUME Calm, Init PROVE CalmInv
  <2>1. log \cap Excuses = {}
    BY <1>1 DEF Init, Excuses
  <2>2. /\ status \in {"draft", "published"}
        /\ \A r \in Requests : action[r] = "publish" /\ pc[r] = "idle"
    BY <1>1 DEF Init
  <2> QED
    BY <2>1, <2>2 DEF CalmInv, HasProduct
<1>2. CalmInv /\ IInv => NeverLeftBuyable
  BY DEF CalmInv, IInv, OffSaleOwed, NeverLeftBuyable, Quiet, Owes
<1>3. ASSUME Calm PROVE Spec => []NeverLeftBuyable
  <2>1. Init => IInv /\ CalmInv
    BY <1>1, <1>3, Initially
  <2>2. IInv /\ CalmInv /\ [Next]_vars => (IInv /\ CalmInv)'
    BY <1>3, CalmStep, Inductive
  <2> QED
    BY <2>1, <2>2, <1>2, PTL DEF Spec
<1> QED
  BY <1>3

-----------------------------------------------------------------------------
(***************************************************************************)
(* A failed page change keeps the sale.  Whoever took the product off sale *)
(* remembers it, and has the page change or its undo still ahead of it.    *)
(***************************************************************************)
\* What tells that the sale was not kept, or not by the code.
Unkept == {"left", "draft", "dropped", "lostOn"}

\* A request that took the product off sale and has not put it back.
Restores(r) ==
  tookOff[r] /\ pc[r] \in {"change", "undo", "undoLink", "check", "on"}

\* A page stays published, and linked, until some page change takes effect.
StaysPublished ==
  /\ status # "published" => "left" \in log
  /\ picked = NoProduct => "left" \in log
  /\ \A r \in Requests : pc[r] \in {"offAgain", "release"} => "left" \in log

\* Only an unpublish or a trash of the page's own product takes it off first.
TakersOwn ==
  \A r \in Requests :
    /\ pc[r] = "off" => action[r] # "publish"
    /\ tookOff[r] => /\ product[r] # Seed
                     /\ action[r] # "publish"
                     /\ pc[r] \notin {"idle", "content", "link", "authorize",
                                      "off", "plain", "delete", "release"}

SaleKept ==
  log \cap Unkept = {} => selling # NoProduct \/ \E r \in Requests : Restores(r)

KInv == StaysPublished /\ TakersOwn /\ SaleKept

\* A request leaves the page published, and linked, or says it did not.
LEMMA PublishedStep ==
  ASSUME IInv, StaysPublished, NEW r \in Requests,
         Begin(r) \/ Step(r) \/ PersonChanges(r) \/ Dies(r)
  PROVE  StaysPublished'
<1> USE DEF IInv, TypeOK, RequestTypeOK, StaysPublished, Return, Goto, Keep,
            local, pageVars, commerceVars
<1>1. CASE Begin(r)
  BY <1>1 DEF Begin
<1>2. CASE ReadContent(r)
  BY <1>2 DEF ReadContent, Unreadable
<1>3. CASE ReadLink(r)
  BY <1>3 DEF ReadLink, Unreadable, Linked
<1>4. CASE Authorize(r)
  BY <1>4 DEF Authorize
<1>5. CASE TakeOffFirst(r)
  BY <1>5 DEF TakeOffFirst, OffSale, Answers, AnswersIf, ForThisPage, Applied, Failed
<1>6. CASE ChangePublish(r)
  BY <1>6 DEF ChangePublish, Publishes
<1>7. CASE ChangeWithdraw(r)
  BY <1>7 DEF ChangeWithdraw, Withdraws
<1>8. CASE OffAgain(r)
  BY <1>8 DEF OffAgain, OffSale, Warn
<1>9. CASE Plain(r)
  BY <1>9 DEF Plain, Publishes, Withdraws, Warn
<1>10. CASE Check(r)
  BY <1>10 DEF Check
<1>11. CASE PutOnSale(r)
  BY <1>11 DEF PutOnSale, OnSale, Answers, AnswersIf, ForThisPage, Applied, Failed, Warn
<1>12. CASE ReadBack(r)
  BY <1>12 DEF ReadBack, ReadsPublished
<1>13. CASE LinkBack(r)
  BY <1>13 DEF LinkBack
<1>14. CASE TakeOff(r)
  BY <1>14 DEF TakeOff, OffSale
<1>15. CASE Rename(r)
  BY <1>15 DEF Rename, Retry
<1>16. CASE RenameRead(r)
  BY <1>16 DEF RenameRead, Retry, ReadsPublished
<1>17. CASE RenameLink(r)
  BY <1>17 DEF RenameLink, Retry
<1>18. CASE Undo(r)
  BY <1>18 DEF Undo, ReadsPublished, Warn
<1>19. CASE UndoLink(r)
  BY <1>19 DEF UndoLink, Warn
<1>20. CASE DeletePage(r)
  BY <1>20 DEF DeletePage
<1>21. CASE Release(r)
  BY <1>21 DEF Release, Applied, Warn
<1>22. CASE PersonChanges(r)
  BY <1>22 DEF PersonChanges
<1>23. CASE Dies(r)
  BY <1>23 DEF Dies
<1> QED
  BY <1>1, <1>2, <1>3, <1>4, <1>5, <1>6, <1>7, <1>8, <1>9, <1>10, <1>11, <1>12,
     <1>13, <1>14, <1>15, <1>16, <1>17, <1>18, <1>19, <1>20, <1>21, <1>22,
     <1>23 DEF Step

\* A request that takes the product off first knows what it took.
LEMMA TakersStep ==
  ASSUME IInv, TakersOwn, NEW r \in Requests,
         Begin(r) \/ Step(r) \/ PersonChanges(r) \/ Dies(r)
  PROVE  TakersOwn'
<1> USE DEF IInv, TypeOK, RequestTypeOK, TakersOwn, Return, Goto, Keep, local
<1>1. CASE Begin(r)
  BY <1>1 DEF Begin
<1>2. CASE ReadContent(r)
  BY <1>2 DEF ReadContent, Unreadable
<1>3. CASE ReadLink(r)
  BY <1>3 DEF ReadLink, Unreadable, Linked
<1>4. CASE Authorize(r)
  BY <1>4 DEF Authorize
<1>5. CASE TakeOffFirst(r)
  BY <1>5 DEF TakeOffFirst, OffSale, Answers, AnswersIf, ForThisPage, Applied, Failed
<1>6. CASE ChangePublish(r)
  BY <1>6 DEF ChangePublish, Publishes
<1>7. CASE ChangeWithdraw(r)
  BY <1>7 DEF ChangeWithdraw, Withdraws
<1>8. CASE OffAgain(r)
  BY <1>8 DEF OffAgain, OffSale, Warn
<1>9. CASE Plain(r)
  BY <1>9 DEF Plain, Publishes, Withdraws, Warn
<1>10. CASE Check(r)
  BY <1>10 DEF Check
<1>11. CASE PutOnSale(r)
  BY <1>11 DEF PutOnSale, OnSale, Answers, AnswersIf, ForThisPage, Applied, Failed, Warn
<1>12. CASE ReadBack(r)
  BY <1>12 DEF ReadBack, ReadsPublished
<1>13. CASE LinkBack(r)
  BY <1>13 DEF LinkBack
<1>14. CASE TakeOff(r)
  BY <1>14 DEF TakeOff, OffSale
<1>15. CASE Rename(r)
  BY <1>15 DEF Rename, Retry
<1>16. CASE RenameRead(r)
  BY <1>16 DEF RenameRead, Retry, ReadsPublished
<1>17. CASE RenameLink(r)
  BY <1>17 DEF RenameLink, Retry
<1>18. CASE Undo(r)
  BY <1>18 DEF Undo, ReadsPublished, Warn
<1>19. CASE UndoLink(r)
  BY <1>19 DEF UndoLink, Warn
<1>20. CASE DeletePage(r)
  BY <1>20 DEF DeletePage
<1>21. CASE Release(r)
  BY <1>21 DEF Release, Applied, Warn
<1>22. CASE PersonChanges(r)
  BY <1>22 DEF PersonChanges
<1>23. CASE Dies(r)
  BY <1>23 DEF Dies
<1> QED
  BY <1>1, <1>2, <1>3, <1>4, <1>5, <1>6, <1>7, <1>8, <1>9, <1>10, <1>11, <1>12,
     <1>13, <1>14, <1>15, <1>16, <1>17, <1>18, <1>19, <1>20, <1>21, <1>22,
     <1>23 DEF Step

\* The sale goes only to a request that remembers it; an answer that is lost
\* would leave the product off sale with nobody told.
LEMMA SaleKeptStep ==
  ASSUME "lost" \notin Faults, IInv, KInv, NEW r \in Requests,
         Begin(r) \/ Step(r) \/ PersonChanges(r) \/ Dies(r)
  PROVE  SaleKept'
<1> SUFFICES ASSUME log' \cap Unkept = {}, selling' = NoProduct
             PROVE  \E q \in Requests : Restores(q)'
  BY DEF SaleKept, Restores
\* What another request remembers it still does.
<1>0. ASSUME NEW q \in Requests \ {r}, Restores(q) PROVE Restores(q)'
  BY <1>0, OthersKeep DEF IInv, TypeOK, Restores
\* A step that takes nothing off and forgets nothing.
<1>a. ASSUME selling = NoProduct, log \subseteq log', Restores(r) => Restores(r)'
      PROVE  \E q \in Requests : Restores(q)'
  BY <1>0, <1>a DEF KInv, SaleKept
<1> USE DEF IInv, TypeOK, RequestTypeOK, KInv, StaysPublished, TakersOwn,
            Unkept, Restores, Return, Goto, Keep, local, pageVars, commerceVars
<1>1. CASE Begin(r)
  BY <1>1, <1>a DEF Begin
<1>2. CASE ReadContent(r)
  BY <1>2, <1>a DEF ReadContent, Unreadable
<1>3. CASE ReadLink(r)
  BY <1>3, <1>a DEF ReadLink, Unreadable
<1>4. CASE Authorize(r)
  BY <1>4, <1>a DEF Authorize
<1>5. CASE TakeOffFirst(r)
  <2>1. PICK answer \in Answers(r) :
          /\ pc[r] = "off"
          /\ selling' = IF Applied(answer) THEN NoProduct ELSE selling
          /\ log' = log
          /\ IF Failed(answer)
             THEN Return(r)
             ELSE /\ tookOff' = [tookOff EXCEPT ![r] =
                                  answer = "done" /\ selling # NoProduct]
                  /\ Goto(r, "change")
    BY <1>5 DEF TakeOffFirst, OffSale
  <2>2. answer \in {"done", "notThisPages", "refused"}
    BY <2>1 DEF Answers, AnswersIf
  <2>3. CASE answer = "done" /\ selling # NoProduct
    <3>1. Restores(r)'
      BY <2>1, <2>3 DEF Failed
    <3> QED BY <3>1
  <2>4. CASE ~(answer = "done" /\ selling # NoProduct)
    <3>1. selling = NoProduct
      BY <2>1, <2>2, <2>4 DEF Applied
    <3> QED BY <1>a, <2>1, <3>1
  <2> QED BY <2>3, <2>4
<1>6. CASE ChangePublish(r)
  BY <1>6, <1>a DEF ChangePublish
<1>7. CASE ChangeWithdraw(r)
  BY <1>7, <1>a DEF ChangeWithdraw, Withdraws
<1>8. CASE OffAgain(r)
  BY <1>8, <1>a DEF OffAgain, OffSale, Warn
<1>9. CASE Plain(r)
  BY <1>9, <1>a DEF Plain, Warn
<1>10. CASE Check(r)
  BY <1>10, <1>a DEF Check
<1>11. CASE PutOnSale(r)
  <2>1. PICK answer \in Answers(r) :
          /\ pc[r] = "on"
          /\ selling' = IF Applied(answer) THEN picked ELSE selling
          /\ Failed(answer) => "draft" \in log'
          /\ log \subseteq log'
    BY <1>11 DEF PutOnSale, OnSale, Warn
  <2>2. ~Failed(answer) /\ picked # NoProduct
    BY <2>1
  <2>3. answer = "notThisPages"
    BY <2>1, <2>2 DEF Answers, AnswersIf, Applied, Failed
  <2>4. product[r] = Seed
    BY <2>2, <2>3 DEF Answers, AnswersIf, ForThisPage
  <2>5. selling = NoProduct /\ ~tookOff[r]
    BY <2>1, <2>3, <2>4 DEF Applied
  <2> QED BY <1>a, <2>1, <2>5
<1>12. CASE ReadBack(r)
  BY <1>12, <1>a DEF ReadBack, ReadsPublished
<1>13. CASE LinkBack(r)
  BY <1>13, <1>a DEF LinkBack
<1>14. CASE TakeOff(r)
  BY <1>14, <1>a DEF TakeOff, OffSale
<1>15. CASE Rename(r)
  BY <1>15, <1>a DEF Rename, Retry
<1>16. CASE RenameRead(r)
  BY <1>16, <1>a DEF RenameRead, Retry, ReadsPublished
<1>17. CASE RenameLink(r)
  BY <1>17, <1>a DEF RenameLink, Retry
<1>18. CASE Undo(r)
  BY <1>18, <1>a DEF Undo, ReadsPublished, Warn
<1>19. CASE UndoLink(r)
  BY <1>19, <1>a DEF UndoLink, Warn
<1>20. CASE DeletePage(r)
  BY <1>20, <1>a DEF DeletePage
<1>21. CASE Release(r)
  BY <1>21, <1>a DEF Release, Applied, Warn
<1>22. CASE PersonChanges(r)
  BY <1>22, <1>a DEF PersonChanges
<1>23. CASE Dies(r)
  BY <1>23, <1>a DEF Dies
<1> QED
  BY <1>1, <1>2, <1>3, <1>4, <1>5, <1>6, <1>7, <1>8, <1>9, <1>10, <1>11, <1>12,
     <1>13, <1>14, <1>15, <1>16, <1>17, <1>18, <1>19, <1>20, <1>21, <1>22,
     <1>23 DEF Step

\* What runs beside the requests touches neither the sale nor who took it.
LEMMA KeptBeside ==
  ASSUME IInv, KInv,
         \/ \E p \in Products : PanelPicks(p)
         \/ ScheduledPublish
         \/ RestorePage
         \/ UNCHANGED vars
  PROVE  KInv'
<1> USE DEF KInv, StaysPublished, TakersOwn, SaleKept, Restores, Unkept,
            pageVars, commerceVars, local
<1>1. ASSUME NEW p \in Products, PanelPicks(p) PROVE KInv'
  <2>1. p # NoProduct
    BY ConstantsAssumption
  <2> QED BY <1>1, <2>1 DEF PanelPicks
<1>2. CASE ScheduledPublish
  BY <1>2 DEF ScheduledPublish, Publishes, Warn
<1>3. CASE RestorePage
  BY <1>3 DEF RestorePage
<1>4. CASE UNCHANGED vars
  BY <1>4 DEF vars
<1> QED BY <1>1, <1>2, <1>3, <1>4

\* At the start nothing has been taken off.
LEMMA InitKept == Init => KInv
BY ConstantsAssumption DEF Init, KInv, StaysPublished, TakersOwn, SaleKept, Unkept

\* "If the page change fails after Commerce took the product off sale, the
\* product goes back on sale", however many requests overlap and whatever else
\* fails, unless Commerce's answer to a write that it applied is lost.
THEOREM SaleRestored ==
  "lost" \notin Faults => (Spec => []FailedChangeKeepsSale)
<1>1. ASSUME "lost" \notin Faults PROVE Spec => []FailedChangeKeepsSale
  <2>1. Init => IInv /\ KInv
    BY Initially, InitKept
  <2>2. IInv /\ KInv /\ [Next]_vars => (IInv /\ KInv)'
    <3> SUFFICES ASSUME IInv, KInv, [Next]_vars PROVE KInv'
      BY Inductive
    <3>1. ASSUME NEW r \in Requests,
                 Begin(r) \/ Step(r) \/ PersonChanges(r) \/ Dies(r)
          PROVE  KInv'
      BY <1>1, <3>1, PublishedStep, TakersStep, SaleKeptStep DEF KInv
    <3> QED BY <3>1, KeptBeside DEF Next
  <2>3. KInv => FailedChangeKeepsSale
    BY DEF KInv, SaleKept, Restores, Unkept, FailedChangeKeepsSale, Quiet
  <2> QED BY <2>1, <2>2, <2>3, PTL DEF Spec
<1> QED BY <1>1
-----------------------------------------------------------------------------
(***************************************************************************)
(* The newest title.  Whoever wrote the name last still has the published  *)
(* title to read, or read it after that write and found the name it wrote. *)
(***************************************************************************)
\* A request that has asked Commerce to put the page's product on sale.
Wrote == {"readBack", "linkBack", "takeOff", "rename", "renameRead",
          "renameLink"}

\* Before a picked product, one that is released, or the seed's.
Linking == Stages \ {"idle", "content", "link", "plain", "delete", "release"}

\* A title that did not go to Commerce, or a request that did not go on.
Untold == {"untold", "dropped", "offFailed"}

\* A request for the seed's product is answered that it is not this page's.
SeedUntold ==
  \A r \in Requests : pc[r] \in Wrote /\ product[r] = Seed => "untold" \in log

\* While the panel picks nothing, a request's product is the page's.
ProductLinked ==
  \A r \in Requests :
    pc[r] \in Linking => product[r] \in {Seed, picked} \/ picked = NoProduct

\* A request that is yet to write a name, or to find one that is not newest.
Chases(r) ==
  \/ pc[r] \in {"check", "on", "rename", "takeOff"}
  \/ pc[r] \in {"readBack", "renameRead"} /\ sent[r] \in {0, name}
  \/ pc[r] \in {"linkBack", "renameLink"} /\ seen[r] # sent[r]

Told == selling # NoProduct /\ status = "published" /\ log \cap Untold = {}

TitleChased ==
  Told => name = title \/ retitle \/ \E r \in Requests : Chases(r)

NInv == SeedUntold /\ ProductLinked /\ TitleChased

\* What is sold is this page's, as far as a request can tell.
SteadyLink ==
  /\ "relink" \notin Faults
  /\ Seed = NoProduct \/ "unread" \notin Faults

\* Every step keeps the log true of requests for the seed's product.
LEMMA SeedUntoldStep ==
  ASSUME IInv, SeedUntold, NEW r \in Requests,
         Begin(r) \/ Step(r) \/ PersonChanges(r) \/ Dies(r)
  PROVE  SeedUntold'
<1> USE DEF IInv, TypeOK, RequestTypeOK, SeedUntold, Wrote, Return, Goto, Keep,
            local
<1>1. CASE Begin(r)
  BY <1>1 DEF Begin
<1>2. CASE ReadContent(r)
  BY <1>2 DEF ReadContent, Unreadable
<1>3. CASE ReadLink(r)
  BY <1>3 DEF ReadLink, Unreadable
<1>4. CASE Authorize(r)
  BY <1>4 DEF Authorize
<1>5. CASE TakeOffFirst(r)
  BY <1>5 DEF TakeOffFirst
<1>6. CASE ChangePublish(r)
  BY <1>6 DEF ChangePublish
<1>7. CASE ChangeWithdraw(r)
  BY <1>7 DEF ChangeWithdraw
<1>8. CASE OffAgain(r)
  BY <1>8 DEF OffAgain, Warn
<1>9. CASE Plain(r)
  BY <1>9 DEF Plain, Warn
<1>10. CASE Check(r)
  BY <1>10 DEF Check
<1>11. CASE PutOnSale(r)
  BY <1>11 DEF PutOnSale, Answers, AnswersIf, ForThisPage, Applied, Failed, Warn
<1>12. CASE ReadBack(r)
  BY <1>12 DEF ReadBack, ReadsPublished
<1>13. CASE LinkBack(r)
  BY <1>13 DEF LinkBack
<1>14. CASE TakeOff(r)
  BY <1>14 DEF TakeOff
<1>15. CASE Rename(r)
  BY <1>15 DEF Rename, Retry
<1>16. CASE RenameRead(r)
  BY <1>16 DEF RenameRead, Retry, ReadsPublished
<1>17. CASE RenameLink(r)
  BY <1>17 DEF RenameLink, Retry
<1>18. CASE Undo(r)
  BY <1>18 DEF Undo, ReadsPublished, Warn
<1>19. CASE UndoLink(r)
  BY <1>19 DEF UndoLink, Warn
<1>20. CASE DeletePage(r)
  BY <1>20 DEF DeletePage
<1>21. CASE Release(r)
  BY <1>21 DEF Release, Warn
<1>22. CASE PersonChanges(r)
  BY <1>22 DEF PersonChanges
<1>23. CASE Dies(r)
  BY <1>23 DEF Dies
<1> QED
  BY <1>1, <1>2, <1>3, <1>4, <1>5, <1>6, <1>7, <1>8, <1>9, <1>10, <1>11, <1>12,
     <1>13, <1>14, <1>15, <1>16, <1>17, <1>18, <1>19, <1>20, <1>21, <1>22,
     <1>23 DEF Step

\* Every step of a request keeps its product the page's.
LEMMA ProductLinkedStep ==
  ASSUME IInv, ProductLinked, NEW r \in Requests,
         Begin(r) \/ Step(r) \/ PersonChanges(r) \/ Dies(r)
  PROVE  ProductLinked'
<1> USE DEF IInv, TypeOK, RequestTypeOK, ProductLinked, Linking, Stages, Return,
            Goto, Keep, local, commerceVars
<1>1. CASE Begin(r)
  BY <1>1 DEF Begin
<1>2. CASE ReadContent(r)
  BY <1>2 DEF ReadContent, Unreadable
<1>3. CASE ReadLink(r)
  BY <1>3 DEF ReadLink, Unreadable, Linked
<1>4. CASE Authorize(r)
  BY <1>4 DEF Authorize
<1>5. CASE TakeOffFirst(r)
  BY <1>5 DEF TakeOffFirst, OffSale
<1>6. CASE ChangePublish(r)
  BY <1>6 DEF ChangePublish
<1>7. CASE ChangeWithdraw(r)
  BY <1>7 DEF ChangeWithdraw
<1>8. CASE OffAgain(r)
  BY <1>8 DEF OffAgain, OffSale
<1>9. CASE Plain(r)
  BY <1>9 DEF Plain
<1>10. CASE Check(r)
  BY <1>10 DEF Check
<1>11. CASE PutOnSale(r)
  BY <1>11 DEF PutOnSale, OnSale
<1>12. CASE ReadBack(r)
  BY <1>12 DEF ReadBack, ReadsPublished
<1>13. CASE LinkBack(r)
  BY <1>13 DEF LinkBack
<1>14. CASE TakeOff(r)
  BY <1>14 DEF TakeOff, OffSale
<1>15. CASE Rename(r)
  BY <1>15 DEF Rename, Retry
<1>16. CASE RenameRead(r)
  BY <1>16 DEF RenameRead, Retry, ReadsPublished
<1>17. CASE RenameLink(r)
  BY <1>17 DEF RenameLink, Retry
<1>18. CASE Undo(r)
  BY <1>18 DEF Undo, ReadsPublished
<1>19. CASE UndoLink(r)
  BY <1>19 DEF UndoLink
<1>20. CASE DeletePage(r)
  BY <1>20 DEF DeletePage
<1>21. CASE Release(r)
  BY <1>21 DEF Release
<1>22. CASE PersonChanges(r)
  BY <1>22 DEF PersonChanges
<1>23. CASE Dies(r)
  BY <1>23 DEF Dies
<1> QED
  BY <1>1, <1>2, <1>3, <1>4, <1>5, <1>6, <1>7, <1>8, <1>9, <1>10, <1>11, <1>12,
     <1>13, <1>14, <1>15, <1>16, <1>17, <1>18, <1>19, <1>20, <1>21, <1>22,
     <1>23 DEF Step

\* No request leaves the name behind the title with nobody to catch it up.
\* What the store has warned about stays warned about.
LEMMA LogGrows ==
  ASSUME NEW r \in Requests, Begin(r) \/ Step(r) \/ PersonChanges(r) \/ Dies(r)
  PROVE  log \subseteq log'
BY DEF Step, Begin, ReadContent, ReadLink, Authorize, TakeOffFirst,
   ChangePublish, ChangeWithdraw, OffAgain, Plain, Check, PutOnSale, ReadBack,
   LinkBack, TakeOff, Rename, RenameRead, RenameLink, Undo, UndoLink,
   DeletePage, Release, PersonChanges, Dies, ReadsPublished, Warn

\* Every step of a request leaves an old title to be chased by someone.
LEMMA TitleChasedStep ==
  ASSUME SteadyLink, IInv, NInv, NEW r \in Requests,
         Begin(r) \/ Step(r) \/ PersonChanges(r) \/ Dies(r)
  PROVE  TitleChased'
<1> SUFFICES ASSUME Told', name' # title', retitle' = FALSE
             PROVE  \E q \in Requests : Chases(q)'
  BY Inductive DEF TitleChased, Next, IInv, TypeOK, PageTypeOK
\* A request that still chases the title, or takes that over, is enough.
<1>a. ASSUME Chases(r)' PROVE \E q \in Requests : Chases(q)'
  BY <1>a
\* The other requests chase what they chased while the name stays.
<1>b. ASSUME Told, UNCHANGED <<name, title>>, retitle' = retitle,
             Chases(r) => Chases(r)'
      PROVE  \E q \in Requests : Chases(q)'
  <2>1. \A q \in Requests \ {r} : Chases(q) => Chases(q)'
    BY <1>b, OthersKeep DEF IInv, TypeOK, Chases
  <2>2. \E q \in Requests : Chases(q)
    BY <1>b DEF NInv, TitleChased
  <2> QED BY <1>b, <2>1, <2>2
\* Commerce sells this page's product, so it knows the page's requests.
<1>c. ASSUME pc[r] \in Wrote, UNCHANGED picked
      PROVE  product[r] = picked /\ ForThisPage(r)
  <2>1. selling' # NoProduct => picked' # NoProduct
    BY LinkedStep DEF IInv, SellingLinked
  <2>2. picked # NoProduct
    BY <1>c, <2>1 DEF Told
  <2>3. "untold" \notin log
    BY LogGrows DEF Told, Untold
  <2>4. product[r] # Seed
    BY <1>c, <2>3 DEF NInv, SeedUntold
  <2>5. pc[r] \in Linking
    BY <1>c DEF Wrote, Linking, Stages
  <2> QED BY <2>2, <2>4, <2>5 DEF NInv, ProductLinked, ForThisPage
<1>d. title \in Titles /\ 0 \notin Titles
  BY DEF IInv, TypeOK, PageTypeOK, Titles
<1> USE DEF IInv, TypeOK, RequestTypeOK, Told, Untold, Chases, Return, Goto,
            Keep, local, pageVars, commerceVars
<1>1. CASE Begin(r)
  BY <1>1, <1>a, <1>b DEF Begin
<1>2. CASE ReadContent(r)
  BY <1>2, <1>a, <1>b DEF ReadContent, Unreadable
<1>3. CASE ReadLink(r)
  BY <1>3, <1>a, <1>b DEF ReadLink, Unreadable
<1>4. CASE Authorize(r)
  BY <1>4, <1>a, <1>b DEF Authorize
<1>5. CASE TakeOffFirst(r)
  BY <1>5, <1>a, <1>b DEF TakeOffFirst, OffSale
<1>6. CASE ChangePublish(r)
  BY <1>6, <1>a, <1>b DEF ChangePublish, Publishes
<1>7. CASE ChangeWithdraw(r)
  BY <1>7, <1>a, <1>b DEF ChangeWithdraw, Withdraws
<1>8. CASE OffAgain(r)
  BY <1>8, <1>a, <1>b DEF OffAgain, OffSale, Warn
<1>9. CASE Plain(r)
  BY <1>9, <1>a, <1>b DEF Plain, Publishes, Withdraws, Warn
<1>10. CASE Check(r)
  BY <1>10, <1>a, <1>b DEF Check
<1>11. CASE PutOnSale(r)
  BY <1>11, <1>a, <1>b DEF PutOnSale, OnSale, Answers, AnswersIf, Applied, Failed, Warn
<1>12. CASE ReadBack(r)
  <2>1. CASE ReadsPublished(r, "linkBack")
    <3>1. Chases(r) => Chases(r)'
      BY <1>12, <1>d, <2>1 DEF ReadBack, ReadsPublished
    <3> QED BY <1>12, <1>b, <2>1, <3>1 DEF ReadBack
  <2>2. CASE Goto(r, "takeOff") /\ Keep
    BY <1>a, <2>2
  <2> QED BY <1>12, <2>1, <2>2 DEF ReadBack
<1>13. CASE LinkBack(r)
  BY <1>13, <1>a, <1>b DEF LinkBack
<1>14. CASE TakeOff(r)
  <2>1. PICK answer \in Answers(r) :
          /\ pc[r] = "takeOff"
          /\ picked' = picked
          /\ selling' = IF Applied(answer) THEN NoProduct ELSE selling
          /\ Failed(answer) => "offFailed" \in log'
    BY <1>14 DEF TakeOff, OffSale
  <2>2. ForThisPage(r)
    BY <1>c, <2>1 DEF Wrote
  <2>3. answer \in {"done", "refused", "lost"}
    BY <2>1, <2>2 DEF Answers, AnswersIf
  <2> QED BY <2>1, <2>3 DEF Applied, Failed
<1>15. CASE Rename(r)
  <2>1. PICK answer \in Answers(r) :
          /\ pc[r] = "rename"
          /\ picked' = picked
          /\ name' = IF Applied(answer) THEN sent[r] ELSE name
          /\ ~Failed(answer) /\ Goto(r, "renameRead") /\ sent' = sent
    BY <1>15 DEF Rename, Retry
  <2>2. ForThisPage(r)
    BY <1>c, <2>1 DEF Wrote
  <2>3. answer = "done"
    BY <2>1, <2>2 DEF Answers, AnswersIf, Failed
  <2>4. name' = sent'[r] /\ pc'[r] = "renameRead"
    BY <2>1, <2>3 DEF Applied
  <2> QED BY <1>a, <2>4
<1>16. CASE RenameRead(r)
  <2>1. ReadsPublished(r, "renameLink") /\ retitle' = retitle
    BY <1>16 DEF RenameRead, Retry
  <2>2. Chases(r) => Chases(r)'
    BY <1>16, <1>d, <2>1 DEF RenameRead, ReadsPublished
  <2> QED BY <1>16, <1>b, <2>1, <2>2 DEF RenameRead, ReadsPublished
<1>17. CASE RenameLink(r)
  <2>1. pc[r] = "renameLink" /\ UNCHANGED <<picked, name, title, log, retitle>>
    BY <1>17 DEF RenameLink, Retry
  <2>2. product[r] = picked /\ Linked = picked
    BY <1>c, <2>1 DEF Wrote, Linked, ForThisPage
  <2>3. ~(Fault("unread") /\ Seed \notin {NoProduct, product[r]})
    BY DEF SteadyLink, Fault
  <2>4. seen[r] = sent[r] \/ Goto(r, "rename")
    BY <1>17, <2>1, <2>2, <2>3 DEF RenameLink, Retry
  <2>5. CASE seen[r] = sent[r]
    <3>1. ~Chases(r)
      BY <2>1, <2>5
    <3> QED BY <1>17, <1>b, <2>1, <3>1 DEF RenameLink
  <2> QED BY <1>a, <2>4, <2>5
<1>18. CASE Undo(r)
  BY <1>18, <1>a, <1>b DEF Undo, ReadsPublished, Warn
<1>19. CASE UndoLink(r)
  BY <1>19, <1>a, <1>b DEF UndoLink, Warn
<1>20. CASE DeletePage(r)
  BY <1>20, <1>a, <1>b DEF DeletePage
<1>21. CASE Release(r)
  BY <1>21, <1>a, <1>b DEF Release, Applied, Warn
<1>22. CASE PersonChanges(r)
  BY <1>22, <1>a, <1>b DEF PersonChanges
<1>23. CASE Dies(r)
  BY <1>23, <1>a, <1>b DEF Dies
<1> QED
  BY <1>1, <1>2, <1>3, <1>4, <1>5, <1>6, <1>7, <1>8, <1>9, <1>10, <1>11, <1>12,
     <1>13, <1>14, <1>15, <1>16, <1>17, <1>18, <1>19, <1>20, <1>21, <1>22,
     <1>23 DEF Step

\* What runs beside the requests tells nobody, or changes nothing of it.
LEMMA ChasedBeside ==
  ASSUME SteadyLink, IInv, NInv,
         \/ \E p \in Products : PanelPicks(p)
         \/ ScheduledPublish
         \/ RestorePage
         \/ UNCHANGED vars
  PROVE  NInv'
<1> USE DEF NInv, SeedUntold, ProductLinked, TitleChased, Told, Untold, Chases,
            Wrote, Linking, pageVars, commerceVars, local
<1>1. ASSUME NEW p \in Products, PanelPicks(p) PROVE NInv'
  BY <1>1 DEF PanelPicks, Fault, SteadyLink
<1>2. CASE ScheduledPublish
  BY <1>2 DEF ScheduledPublish, Warn
<1>3. CASE RestorePage
  BY <1>3 DEF RestorePage
<1>4. CASE UNCHANGED vars
  BY <1>4 DEF vars
<1> QED BY <1>1, <1>2, <1>3, <1>4

\* No title is old at the start.
LEMMA InitChased == Init => NInv
BY DEF Init, NInv, SeedUntold, ProductLinked, TitleChased, Told, Wrote, Linking

\* "Whichever request reads last settles on the newest title", however many
\* requests overlap and whatever fails, while the panel picks no other product
\* and a failed link read is not answered with a demonstration id.
THEOREM NewestSettles == SteadyLink => (Spec => []NewestTitle)
<1>1. ASSUME SteadyLink PROVE Spec => []NewestTitle
  <2>1. Init => IInv /\ NInv
    BY Initially, InitChased
  <2>2. IInv /\ NInv /\ [Next]_vars => (IInv /\ NInv)'
    <3> SUFFICES ASSUME IInv, NInv, [Next]_vars PROVE NInv'
      BY Inductive
    <3>1. ASSUME NEW r \in Requests,
                 Begin(r) \/ Step(r) \/ PersonChanges(r) \/ Dies(r)
          PROVE  NInv'
      BY <1>1, <3>1, SeedUntoldStep, ProductLinkedStep, TitleChasedStep DEF NInv
    <3> QED BY <1>1, <3>1, ChasedBeside DEF Next
  <2>3. NInv => NewestTitle
    BY DEF NInv, TitleChased, Told, Untold, Chases, NewestTitle, Quiet
  <2> QED BY <2>1, <2>2, <2>3, PTL DEF Spec
<1> QED BY <1>1
-----------------------------------------------------------------------------
(***************************************************************************)
(* What ExposureEnds rests on beside fairness: a request in flight always  *)
(* has a step to make, it makes a bounded number of them, and nothing that *)
(* runs beside it, however often, sets it back.                            *)
(***************************************************************************)
\* The guards of Step(r), at the awaits where they ask for more than the await.
CanGoOn(r) ==
  /\ pc[r] \in Stages \ {"idle"}
  /\ pc[r] = "change" => action[r] \in {"publish", "unpublish", "trash"}
  /\ pc[r] \in {"off", "offAgain", "on", "takeOff", "release"} => Answers(r) # {}
  /\ pc[r] = "rename" => ~may[r] \/ Answers(r) # {}
  /\ pc[r] \in {"linkBack", "undoLink"} => LinkReads # {}
  /\ pc[r] = "renameLink" =>
       Linked # product[r] \/ seen[r] = sent[r] \/ product[r] \in LinkReads

\* How many awaits lie at most between a stage and the answer, but for those
\* of the title-only writes.
Behind(stage) ==
  CASE stage \in {"rename", "takeOff", "offAgain", "plain", "release"} -> 0
    [] stage \in {"renameLink", "linkBack", "delete"} -> 1
    [] stage \in {"renameRead", "readBack"} -> 2
    [] stage = "on" -> 3
    [] stage = "check" -> 4
    [] stage = "undoLink" -> 5
    [] stage = "undo" -> 6
    [] stage = "change" -> 7
    [] stage = "off" -> 8
    [] stage = "authorize" -> 9
    [] stage = "link" -> 10
    [] stage = "content" -> 11

\* Each title-only write costs the write and the two reads after it.
StepsLeft(r) ==
  IF pc[r] = "idle" THEN 0
  ELSE Behind(pc[r]) + 3 * (NameWrites - writes[r])

MostSteps == 11 + 3 * NameWrites

\* Permanent deletion never meets EmDash's publish, unpublish or trash.
DeletesApart ==
  \A r \in Requests :
    action[r] = "permanent" => pc[r] \in {"delete", "release"}

\* A request in flight has a step to make, and at most MostSteps of them left.
AlwaysGoOn ==
  \A r \in Requests :
    pc[r] # "idle" => CanGoOn(r) /\ StepsLeft(r) \in 1 .. MostSteps

\* Every step of a request brings it nearer to its answer, and nothing sets it
\* back, title changes and changes of the person's role included.
NearerAnswer ==
  \A r \in Requests :
    /\ Step(r) => StepsLeft(r)' < StepsLeft(r)
    /\ pc[r] # "idle" => StepsLeft(r)' <= StepsLeft(r)

\* Every request keeps deletion apart.
LEMMA DeletesStep ==
  ASSUME TypeOK, DeletesApart, NEW r \in Requests,
         Begin(r) \/ Step(r) \/ PersonChanges(r) \/ Dies(r)
  PROVE  DeletesApart'
<1> USE DEF TypeOK, RequestTypeOK, DeletesApart
<1> SUFFICES ASSUME NEW q \in Requests, action'[q] = "permanent"
             PROVE  pc'[q] \in {"delete", "release"}
  OBVIOUS
<1>1. CASE Return(r)
  BY <1>1 DEF Return
<1>2. CASE Begin(r)
  <2>1. PICK a \in Actions :
          /\ action' = [action EXCEPT ![r] = a]
          /\ pc' = [pc EXCEPT ![r] = IF a = "permanent" THEN "delete" ELSE "content"]
    BY <1>2 DEF Begin, Goto
  <2> QED BY <2>1
<1>3. CASE ReadContent(r)
  BY <1>3, <1>1 DEF ReadContent, Unreadable, Goto, Keep, local
<1>4. CASE ReadLink(r)
  BY <1>4, <1>1 DEF ReadLink, Unreadable, Goto, Keep, local
<1>5. CASE Authorize(r)
  BY <1>5, <1>1 DEF Authorize, Goto, Keep, local
<1>6. CASE TakeOffFirst(r)
  BY <1>6, <1>1 DEF TakeOffFirst, Goto, Keep, local
<1>7. CASE ChangePublish(r)
  BY <1>7, <1>1 DEF ChangePublish, Goto, Keep, local
<1>8. CASE ChangeWithdraw(r)
  BY <1>8, <1>1 DEF ChangeWithdraw, Goto, Keep, local
<1>9. CASE OffAgain(r)
  BY <1>9, <1>1 DEF OffAgain, Goto, Keep, local
<1>10. CASE Plain(r)
  BY <1>10, <1>1 DEF Plain, Goto, Keep, local
<1>11. CASE Check(r)
  BY <1>11, <1>1 DEF Check, Goto, Keep, local
<1>12. CASE PutOnSale(r)
  BY <1>12, <1>1 DEF PutOnSale, Goto, Keep, local
<1>13. CASE ReadBack(r)
  BY <1>13, <1>1 DEF ReadBack, ReadsPublished, Goto, Keep, local
<1>14. CASE LinkBack(r)
  BY <1>14, <1>1 DEF LinkBack, Goto, Keep, local
<1>15. CASE TakeOff(r)
  BY <1>15, <1>1 DEF TakeOff, Goto, Keep, local
<1>16. CASE Rename(r)
  BY <1>16, <1>1 DEF Rename, Retry, Goto, Keep, local
<1>17. CASE RenameRead(r)
  BY <1>17, <1>1 DEF RenameRead, Retry, ReadsPublished, Goto, Keep, local
<1>18. CASE RenameLink(r)
  BY <1>18, <1>1 DEF RenameLink, Retry, Goto, Keep, local
<1>19. CASE Undo(r)
  BY <1>19, <1>1 DEF Undo, ReadsPublished, Goto, Keep, local
<1>20. CASE UndoLink(r)
  BY <1>20, <1>1 DEF UndoLink, Goto, Keep, local
<1>21. CASE DeletePage(r)
  BY <1>21, <1>1 DEF DeletePage, Goto, Keep, local
<1>22. CASE Release(r)
  BY <1>22, <1>1 DEF Release, Goto, Keep, local
<1>23. CASE PersonChanges(r)
  BY <1>23 DEF PersonChanges
<1>24. CASE Dies(r)
  BY <1>24, <1>1 DEF Dies
<1> QED
  BY <1>2, <1>3, <1>4, <1>5, <1>6, <1>7, <1>8, <1>9, <1>10, <1>11, <1>12, <1>13, <1>14, <1>15, <1>16, <1>17, <1>18, <1>19, <1>20, <1>21, <1>22, <1>23, <1>24 DEF Step

\* A stage is at most eleven awaits from the answer, titles apart.
LEMMA BehindBounded ==
  ASSUME NEW stage \in Stages \ {"idle"}
  PROVE  Behind(stage) \in 0 .. 11
BY DEF Stages, Behind

\* A request in flight has a number of steps left.
LEMMA SomeStepsLeft ==
  ASSUME TypeOK, WriteBudget, NEW r \in Requests, pc[r] # "idle"
  PROVE  StepsLeft(r) \in 1 .. MostSteps
<1>1. Behind(pc[r]) \in 0 .. 11 /\ writes[r] \in 0 .. NameWrites
  BY BehindBounded DEF TypeOK, RequestTypeOK
<1>2. NameWrites \in Nat \ {0}
  BY ConstantsAssumption
<1>3. writes[r] = NameWrites => Behind(pc[r]) > 0
  <2>1. pc[r] # "rename" => ~Naming(r) \/ Behind(pc[r]) > 0
    BY DEF Naming, Behind
  <2> QED BY <1>2, <2>1 DEF WriteBudget
<1> QED BY <1>1, <1>2, <1>3 DEF StepsLeft, MostSteps

\* How far each stage is from the answer.
LEMMA BehindIs ==
  /\ Behind("rename") = 0
  /\ Behind("takeOff") = 0
  /\ Behind("offAgain") = 0
  /\ Behind("plain") = 0
  /\ Behind("release") = 0
  /\ Behind("renameLink") = 1
  /\ Behind("linkBack") = 1
  /\ Behind("delete") = 1
  /\ Behind("renameRead") = 2
  /\ Behind("readBack") = 2
  /\ Behind("on") = 3
  /\ Behind("check") = 4
  /\ Behind("undoLink") = 5
  /\ Behind("undo") = 6
  /\ Behind("change") = 7
  /\ Behind("off") = 8
  /\ Behind("authorize") = 9
  /\ Behind("link") = 10
  /\ Behind("content") = 11
BY DEF Behind

\* A request moves on to stages nearer to its answer.
LEMMA StepNearer ==
  ASSUME TypeOK, WriteBudget, NEW r \in Requests, Step(r)
  PROVE  StepsLeft(r)' \in Nat /\ StepsLeft(r)' < StepsLeft(r)
<1> USE DEF TypeOK, RequestTypeOK
<1>0. /\ NameWrites \in Nat
      /\ pc[r] # "idle" => StepsLeft(r) \in Nat /\ StepsLeft(r) > 0
  BY SomeStepsLeft, ConstantsAssumption DEF MostSteps
<1>1. ASSUME Return(r), pc[r] # "idle"
      PROVE  StepsLeft(r)' \in Nat /\ StepsLeft(r)' < StepsLeft(r)
  BY <1>0, <1>1 DEF Return, StepsLeft
<1>2. ASSUME pc[r] # "idle", pc'[r] \in Stages \ {"idle"},
             Behind(pc'[r]) < Behind(pc[r]), writes'[r] = writes[r]
      PROVE  StepsLeft(r)' \in Nat /\ StepsLeft(r)' < StepsLeft(r)
  <2>1. Behind(pc[r]) \in 0 .. 11 /\ Behind(pc'[r]) \in 0 .. 11
    BY <1>2, BehindBounded
  <2> QED BY <1>0, <1>2, <2>1 DEF StepsLeft
<1>3. CASE ReadContent(r)
  <2>1. /\ pc[r] = "content"
        /\ Return(r) \/ (pc'[r] \in {"link", "plain"} /\ writes'[r] = writes[r])
    BY <1>3 DEF ReadContent, Unreadable, Goto, Keep, local
  <2> QED BY <1>1, <1>2, <2>1, BehindIs DEF Stages
<1>4. CASE ReadLink(r)
  <2>1. /\ pc[r] = "link"
        /\ Return(r) \/ (pc'[r] \in {"authorize", "plain"} /\ writes'[r] = writes[r])
    BY <1>4 DEF ReadLink, Unreadable, Goto, Keep, local
  <2> QED BY <1>1, <1>2, <2>1, BehindIs DEF Stages
<1>5. CASE Authorize(r)
  <2>1. /\ pc[r] = "authorize"
        /\ Return(r) \/ (pc'[r] \in {"change", "plain", "off"} /\ writes'[r] = writes[r])
    BY <1>5 DEF Authorize, Goto, Keep, local
  <2> QED BY <1>1, <1>2, <2>1, BehindIs DEF Stages
<1>6. CASE TakeOffFirst(r)
  <2>1. /\ pc[r] = "off"
        /\ Return(r) \/ (pc'[r] \in {"change"} /\ writes'[r] = writes[r])
    BY <1>6 DEF TakeOffFirst, Goto, Keep, local
  <2> QED BY <1>1, <1>2, <2>1, BehindIs DEF Stages
<1>7. CASE ChangePublish(r)
  <2>1. /\ pc[r] = "change"
        /\ Return(r) \/ (pc'[r] \in {"check"} /\ writes'[r] = writes[r])
    BY <1>7 DEF ChangePublish, Goto, Keep, local
  <2> QED BY <1>1, <1>2, <2>1, BehindIs DEF Stages
<1>8. CASE ChangeWithdraw(r)
  <2>1. /\ pc[r] = "change"
        /\ Return(r) \/ (pc'[r] \in {"offAgain", "undo"} /\ writes'[r] = writes[r])
    BY <1>8 DEF ChangeWithdraw, Goto, Keep, local
  <2> QED BY <1>1, <1>2, <2>1, BehindIs DEF Stages
<1>9. CASE OffAgain(r)
  BY <1>9, <1>1 DEF OffAgain
<1>10. CASE Plain(r)
  BY <1>10, <1>1 DEF Plain
<1>11. CASE Check(r)
  <2>1. /\ pc[r] = "check"
        /\ Return(r) \/ (pc'[r] \in {"on"} /\ writes'[r] = writes[r])
    BY <1>11 DEF Check, Goto, Keep, local
  <2> QED BY <1>1, <1>2, <2>1, BehindIs DEF Stages
<1>12. CASE PutOnSale(r)
  <2>1. /\ pc[r] = "on"
        /\ Return(r) \/ (pc'[r] \in {"readBack"} /\ writes'[r] = writes[r])
    BY <1>12 DEF PutOnSale, Goto, Keep, local
  <2> QED BY <1>1, <1>2, <2>1, BehindIs DEF Stages
<1>13. CASE ReadBack(r)
  <2>1. /\ pc[r] = "readBack"
        /\ Return(r) \/ (pc'[r] \in {"linkBack", "takeOff"} /\ writes'[r] = writes[r])
    BY <1>13 DEF ReadBack, ReadsPublished, Goto, Keep, local
  <2> QED BY <1>1, <1>2, <2>1, BehindIs DEF Stages
<1>14. CASE LinkBack(r)
  <2>1. /\ pc[r] = "linkBack"
        /\ Return(r) \/ (pc'[r] \in {"rename", "takeOff"} /\ writes'[r] = writes[r])
    BY <1>14 DEF LinkBack, Goto, Keep, local
  <2> QED BY <1>1, <1>2, <2>1, BehindIs DEF Stages
<1>15. CASE TakeOff(r)
  BY <1>15, <1>1 DEF TakeOff
<1>16. CASE Rename(r)
  <2>1. Return(r) \/ (pc'[r] = "renameRead" /\ writes'[r] = writes[r] + 1)
    BY <1>16 DEF Rename, Retry, Goto
  <2>2. pc[r] = "rename" /\ writes[r] < NameWrites
    BY <1>16 DEF Rename, WriteBudget
  <2>3. ASSUME pc'[r] = "renameRead", writes'[r] = writes[r] + 1
        PROVE  StepsLeft(r)' \in Nat /\ StepsLeft(r)' < StepsLeft(r)
    BY <1>0, <2>2, <2>3, BehindIs DEF StepsLeft
  <2> QED BY <1>1, <2>1, <2>2, <2>3
<1>17. CASE RenameRead(r)
  <2>1. /\ pc[r] = "renameRead"
        /\ Return(r) \/ (pc'[r] \in {"renameLink"} /\ writes'[r] = writes[r])
    BY <1>17 DEF RenameRead, Retry, ReadsPublished, Goto, Keep, local
  <2> QED BY <1>1, <1>2, <2>1, BehindIs DEF Stages
<1>18. CASE RenameLink(r)
  <2>1. /\ pc[r] = "renameLink"
        /\ Return(r) \/ (pc'[r] \in {"rename"} /\ writes'[r] = writes[r])
    BY <1>18 DEF RenameLink, Retry, Goto, Keep, local
  <2> QED BY <1>1, <1>2, <2>1, BehindIs DEF Stages
<1>19. CASE Undo(r)
  <2>1. /\ pc[r] = "undo"
        /\ Return(r) \/ (pc'[r] \in {"undoLink"} /\ writes'[r] = writes[r])
    BY <1>19 DEF Undo, ReadsPublished, Goto, Keep, local
  <2> QED BY <1>1, <1>2, <2>1, BehindIs DEF Stages
<1>20. CASE UndoLink(r)
  <2>1. /\ pc[r] = "undoLink"
        /\ Return(r) \/ (pc'[r] \in {"check"} /\ writes'[r] = writes[r])
    BY <1>20 DEF UndoLink, Goto, Keep, local
  <2> QED BY <1>1, <1>2, <2>1, BehindIs DEF Stages
<1>21. CASE DeletePage(r)
  <2>1. /\ pc[r] = "delete"
        /\ Return(r) \/ (pc'[r] \in {"release"} /\ writes'[r] = writes[r])
    BY <1>21 DEF DeletePage, Goto, Keep, local
  <2> QED BY <1>1, <1>2, <2>1, BehindIs DEF Stages
<1>22. CASE Release(r)
  BY <1>22, <1>1 DEF Release
<1> QED
  BY <1>3, <1>4, <1>5, <1>6, <1>7, <1>8, <1>9, <1>10, <1>11, <1>12, <1>13, <1>14, <1>15, <1>16, <1>17, <1>18, <1>19, <1>20, <1>21, <1>22 DEF Step

\* A request in flight has a step to make.
LEMMA GoesOn ==
  ASSUME TypeOK, WriteBudget, DeletesApart
  PROVE  AlwaysGoOn
<1> SUFFICES ASSUME NEW r \in Requests, pc[r] # "idle"
             PROVE  CanGoOn(r) /\ StepsLeft(r) \in 1 .. MostSteps
  BY DEF AlwaysGoOn
<1>1. Answers(r) # {} /\ LinkReads # {}
  BY DEF Answers, AnswersIf, LinkReads
<1>2. Linked # product[r] \/ product[r] \in LinkReads
  BY DEF LinkReads
<1>3. CanGoOn(r)
  BY <1>1, <1>2 DEF CanGoOn, DeletesApart, TypeOK, RequestTypeOK
<1> QED BY <1>3, SomeStepsLeft

\* Every step keeps deletion apart and brings nobody further from an answer.
LEMMA NearerStep ==
  ASSUME IInv, DeletesApart, [Next]_vars
  PROVE  DeletesApart' /\ NearerAnswer
<1> USE DEF IInv
<1>1. ASSUME NEW q \in Requests, Step(q)
      PROVE  StepsLeft(q)' < StepsLeft(q)
  BY <1>1, StepNearer
<1>2. ASSUME NEW r \in Requests,
             Begin(r) \/ Step(r) \/ PersonChanges(r) \/ Dies(r)
      PROVE  /\ DeletesApart'
             /\ \A q \in Requests :
                  pc[q] # "idle" => StepsLeft(q)' <= StepsLeft(q)
  <2>1. DeletesApart'
    BY <1>2, DeletesStep
  <2>2. ASSUME NEW q \in Requests \ {r}
        PROVE  pc'[q] = pc[q] /\ writes'[q] = writes[q]
    BY <1>2, OthersKeep DEF TypeOK
  <2>3. \A q \in Requests : pc[q] # "idle" => StepsLeft(q) \in 1 .. MostSteps
    BY SomeStepsLeft
  <2>4. ASSUME NEW q \in Requests \ {r}, pc[q] # "idle"
        PROVE  StepsLeft(q)' <= StepsLeft(q)
    <3>1. StepsLeft(q)' = StepsLeft(q)
      BY <2>2 DEF StepsLeft
    <3> QED BY <2>3, <2>4, <3>1 DEF MostSteps
  <2>5. ASSUME pc[r] # "idle" PROVE StepsLeft(r)' <= StepsLeft(r)
    <3>0. StepsLeft(r) \in Nat /\ StepsLeft(r) > 0
      BY <2>3, <2>5, ConstantsAssumption DEF MostSteps
    <3>1. CASE Step(r)
      <4>1. StepsLeft(r)' < StepsLeft(r) /\ StepsLeft(r)' \in Nat
        BY <1>1, <3>1, StepNearer
      <4> QED BY <3>0, <4>1
    <3>2. CASE PersonChanges(r)
      BY <3>0, <3>2 DEF PersonChanges, StepsLeft
    <3>3. CASE Dies(r)
      BY <3>0, <3>3 DEF Dies, Return, StepsLeft, TypeOK, RequestTypeOK
    <3>4. ~Begin(r)
      BY <2>5 DEF Begin
    <3> QED BY <1>2, <3>1, <3>2, <3>3, <3>4
  <2> QED BY <2>1, <2>4, <2>5
<1>3. ASSUME \/ \E p \in Products : PanelPicks(p)
             \/ ScheduledPublish
             \/ RestorePage
             \/ UNCHANGED vars
      PROVE  /\ DeletesApart'
             /\ \A q \in Requests :
                  pc[q] # "idle" => StepsLeft(q)' <= StepsLeft(q)
  <2>1. UNCHANGED <<pc, action, writes>>
    BY <1>3 DEF PanelPicks, ScheduledPublish, RestorePage, vars, local
  <2>2. \A q \in Requests : StepsLeft(q)' = StepsLeft(q)
    BY <2>1 DEF StepsLeft
  <2>3. \A q \in Requests : pc[q] # "idle" => StepsLeft(q) \in 1 .. MostSteps
    BY SomeStepsLeft
  <2> QED BY <2>1, <2>2, <2>3, ConstantsAssumption DEF DeletesApart, MostSteps
<1> QED BY <1>1, <1>2, <1>3 DEF Next, NearerAnswer

\* A request in flight always has a step to make, whatever it met on its way,
\* and at most eleven of them and three for each title-only write.
THEOREM RequestsGoOn == Spec => []AlwaysGoOn
<1>1. Init => DeletesApart
  BY DEF Init, DeletesApart
<1>2. IInv /\ DeletesApart /\ [Next]_vars => DeletesApart'
  BY NearerStep
<1>3. IInv /\ DeletesApart => AlwaysGoOn
  BY GoesOn DEF IInv
<1> QED BY <1>1, <1>2, <1>3, Initially, Inductive, PTL DEF Spec

\* With every step it makes a request comes nearer to its answer, and nothing
\* that overlaps it sets it back: publishes that retitle the page, changes of
\* the person's role, the panel and the scheduler included.
THEOREM RequestsComeNearer == Spec => [][NearerAnswer]_vars
<1>1. Init => DeletesApart
  BY DEF Init, DeletesApart
<1>2. IInv /\ DeletesApart /\ [Next]_vars => DeletesApart' /\ NearerAnswer
  BY NearerStep
<1>3. IInv /\ DeletesApart /\ [Next]_vars => [NearerAnswer]_vars
  BY <1>2
<1> QED BY <1>1, <1>2, <1>3, Initially, Inductive, PTL DEF Spec
=============================================================================
