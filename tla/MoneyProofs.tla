---------------------------- MODULE MoneyProofs ----------------------------
(***************************************************************************)
(* What holds of the money for every value of the constants.  First of     *)
(* Billing, for every number of requests, invoices and subscriptions and   *)
(* every total and payment: its types, the numbering, what bounds the      *)
(* money whatever races, and the exact books of the invoices that no two   *)
(* requests worked on at once.  Then of Analytics, for every number of     *)
(* summaries, subscriptions, entries, calls and days: that a call is       *)
(* recorded, that margins are right and that a snapshot is what held.      *)
(***************************************************************************)
EXTENDS Billing, Analytics, FiniteSetTheorems, TLAPS

(***************************************************************************)
(*                                 Billing                                 *)
(***************************************************************************)

\* The number an issue asks for is a natural number that follows a taken one.
LEMMA NextNumbersFollow ==
    ASSUME NEW numbers \in SUBSET Nat, NEW n \in NextNumbers(numbers)
    PROVE  n \in Nat /\ (n = 1 \/ n - 1 \in numbers)
BY DEF NextNumbers

LEMMA TakenType == TypeOK => TakenNumbers \subseteq Nat
BY DEF TypeOK, InvoiceRow, TakenNumbers

-----------------------------------------------------------------------------
(* Types *)

LEMMA TypeInit == Init => TypeOK
BY DEF Init, TypeOK, InvoiceRow, InvoiceStatus, AbsentInvoice, RequestState, Idle, SubscriptionStatus

LEMMA TypeStep == TypeOK /\ [Next]_vars => TypeOK'
<1> SUFFICES ASSUME TypeOK, [Next]_vars PROVE TypeOK'
  OBVIOUS
<1> USE DEF TypeOK
<1>1. ASSUME NEW k \in Invoice, CreateDraft(k)
      PROVE  TypeOK'
  <2>1. invoices' \in [Invoice -> InvoiceRow]
    BY <1>1 DEF CreateDraft, AbsentInvoice, InvoiceRow, InvoiceStatus
  <2> QED BY <1>1, <2>1 DEF CreateDraft
<1>2. ASSUME NEW r \in Request, NEW k \in Invoice, InvoiceForPeriod(r, k)
      PROVE  TypeOK'
  <2>1. invoices' \in [Invoice -> InvoiceRow]
    BY <1>2 DEF InvoiceForPeriod, AbsentInvoice, InvoiceRow, InvoiceStatus
  <2>2. request' \in [Request -> RequestState]
    BY <1>2 DEF InvoiceForPeriod, RequestState, Idle, SubscriptionStatus
  <2> QED BY <1>2, <2>1, <2>2 DEF InvoiceForPeriod
<1>3. ASSUME NEW k \in Invoice, FallDue(k)
      PROVE  TypeOK'
  <2> QED BY <1>3 DEF FallDue
<1>4. ASSUME NEW s \in Subscription, CancelSubscription(s)
      PROVE  TypeOK'
  <2>3. subscriptions' \in [Subscription -> SubscriptionStatus]
    BY <1>4 DEF CancelSubscription, SubscriptionStatus
  <2> QED BY <1>4, <2>3 DEF CancelSubscription
<1>5. ASSUME NEW r \in Request, NEW k \in Invoice, IssueRead(r, k)
      PROVE  TypeOK'
  <2>2. request' \in [Request -> RequestState]
    BY <1>5 DEF IssueRead, RequestState, Idle, SubscriptionStatus
  <2> QED BY <1>5, <2>2 DEF IssueRead, Contended
<1>6. ASSUME NEW r \in Request, IssueNumber(r)
      PROVE  TypeOK'
  <2>1. PICK n \in NextNumbers(TakenNumbers) :
           request' = [request EXCEPT ![r] = [@ EXCEPT !.pc = "numbered", !.number = n]]
    BY <1>6 DEF IssueNumber
  <2>4. n \in Nat
    BY <2>1, TakenType, NextNumbersFollow
  <2>3. [request[r] EXCEPT !.pc = "numbered", !.number = n] \in RequestState
    BY <2>4 DEF RequestState, SubscriptionStatus
  <2>2. request' \in [Request -> RequestState]
    BY <2>1, <2>3
  <2> QED BY <1>6, <2>2 DEF IssueNumber
<1>7. ASSUME NEW r \in Request, NEW k \in Invoice, IssueCommit(r, k)
      PROVE  TypeOK'
  <2>1. invoices' \in [Invoice -> InvoiceRow]
    BY <1>7 DEF IssueCommit, RequestState, InvoiceRow, InvoiceStatus
  <2>2. request' \in [Request -> RequestState]
    BY <1>7 DEF IssueCommit, RequestState, Idle, SubscriptionStatus
  <2>4. lost' \in [Invoice -> SUBSET Nat]
    BY <1>7 DEF IssueCommit, InvoiceRow
  <2> QED BY <1>7, <2>1, <2>2, <2>4 DEF IssueCommit
<1>8. ASSUME NEW r \in Request, NEW k \in Invoice, IssueCollides(r, k)
      PROVE  TypeOK'
  <2>2. request' \in [Request -> RequestState]
    BY <1>8 DEF IssueCollides, RequestState, Idle, SubscriptionStatus
  <2> QED BY <1>8, <2>2 DEF IssueCollides
<1>9. ASSUME NEW r \in Request, NEW k \in Invoice, NEW amount \in Amount, PayRead(r, k, amount)
      PROVE  TypeOK'
  <2>2. request' \in [Request -> RequestState]
    BY <1>9, AmountAssumption DEF PayRead, RequestState, Idle, SubscriptionStatus, InvoiceRow
  <2> QED BY <1>9, <2>2 DEF PayRead, Contended
<1>10. ASSUME NEW r \in Request, NEW k \in Invoice, PayCommit(r, k)
      PROVE  TypeOK'
  <2>1. invoices' \in [Invoice -> InvoiceRow]
    BY <1>10 DEF PayCommit, RequestState, InvoiceRow, InvoiceStatus
  <2>2. request' \in [Request -> RequestState]
    BY <1>10 DEF PayCommit, RequestState, Idle, SubscriptionStatus
  <2>3. subscriptions' \in [Subscription -> SubscriptionStatus]
    BY <1>10 DEF PayCommit, Restored, SubscriptionStatus
  <2>4. received' \in [Invoice -> Nat] /\ revenue' \in [Invoice -> Nat]
    BY <1>10 DEF PayCommit, RequestState
  <2> QED BY <1>10, <2>1, <2>2, <2>3, <2>4 DEF PayCommit
<1>11. ASSUME NEW r \in Request, NEW k \in Invoice, VoidRead(r, k)
      PROVE  TypeOK'
  <2>2. request' \in [Request -> RequestState]
    BY <1>11 DEF VoidRead, RequestState, Idle, SubscriptionStatus
  <2> QED BY <1>11, <2>2 DEF VoidRead, Contended
<1>12. ASSUME NEW r \in Request, NEW k \in Invoice, VoidWrite(r, k)
      PROVE  TypeOK'
  <2>1. invoices' \in [Invoice -> InvoiceRow]
    BY <1>12 DEF VoidWrite, InvoiceRow, InvoiceStatus
  <2>2. request' \in [Request -> RequestState]
    BY <1>12 DEF VoidWrite, RequestState, Idle, SubscriptionStatus
  <2> QED BY <1>12, <2>1, <2>2 DEF VoidWrite
<1>13. ASSUME NEW r \in Request, SweepRead(r)
      PROVE  TypeOK'
  <2>2. request' \in [Request -> RequestState]
    BY <1>13 DEF SweepRead, RequestState, Idle, SubscriptionStatus
  <2> QED BY <1>13, <2>2 DEF SweepRead, Contended
<1>14. ASSUME NEW r \in Request, NEW k \in Invoice, SweepMark(r, k)
      PROVE  TypeOK'
  <2>1. Idle \in RequestState /\ [request[r] EXCEPT !.holds = request[r].holds \ {k}] \in RequestState
    BY DEF RequestState, Idle, SubscriptionStatus
  <2>2. request' \in [Request -> RequestState]
    BY <1>14, <2>1 DEF SweepMark
  <2>3. subscriptions' \in [Subscription -> SubscriptionStatus]
    BY <1>14 DEF SweepMark, Dunned, SubscriptionStatus
  <2> QED BY <1>14, <2>2, <2>3 DEF SweepMark
<1>15. CASE UNCHANGED vars
  BY <1>15 DEF vars
<1>16. ASSUME NEW r \in Request, NEW s \in Subscription, RenewRead(r, s)
      PROVE  TypeOK'
  <2>1. request' \in [Request -> RequestState]
    BY <1>16 DEF RenewRead, RequestState, Idle, SubscriptionStatus
  <2> QED BY <1>16, <2>1 DEF RenewRead
<1>17. ASSUME NEW r \in Request, RenewEnds(r)
      PROVE  TypeOK'
  <2>1. request' \in [Request -> RequestState]
    BY <1>17 DEF RenewEnds, RequestState, Idle, SubscriptionStatus
  <2>2. subscriptions' \in [Subscription -> SubscriptionStatus]
    BY <1>17 DEF RenewEnds, SubscriptionStatus
  <2> QED BY <1>17, <2>1, <2>2 DEF RenewEnds
<1>18. ASSUME NEW r \in Request, RenewWrite(r)
      PROVE  TypeOK'
  <2>1. request' \in [Request -> RequestState]
    BY <1>18 DEF RenewWrite, RequestState, Idle, SubscriptionStatus
  <2>2. subscriptions' \in [Subscription -> SubscriptionStatus]
    BY <1>18 DEF RenewWrite, RequestState
  <2>3. putBack' \subseteq Subscription
    BY <1>18 DEF RenewWrite
  <2> QED BY <1>18, <2>1, <2>2, <2>3 DEF RenewWrite
<1>19. ASSUME NEW r \in Request, AlreadyBilled(r)
      PROVE  TypeOK'
  <2>1. request' \in [Request -> RequestState]
    BY <1>19 DEF AlreadyBilled, RequestState, Idle, SubscriptionStatus
  <2> QED BY <1>19, <2>1 DEF AlreadyBilled
<1> QED BY <1>1, <1>2, <1>3, <1>4, <1>5, <1>6, <1>7, <1>8, <1>9, <1>10, <1>11, <1>12, <1>13, <1>14, <1>15, <1>16, <1>17, <1>18, <1>19 DEF Next

\* Every reachable state is well typed.
THEOREM TypeCorrect == Spec => []TypeOK
BY TypeInit, TypeStep, PTL DEF Spec

-----------------------------------------------------------------------------
(* What bounds the money, whatever races: the copy a payment works on was  *)
(* the row once, and payments are only ever added.                         *)

CopyBounded ==
    \A r \in Request : \A i \in request[r].holds : request[r].pc = "paying" =>
        /\ request[r].paid + request[r].amount <= Total[i]
        /\ request[r].paid <= received[i]

MoneyInv == MoneyBounds /\ CopyBounded

LEMMA MoneyInit == Init => MoneyInv
BY TotalAssumption DEF Init, MoneyInv, MoneyBounds, CopyBounded, AbsentInvoice, Idle

LEMMA MoneyStep == TypeOK /\ MoneyInv /\ [Next]_vars => MoneyInv'
<1> SUFFICES ASSUME TypeOK, MoneyInv, [Next]_vars PROVE MoneyInv'
  OBVIOUS
<1> USE TotalAssumption, AmountAssumption DEF TypeOK, MoneyInv
<1>1. ASSUME NEW k \in Invoice, CreateDraft(k)
      PROVE  MoneyInv'
  <2>1. MoneyBounds'
    BY <1>1 DEF CreateDraft, MoneyBounds, AbsentInvoice, InvoiceRow
  <2>2. CopyBounded'
    BY <1>1 DEF CreateDraft, CopyBounded, AbsentInvoice, InvoiceRow
  <2> QED BY <2>1, <2>2 DEF MoneyInv
<1>2. ASSUME NEW r \in Request, NEW k \in Invoice, InvoiceForPeriod(r, k)
      PROVE  MoneyInv'
  <2>1. MoneyBounds'
    BY <1>2 DEF InvoiceForPeriod, MoneyBounds, AbsentInvoice, InvoiceRow
  <2>2. CopyBounded'
    BY <1>2 DEF InvoiceForPeriod, CopyBounded, Idle
  <2> QED BY <2>1, <2>2 DEF MoneyInv
<1>3. ASSUME NEW k \in Invoice, FallDue(k)
      PROVE  MoneyInv'
  <2>1. MoneyBounds'
    BY <1>3 DEF FallDue, MoneyBounds
  <2>2. CopyBounded'
    BY <1>3 DEF FallDue, CopyBounded
  <2> QED BY <2>1, <2>2 DEF MoneyInv
<1>4. ASSUME NEW s \in Subscription, CancelSubscription(s)
      PROVE  MoneyInv'
  <2>1. MoneyBounds'
    BY <1>4 DEF CancelSubscription, MoneyBounds
  <2>2. CopyBounded'
    BY <1>4 DEF CancelSubscription, CopyBounded
  <2> QED BY <2>1, <2>2 DEF MoneyInv
<1>5. ASSUME NEW r \in Request, NEW k \in Invoice, IssueRead(r, k)
      PROVE  MoneyInv'
  <2>1. MoneyBounds'
    BY <1>5 DEF IssueRead, MoneyBounds
  <2>2. CopyBounded'
    BY <1>5 DEF IssueRead, CopyBounded, Idle
  <2> QED BY <2>1, <2>2 DEF MoneyInv
<1>6. ASSUME NEW r \in Request, IssueNumber(r)
      PROVE  MoneyInv'
  <2>1. MoneyBounds'
    BY <1>6 DEF IssueNumber, MoneyBounds
  <2>2. CopyBounded'
    BY <1>6 DEF IssueNumber, CopyBounded, Idle
  <2> QED BY <2>1, <2>2 DEF MoneyInv
<1>7. ASSUME NEW r \in Request, NEW k \in Invoice, IssueCommit(r, k)
      PROVE  MoneyInv'
  <2>1. MoneyBounds'
    BY <1>7 DEF IssueCommit, MoneyBounds
  <2>2. CopyBounded'
    BY <1>7 DEF IssueCommit, CopyBounded, Idle
  <2> QED BY <2>1, <2>2 DEF MoneyInv
<1>8. ASSUME NEW r \in Request, NEW k \in Invoice, IssueCollides(r, k)
      PROVE  MoneyInv'
  <2>1. MoneyBounds'
    BY <1>8 DEF IssueCollides, MoneyBounds
  <2>2. CopyBounded'
    BY <1>8 DEF IssueCollides, CopyBounded, Idle
  <2> QED BY <2>1, <2>2 DEF MoneyInv
<1>9. ASSUME NEW r \in Request, NEW k \in Invoice, NEW amount \in Amount, PayRead(r, k, amount)
      PROVE  MoneyInv'
  <2>1. MoneyBounds'
    BY <1>9 DEF PayRead, MoneyBounds
  <2>2. CopyBounded'
    BY <1>9 DEF PayRead, CopyBounded, MoneyBounds, PaymentFits, InvoiceRow, Idle
  <2> QED BY <2>1, <2>2 DEF MoneyInv
<1>10. ASSUME NEW r \in Request, NEW k \in Invoice, PayCommit(r, k)
      PROVE  MoneyInv'
  <2>1. MoneyBounds'
    BY <1>10 DEF PayCommit, MoneyBounds, CopyBounded, Settles, RequestState, InvoiceRow
  <2>2. CopyBounded'
    BY <1>10 DEF PayCommit, CopyBounded, RequestState, Idle
  <2> QED BY <2>1, <2>2 DEF MoneyInv
<1>11. ASSUME NEW r \in Request, NEW k \in Invoice, VoidRead(r, k)
      PROVE  MoneyInv'
  <2>1. MoneyBounds'
    BY <1>11 DEF VoidRead, MoneyBounds
  <2>2. CopyBounded'
    BY <1>11 DEF VoidRead, CopyBounded, Idle
  <2> QED BY <2>1, <2>2 DEF MoneyInv
<1>12. ASSUME NEW r \in Request, NEW k \in Invoice, VoidWrite(r, k)
      PROVE  MoneyInv'
  <2>1. MoneyBounds'
    BY <1>12 DEF VoidWrite, MoneyBounds
  <2>2. CopyBounded'
    BY <1>12 DEF VoidWrite, CopyBounded, Idle
  <2> QED BY <2>1, <2>2 DEF MoneyInv
<1>13. ASSUME NEW r \in Request, SweepRead(r)
      PROVE  MoneyInv'
  <2>1. MoneyBounds'
    BY <1>13 DEF SweepRead, MoneyBounds
  <2>2. CopyBounded'
    BY <1>13 DEF SweepRead, CopyBounded, Idle
  <2> QED BY <2>1, <2>2 DEF MoneyInv
<1>14. ASSUME NEW r \in Request, NEW k \in Invoice, SweepMark(r, k)
      PROVE  MoneyInv'
  <2>1. MoneyBounds'
    BY <1>14 DEF SweepMark, MoneyBounds
  <2>2. CopyBounded'
    BY <1>14 DEF SweepMark, CopyBounded, Idle
  <2> QED BY <2>1, <2>2 DEF MoneyInv
<1>15. CASE UNCHANGED vars
  BY <1>15 DEF vars, MoneyInv, MoneyBounds, CopyBounded
<1>16. ASSUME NEW r \in Request, NEW s \in Subscription, RenewRead(r, s)
      PROVE  MoneyInv'
  <2>1. MoneyBounds'
    BY <1>16 DEF RenewRead, MoneyBounds
  <2>2. CopyBounded'
    BY <1>16 DEF RenewRead, CopyBounded, Idle
  <2> QED BY <2>1, <2>2 DEF MoneyInv
<1>17. ASSUME NEW r \in Request, RenewEnds(r)
      PROVE  MoneyInv'
  <2>1. MoneyBounds'
    BY <1>17 DEF RenewEnds, MoneyBounds
  <2>2. CopyBounded'
    BY <1>17 DEF RenewEnds, CopyBounded, Idle
  <2> QED BY <2>1, <2>2 DEF MoneyInv
<1>18. ASSUME NEW r \in Request, RenewWrite(r)
      PROVE  MoneyInv'
  <2>1. MoneyBounds'
    BY <1>18 DEF RenewWrite, MoneyBounds
  <2>2. CopyBounded'
    BY <1>18 DEF RenewWrite, CopyBounded, Idle
  <2> QED BY <2>1, <2>2 DEF MoneyInv
<1>19. ASSUME NEW r \in Request, AlreadyBilled(r)
      PROVE  MoneyInv'
  <2>1. MoneyBounds'
    BY <1>19 DEF AlreadyBilled, MoneyBounds
  <2>2. CopyBounded'
    BY <1>19 DEF AlreadyBilled, CopyBounded, Idle
  <2> QED BY <2>1, <2>2 DEF MoneyInv
<1> QED BY <1>1, <1>2, <1>3, <1>4, <1>5, <1>6, <1>7, <1>8, <1>9, <1>10, <1>11, <1>12, <1>13, <1>14, <1>15, <1>16, <1>17, <1>18, <1>19 DEF Next

-----------------------------------------------------------------------------
(* An invoice that no two requests worked on at once is held by one at     *)
(* most, and what that one remembers of it is still so.                    *)

NeverUncollectible == \A i \in Invoice : invoices[i].status # "uncollectible"

Alone ==
    \A i \in Invoice \ raced : \A q, r \in Request :
        i \in request[q].holds /\ i \in request[r].holds => q = r

Current ==
    \A r \in Request : \A i \in request[r].holds \ raced :
        /\ request[r].pc \in {"issuing", "numbered"} => invoices[i].status = "draft"
        /\ request[r].pc = "voiding" => invoices[i].status \in {"draft", "open"}
        /\ request[r].pc = "paying" =>
             /\ invoices[i].status = "open"
             /\ request[r].paid = invoices[i].paid
             /\ request[r].paid + request[r].amount <= Total[i]
        /\ request[r].pc = "sweeping" => invoices[i].status = "open" /\ i \in overdue

RaceInv == NeverUncollectible /\ Alone /\ Current /\ BooksBalance

LEMMA RaceInit == Init => RaceInv
BY DEF Init, RaceInv, NeverUncollectible, Alone, Current, BooksBalance, Balanced, AbsentInvoice, Idle

LEMMA RaceStep == TypeOK /\ RaceInv /\ [Next]_vars => RaceInv'
<1> SUFFICES ASSUME TypeOK, RaceInv, [Next]_vars PROVE RaceInv'
  OBVIOUS
<1> USE TotalAssumption, AmountAssumption DEF TypeOK, RaceInv
<1>1. ASSUME NEW k \in Invoice, CreateDraft(k)
      PROVE  RaceInv'
  <2>1. NeverUncollectible'
    BY <1>1 DEF CreateDraft, NeverUncollectible, AbsentInvoice, InvoiceRow, Exists
  <2>2. Alone'
    BY <1>1 DEF CreateDraft, Alone
  <2>3. Current'
    BY <1>1 DEF CreateDraft, Current, AbsentInvoice, InvoiceRow, Exists
  <2>4. BooksBalance'
    BY <1>1 DEF CreateDraft, BooksBalance, Balanced, AbsentInvoice, InvoiceRow, Exists
  <2> QED BY <2>1, <2>2, <2>3, <2>4 DEF RaceInv
<1>2. ASSUME NEW r \in Request, NEW k \in Invoice, InvoiceForPeriod(r, k)
      PROVE  RaceInv'
  <2>1. NeverUncollectible'
    BY <1>2 DEF InvoiceForPeriod, NeverUncollectible, AbsentInvoice, InvoiceRow, Exists
  <2>2. Alone'
    BY <1>2 DEF InvoiceForPeriod, Alone, Idle, RequestState
  <2>3. Current'
    BY <1>2 DEF InvoiceForPeriod, Current, AbsentInvoice, InvoiceRow, Exists, Idle, RequestState
  <2>4. BooksBalance'
    BY <1>2 DEF InvoiceForPeriod, BooksBalance, Balanced, AbsentInvoice, InvoiceRow, Exists
  <2> QED BY <2>1, <2>2, <2>3, <2>4 DEF RaceInv
<1>3. ASSUME NEW k \in Invoice, FallDue(k)
      PROVE  RaceInv'
  <2>1. NeverUncollectible'
    BY <1>3 DEF FallDue, NeverUncollectible
  <2>2. Alone'
    BY <1>3 DEF FallDue, Alone
  <2>3. Current'
    BY <1>3 DEF FallDue, Current
  <2>4. BooksBalance'
    BY <1>3 DEF FallDue, BooksBalance, Balanced
  <2> QED BY <2>1, <2>2, <2>3, <2>4 DEF RaceInv
<1>4. ASSUME NEW s \in Subscription, CancelSubscription(s)
      PROVE  RaceInv'
  <2>1. NeverUncollectible'
    BY <1>4 DEF CancelSubscription, NeverUncollectible
  <2>2. Alone'
    BY <1>4 DEF CancelSubscription, Alone
  <2>3. Current'
    BY <1>4 DEF CancelSubscription, Current
  <2>4. BooksBalance'
    BY <1>4 DEF CancelSubscription, BooksBalance, Balanced
  <2> QED BY <2>1, <2>2, <2>3, <2>4 DEF RaceInv
<1>5. ASSUME NEW r \in Request, NEW k \in Invoice, IssueRead(r, k)
      PROVE  RaceInv'
  <2>1. NeverUncollectible'
    BY <1>5 DEF IssueRead, NeverUncollectible
  <2>2. Alone'
    BY <1>5 DEF IssueRead, Alone, Contended, Idle, RequestState
  <2>3. Current'
    BY <1>5 DEF IssueRead, Current, Contended, CanTransition, Allowed, Idle, RequestState
  <2>4. BooksBalance'
    BY <1>5 DEF IssueRead, BooksBalance, Balanced, Contended
  <2> QED BY <2>1, <2>2, <2>3, <2>4 DEF RaceInv
<1>6. ASSUME NEW r \in Request, IssueNumber(r)
      PROVE  RaceInv'
  <2>1. NeverUncollectible'
    BY <1>6 DEF IssueNumber, NeverUncollectible
  <2>2. Alone'
    BY <1>6 DEF IssueNumber, Alone, Idle, RequestState
  <2>3. Current'
    BY <1>6 DEF IssueNumber, Current, Idle, RequestState
  <2>4. BooksBalance'
    BY <1>6 DEF IssueNumber, BooksBalance, Balanced
  <2> QED BY <2>1, <2>2, <2>3, <2>4 DEF RaceInv
<1>7. ASSUME NEW r \in Request, NEW k \in Invoice, IssueCommit(r, k)
      PROVE  RaceInv'
  <2>1. NeverUncollectible'
    BY <1>7 DEF IssueCommit, NeverUncollectible
  <2>2. Alone'
    BY <1>7 DEF IssueCommit, Alone, Idle, RequestState
  <2>3. Current'
    BY <1>7 DEF IssueCommit, Current, Alone, Idle, RequestState
  <2>4. BooksBalance'
    BY <1>7 DEF IssueCommit, BooksBalance, Balanced, Current, InvoiceRow
  <2> QED BY <2>1, <2>2, <2>3, <2>4 DEF RaceInv
<1>8. ASSUME NEW r \in Request, NEW k \in Invoice, IssueCollides(r, k)
      PROVE  RaceInv'
  <2>1. NeverUncollectible'
    BY <1>8 DEF IssueCollides, NeverUncollectible
  <2>2. Alone'
    BY <1>8 DEF IssueCollides, Alone, Idle, RequestState
  <2>3. Current'
    BY <1>8 DEF IssueCollides, Current, Idle, RequestState
  <2>4. BooksBalance'
    BY <1>8 DEF IssueCollides, BooksBalance, Balanced
  <2> QED BY <2>1, <2>2, <2>3, <2>4 DEF RaceInv
<1>9. ASSUME NEW r \in Request, NEW k \in Invoice, NEW amount \in Amount, PayRead(r, k, amount)
      PROVE  RaceInv'
  <2>1. NeverUncollectible'
    BY <1>9 DEF PayRead, NeverUncollectible
  <2>2. Alone'
    BY <1>9 DEF PayRead, Alone, Contended, Idle, RequestState
  <2>3. Current'
    BY <1>9 DEF PayRead, Current, Contended, PaymentFits, NeverUncollectible, InvoiceRow, Idle, RequestState
  <2>4. BooksBalance'
    BY <1>9 DEF PayRead, BooksBalance, Balanced, Contended
  <2> QED BY <2>1, <2>2, <2>3, <2>4 DEF RaceInv
<1>10. ASSUME NEW r \in Request, NEW k \in Invoice, PayCommit(r, k)
      PROVE  RaceInv'
  <2>1. NeverUncollectible'
    BY <1>10 DEF PayCommit, NeverUncollectible
  <2>2. Alone'
    BY <1>10 DEF PayCommit, Alone, Idle, RequestState
  <2>3. Current'
    BY <1>10 DEF PayCommit, Current, Alone, Idle, RequestState
  <2>4. BooksBalance'
    <3> SUFFICES ASSUME NEW i \in Invoice \ raced PROVE Balanced(i)'
      BY <1>10 DEF PayCommit, BooksBalance
    <3>0. Balanced(i)
      BY DEF BooksBalance
    <3>1. CASE i # k
      BY <1>10, <3>0, <3>1 DEF PayCommit, Balanced
    <3>2. CASE i = k
      <4>1. /\ invoices[i].status = "open" /\ invoices[i].paid = received[i] /\ revenue[i] = 0
            /\ request[r].paid = received[i] /\ received[i] \in Nat /\ Total[i] \in Nat
            /\ request[r].amount \in Nat /\ received[i] + request[r].amount <= Total[i]
        BY <1>10, <3>0, <3>2 DEF PayCommit, Current, Balanced, RequestState
      <4>2. received'[i] = received[i] + request[r].amount /\ invoices'[i].paid = received'[i]
        BY <1>10, <3>2, <4>1 DEF PayCommit
      <4>3. CASE received[i] + request[r].amount >= Total[i]
        <5>1. invoices'[i].status = "paid" /\ revenue'[i] = 1
          BY <1>10, <3>2, <4>1, <4>3 DEF PayCommit, Settles
        <5> QED BY <4>1, <4>2, <4>3, <5>1 DEF Balanced
      <4>4. CASE ~ (received[i] + request[r].amount >= Total[i])
        <5>1. invoices'[i].status = "open" /\ revenue'[i] = 0
          BY <1>10, <3>2, <4>1, <4>4 DEF PayCommit, Settles
        <5> QED BY <4>1, <4>2, <4>4, <5>1 DEF Balanced
      <4> QED BY <4>3, <4>4
    <3> QED BY <3>1, <3>2
  <2> QED BY <2>1, <2>2, <2>3, <2>4 DEF RaceInv
<1>11. ASSUME NEW r \in Request, NEW k \in Invoice, VoidRead(r, k)
      PROVE  RaceInv'
  <2>1. NeverUncollectible'
    BY <1>11 DEF VoidRead, NeverUncollectible
  <2>2. Alone'
    BY <1>11 DEF VoidRead, Alone, Contended, Idle, RequestState
  <2>3. Current'
    BY <1>11 DEF VoidRead, Current, Contended, CanTransition, Allowed, Idle, RequestState
  <2>4. BooksBalance'
    BY <1>11 DEF VoidRead, BooksBalance, Balanced, Contended
  <2> QED BY <2>1, <2>2, <2>3, <2>4 DEF RaceInv
<1>12. ASSUME NEW r \in Request, NEW k \in Invoice, VoidWrite(r, k)
      PROVE  RaceInv'
  <2>1. NeverUncollectible'
    BY <1>12 DEF VoidWrite, NeverUncollectible
  <2>2. Alone'
    BY <1>12 DEF VoidWrite, Alone, Idle, RequestState
  <2>3. Current'
    BY <1>12 DEF VoidWrite, Current, Alone, Idle, RequestState
  <2>4. BooksBalance'
    BY <1>12 DEF VoidWrite, BooksBalance, Balanced, Current, InvoiceRow
  <2> QED BY <2>1, <2>2, <2>3, <2>4 DEF RaceInv
<1>13. ASSUME NEW r \in Request, SweepRead(r)
      PROVE  RaceInv'
  <2>1. NeverUncollectible'
    BY <1>13 DEF SweepRead, NeverUncollectible
  <2>2. Alone'
    BY <1>13 DEF SweepRead, Alone, Contended, Idle, RequestState
  <2>3. Current'
    BY <1>13 DEF SweepRead, Current, Contended, IsOverdue, Idle, RequestState
  <2>4. BooksBalance'
    BY <1>13 DEF SweepRead, BooksBalance, Balanced, Contended
  <2> QED BY <2>1, <2>2, <2>3, <2>4 DEF RaceInv
<1>14. ASSUME NEW r \in Request, NEW k \in Invoice, SweepMark(r, k)
      PROVE  RaceInv'
  <2>1. NeverUncollectible'
    BY <1>14 DEF SweepMark, NeverUncollectible
  <2>2. Alone'
    BY <1>14 DEF SweepMark, Alone, Idle, RequestState
  <2>3. Current'
    BY <1>14 DEF SweepMark, Current, Idle, RequestState
  <2>4. BooksBalance'
    BY <1>14 DEF SweepMark, BooksBalance, Balanced
  <2> QED BY <2>1, <2>2, <2>3, <2>4 DEF RaceInv
<1>15. CASE UNCHANGED vars
  BY <1>15 DEF vars, RaceInv, NeverUncollectible, Alone, Current, BooksBalance, Balanced
<1>16. ASSUME NEW r \in Request, NEW s \in Subscription, RenewRead(r, s)
      PROVE  RaceInv'
  <2>1. NeverUncollectible'
    BY <1>16 DEF RenewRead, NeverUncollectible
  <2>2. Alone'
    BY <1>16 DEF RenewRead, Alone, Idle, RequestState
  <2>3. Current'
    BY <1>16 DEF RenewRead, Current, Idle, RequestState
  <2>4. BooksBalance'
    BY <1>16 DEF RenewRead, BooksBalance, Balanced
  <2> QED BY <2>1, <2>2, <2>3, <2>4 DEF RaceInv
<1>17. ASSUME NEW r \in Request, RenewEnds(r)
      PROVE  RaceInv'
  <2>1. NeverUncollectible'
    BY <1>17 DEF RenewEnds, NeverUncollectible
  <2>2. Alone'
    BY <1>17 DEF RenewEnds, Alone, Idle, RequestState
  <2>3. Current'
    BY <1>17 DEF RenewEnds, Current, Idle, RequestState
  <2>4. BooksBalance'
    BY <1>17 DEF RenewEnds, BooksBalance, Balanced
  <2> QED BY <2>1, <2>2, <2>3, <2>4 DEF RaceInv
<1>18. ASSUME NEW r \in Request, RenewWrite(r)
      PROVE  RaceInv'
  <2>1. NeverUncollectible'
    BY <1>18 DEF RenewWrite, NeverUncollectible
  <2>2. Alone'
    BY <1>18 DEF RenewWrite, Alone, Idle, RequestState
  <2>3. Current'
    BY <1>18 DEF RenewWrite, Current, Idle, RequestState
  <2>4. BooksBalance'
    BY <1>18 DEF RenewWrite, BooksBalance, Balanced
  <2> QED BY <2>1, <2>2, <2>3, <2>4 DEF RaceInv
<1>19. ASSUME NEW r \in Request, AlreadyBilled(r)
      PROVE  RaceInv'
  <2>1. NeverUncollectible'
    BY <1>19 DEF AlreadyBilled, NeverUncollectible
  <2>2. Alone'
    BY <1>19 DEF AlreadyBilled, Alone, Idle, RequestState
  <2>3. Current'
    BY <1>19 DEF AlreadyBilled, Current, Idle, RequestState
  <2>4. BooksBalance'
    BY <1>19 DEF AlreadyBilled, BooksBalance, Balanced
  <2> QED BY <2>1, <2>2, <2>3, <2>4 DEF RaceInv
<1> QED BY <1>1, <1>2, <1>3, <1>4, <1>5, <1>6, <1>7, <1>8, <1>9, <1>10, <1>11, <1>12, <1>13, <1>14, <1>15, <1>16, <1>17, <1>18, <1>19 DEF Next

-----------------------------------------------------------------------------
(* The numbering.  UsedNumbers only ever grows: what an invoice loses is   *)
(* remembered as lost.                                                     *)

NumbersChained ==
    /\ \A n \in UsedNumbers : n = 1 \/ n - 1 \in UsedNumbers
    /\ \A r \in Request : request[r].pc = "numbered" =>
         request[r].number = 1 \/ request[r].number - 1 \in UsedNumbers

LostOnlyRaced == \A i \in Invoice : lost[i] # {} => i \in raced

AbsentUnnumbered ==
    \A i \in Invoice : invoices[i].status = "absent" => invoices[i].number = NoNumber

NumbersInv == NumbersUnique /\ NumbersChained /\ LostOnlyRaced /\ AbsentUnnumbered

LEMMA UsedSame ==
    ASSUME lost' = lost, \A i \in Invoice : invoices'[i].number = invoices[i].number
    PROVE  UsedNumbers' = UsedNumbers
BY DEF UsedNumbers, TakenNumbers

LEMMA NumbersInit == Init => NumbersInv
<1> SUFFICES ASSUME Init PROVE NumbersInv
  OBVIOUS
<1>1. UsedNumbers = {}
  BY DEF Init, UsedNumbers, TakenNumbers, AbsentInvoice
<1> QED BY <1>1 DEF Init, NumbersInv, NumbersUnique, NumbersChained, LostOnlyRaced,
              AbsentUnnumbered, AbsentInvoice, Idle

LEMMA NumbersStep == TypeOK /\ RaceInv /\ NumbersInv /\ [Next]_vars => NumbersInv'
<1> SUFFICES ASSUME TypeOK, RaceInv, NumbersInv, [Next]_vars PROVE NumbersInv'
  OBVIOUS
<1> USE DEF TypeOK, NumbersInv
<1>1. ASSUME NEW k \in Invoice, CreateDraft(k)
      PROVE  NumbersInv'
  <2>1. \A i \in Invoice : invoices'[i].number = invoices[i].number
    BY <1>1 DEF CreateDraft, AbsentInvoice, AbsentUnnumbered, Exists, InvoiceRow
  <2>2. UsedNumbers' = UsedNumbers
    BY <1>1, <2>1, UsedSame DEF CreateDraft
  <2>3. NumbersChained'
    BY <1>1, <2>2 DEF CreateDraft, NumbersChained, Idle, RequestState
  <2>4. NumbersUnique' /\ LostOnlyRaced' /\ AbsentUnnumbered'
    BY <1>1, <2>1 DEF CreateDraft, NumbersUnique, LostOnlyRaced, AbsentUnnumbered
  <2> QED BY <2>3, <2>4
<1>2. ASSUME NEW r \in Request, NEW k \in Invoice, InvoiceForPeriod(r, k)
      PROVE  NumbersInv'
  <2>1. \A i \in Invoice : invoices'[i].number = invoices[i].number
    BY <1>2 DEF InvoiceForPeriod, AbsentInvoice, AbsentUnnumbered, Exists, InvoiceRow
  <2>2. UsedNumbers' = UsedNumbers
    BY <1>2, <2>1, UsedSame DEF InvoiceForPeriod
  <2>3. NumbersChained'
    BY <1>2, <2>2 DEF InvoiceForPeriod, NumbersChained, Idle, RequestState
  <2>4. NumbersUnique' /\ LostOnlyRaced' /\ AbsentUnnumbered'
    BY <1>2, <2>1 DEF InvoiceForPeriod, NumbersUnique, LostOnlyRaced, AbsentUnnumbered
  <2> QED BY <2>3, <2>4
<1>3. ASSUME NEW k \in Invoice, FallDue(k)
      PROVE  NumbersInv'
  <2>1. \A i \in Invoice : invoices'[i].number = invoices[i].number
    BY <1>3 DEF FallDue
  <2>2. UsedNumbers' = UsedNumbers
    BY <1>3, <2>1, UsedSame DEF FallDue
  <2>3. NumbersChained'
    BY <1>3, <2>2 DEF FallDue, NumbersChained, Idle, RequestState
  <2>4. NumbersUnique' /\ LostOnlyRaced' /\ AbsentUnnumbered'
    BY <1>3, <2>1 DEF FallDue, NumbersUnique, LostOnlyRaced, AbsentUnnumbered
  <2> QED BY <2>3, <2>4
<1>4. ASSUME NEW s \in Subscription, CancelSubscription(s)
      PROVE  NumbersInv'
  <2>1. \A i \in Invoice : invoices'[i].number = invoices[i].number
    BY <1>4 DEF CancelSubscription
  <2>2. UsedNumbers' = UsedNumbers
    BY <1>4, <2>1, UsedSame DEF CancelSubscription
  <2>3. NumbersChained'
    BY <1>4, <2>2 DEF CancelSubscription, NumbersChained, Idle, RequestState
  <2>4. NumbersUnique' /\ LostOnlyRaced' /\ AbsentUnnumbered'
    BY <1>4, <2>1 DEF CancelSubscription, NumbersUnique, LostOnlyRaced, AbsentUnnumbered
  <2> QED BY <2>3, <2>4
<1>5. ASSUME NEW r \in Request, NEW k \in Invoice, IssueRead(r, k)
      PROVE  NumbersInv'
  <2>1. \A i \in Invoice : invoices'[i].number = invoices[i].number
    BY <1>5 DEF IssueRead
  <2>2. UsedNumbers' = UsedNumbers
    BY <1>5, <2>1, UsedSame DEF IssueRead
  <2>3. NumbersChained'
    BY <1>5, <2>2 DEF IssueRead, NumbersChained, Idle, RequestState
  <2>4. NumbersUnique' /\ LostOnlyRaced' /\ AbsentUnnumbered'
    BY <1>5, <2>1 DEF IssueRead, NumbersUnique, LostOnlyRaced, AbsentUnnumbered
  <2> QED BY <2>3, <2>4
<1>6. ASSUME NEW r \in Request, IssueNumber(r)
      PROVE  NumbersInv'
  <2>1. PICK n \in NextNumbers(TakenNumbers) :
           request' = [request EXCEPT ![r] = [@ EXCEPT !.pc = "numbered", !.number = n]]
    BY <1>6 DEF IssueNumber
  <2>2. n = 1 \/ n - 1 \in UsedNumbers
    BY <2>1, TakenType, NextNumbersFollow DEF UsedNumbers
  <2>3. UsedNumbers' = UsedNumbers
    BY <1>6, UsedSame DEF IssueNumber
  <2>4. NumbersChained'
    BY <2>1, <2>2, <2>3 DEF NumbersChained, RequestState
  <2>5. NumbersUnique' /\ LostOnlyRaced' /\ AbsentUnnumbered'
    BY <1>6 DEF IssueNumber, NumbersUnique, LostOnlyRaced, AbsentUnnumbered
  <2> QED BY <2>4, <2>5
<1>7. ASSUME NEW r \in Request, NEW k \in Invoice, IssueCommit(r, k)
      PROVE  NumbersInv'
  <2> DEFINE new == request[r].number
  <2>1. /\ new \in Nat /\ new # NoNumber /\ (new = 1 \/ new - 1 \in UsedNumbers)
        /\ \A i \in Invoice : invoices'[i].number = IF i = k THEN new ELSE invoices[i].number
        /\ \A i \in Invoice : lost[i] \subseteq lost'[i]
    BY <1>7, NoNumberAssumption DEF IssueCommit, RequestState, NumbersChained
  <2>2. invoices[k].number \in lost'[k] \cup {NoNumber, new}
    BY <1>7 DEF IssueCommit
  <2>3. UsedNumbers \subseteq UsedNumbers'
    <3>1. TakenNumbers \subseteq UsedNumbers'
      BY <2>1, <2>2 DEF TakenNumbers, UsedNumbers
    <3>2. UNION {lost[i] : i \in Invoice} \subseteq UsedNumbers'
      BY <2>1 DEF UsedNumbers
    <3> QED BY <3>1, <3>2 DEF UsedNumbers
  <2>4. UsedNumbers' \subseteq UsedNumbers \cup {new}
    <3>1. TakenNumbers' \subseteq UsedNumbers \cup {new}
      BY <2>1 DEF TakenNumbers, UsedNumbers
    <3>2. \A i \in Invoice : lost'[i] \subseteq UsedNumbers
      BY <1>7 DEF IssueCommit, UsedNumbers, TakenNumbers
    <3> QED BY <3>1, <3>2 DEF UsedNumbers
  <2>5. NumbersChained'
    <3>1. \A n \in UsedNumbers' : n = 1 \/ n - 1 \in UsedNumbers'
      BY <2>1, <2>3, <2>4 DEF NumbersChained
    <3>2. \A q \in Request : request'[q].pc = "numbered" =>
            request'[q].number = 1 \/ request'[q].number - 1 \in UsedNumbers'
      BY <1>7, <2>3 DEF IssueCommit, NumbersChained, Idle
    <3> QED BY <3>1, <3>2 DEF NumbersChained
  <2>6. NumbersUnique'
    BY <1>7, <2>1 DEF IssueCommit, IndexAllows, NumbersUnique
  <2>8. AbsentUnnumbered'
    BY <1>7 DEF IssueCommit, AbsentUnnumbered
  <2>7. LostOnlyRaced'
    BY <1>7 DEF IssueCommit, LostOnlyRaced, RaceInv, Current, BooksBalance, Balanced
  <2> QED BY <2>5, <2>6, <2>7, <2>8
<1>8. ASSUME NEW r \in Request, NEW k \in Invoice, IssueCollides(r, k)
      PROVE  NumbersInv'
  <2>1. \A i \in Invoice : invoices'[i].number = invoices[i].number
    BY <1>8 DEF IssueCollides
  <2>2. UsedNumbers' = UsedNumbers
    BY <1>8, <2>1, UsedSame DEF IssueCollides
  <2>3. NumbersChained'
    BY <1>8, <2>2 DEF IssueCollides, NumbersChained, Idle, RequestState
  <2>4. NumbersUnique' /\ LostOnlyRaced' /\ AbsentUnnumbered'
    BY <1>8, <2>1 DEF IssueCollides, NumbersUnique, LostOnlyRaced, AbsentUnnumbered
  <2> QED BY <2>3, <2>4
<1>9. ASSUME NEW r \in Request, NEW k \in Invoice, NEW amount \in Amount, PayRead(r, k, amount)
      PROVE  NumbersInv'
  <2>1. \A i \in Invoice : invoices'[i].number = invoices[i].number
    BY <1>9 DEF PayRead
  <2>2. UsedNumbers' = UsedNumbers
    BY <1>9, <2>1, UsedSame DEF PayRead
  <2>3. NumbersChained'
    BY <1>9, <2>2 DEF PayRead, NumbersChained, Idle, RequestState
  <2>4. NumbersUnique' /\ LostOnlyRaced' /\ AbsentUnnumbered'
    BY <1>9, <2>1 DEF PayRead, NumbersUnique, LostOnlyRaced, AbsentUnnumbered
  <2> QED BY <2>3, <2>4
<1>10. ASSUME NEW r \in Request, NEW k \in Invoice, PayCommit(r, k)
      PROVE  NumbersInv'
  <2>1. \A i \in Invoice : invoices'[i].number = invoices[i].number
    BY <1>10 DEF PayCommit, InvoiceRow
  <2>2. UsedNumbers' = UsedNumbers
    BY <1>10, <2>1, UsedSame DEF PayCommit
  <2>3. NumbersChained'
    BY <1>10, <2>2 DEF PayCommit, NumbersChained, Idle, RequestState
  <2>4. NumbersUnique' /\ LostOnlyRaced' /\ AbsentUnnumbered'
    BY <1>10, <2>1 DEF PayCommit, NumbersUnique, LostOnlyRaced, AbsentUnnumbered
  <2> QED BY <2>3, <2>4
<1>11. ASSUME NEW r \in Request, NEW k \in Invoice, VoidRead(r, k)
      PROVE  NumbersInv'
  <2>1. \A i \in Invoice : invoices'[i].number = invoices[i].number
    BY <1>11 DEF VoidRead
  <2>2. UsedNumbers' = UsedNumbers
    BY <1>11, <2>1, UsedSame DEF VoidRead
  <2>3. NumbersChained'
    BY <1>11, <2>2 DEF VoidRead, NumbersChained, Idle, RequestState
  <2>4. NumbersUnique' /\ LostOnlyRaced' /\ AbsentUnnumbered'
    BY <1>11, <2>1 DEF VoidRead, NumbersUnique, LostOnlyRaced, AbsentUnnumbered
  <2> QED BY <2>3, <2>4
<1>12. ASSUME NEW r \in Request, NEW k \in Invoice, VoidWrite(r, k)
      PROVE  NumbersInv'
  <2>1. \A i \in Invoice : invoices'[i].number = invoices[i].number
    BY <1>12 DEF VoidWrite, InvoiceRow
  <2>2. UsedNumbers' = UsedNumbers
    BY <1>12, <2>1, UsedSame DEF VoidWrite
  <2>3. NumbersChained'
    BY <1>12, <2>2 DEF VoidWrite, NumbersChained, Idle, RequestState
  <2>4. NumbersUnique' /\ LostOnlyRaced' /\ AbsentUnnumbered'
    BY <1>12, <2>1 DEF VoidWrite, NumbersUnique, LostOnlyRaced, AbsentUnnumbered
  <2> QED BY <2>3, <2>4
<1>13. ASSUME NEW r \in Request, SweepRead(r)
      PROVE  NumbersInv'
  <2>1. \A i \in Invoice : invoices'[i].number = invoices[i].number
    BY <1>13 DEF SweepRead
  <2>2. UsedNumbers' = UsedNumbers
    BY <1>13, <2>1, UsedSame DEF SweepRead
  <2>3. NumbersChained'
    BY <1>13, <2>2 DEF SweepRead, NumbersChained, Idle, RequestState
  <2>4. NumbersUnique' /\ LostOnlyRaced' /\ AbsentUnnumbered'
    BY <1>13, <2>1 DEF SweepRead, NumbersUnique, LostOnlyRaced, AbsentUnnumbered
  <2> QED BY <2>3, <2>4
<1>14. ASSUME NEW r \in Request, NEW k \in Invoice, SweepMark(r, k)
      PROVE  NumbersInv'
  <2>1. \A i \in Invoice : invoices'[i].number = invoices[i].number
    BY <1>14 DEF SweepMark
  <2>2. UsedNumbers' = UsedNumbers
    BY <1>14, <2>1, UsedSame DEF SweepMark
  <2>3. NumbersChained'
    BY <1>14, <2>2 DEF SweepMark, NumbersChained, Idle, RequestState
  <2>4. NumbersUnique' /\ LostOnlyRaced' /\ AbsentUnnumbered'
    BY <1>14, <2>1 DEF SweepMark, NumbersUnique, LostOnlyRaced, AbsentUnnumbered
  <2> QED BY <2>3, <2>4
<1>15. CASE UNCHANGED vars
  <2>1. UsedNumbers' = UsedNumbers
    BY <1>15, UsedSame DEF vars
  <2> QED BY <1>15, <2>1 DEF vars, NumbersUnique, NumbersChained, LostOnlyRaced, AbsentUnnumbered
<1>16. ASSUME NEW r \in Request, NEW s \in Subscription, RenewRead(r, s)
      PROVE  NumbersInv'
  <2>1. \A i \in Invoice : invoices'[i].number = invoices[i].number
    BY <1>16 DEF RenewRead
  <2>2. UsedNumbers' = UsedNumbers
    BY <1>16, <2>1, UsedSame DEF RenewRead
  <2>3. NumbersChained'
    BY <1>16, <2>2 DEF RenewRead, NumbersChained, Idle, RequestState
  <2>4. NumbersUnique' /\ LostOnlyRaced' /\ AbsentUnnumbered'
    BY <1>16, <2>1 DEF RenewRead, NumbersUnique, LostOnlyRaced, AbsentUnnumbered
  <2> QED BY <2>3, <2>4
<1>17. ASSUME NEW r \in Request, RenewEnds(r)
      PROVE  NumbersInv'
  <2>1. \A i \in Invoice : invoices'[i].number = invoices[i].number
    BY <1>17 DEF RenewEnds
  <2>2. UsedNumbers' = UsedNumbers
    BY <1>17, <2>1, UsedSame DEF RenewEnds
  <2>3. NumbersChained'
    BY <1>17, <2>2 DEF RenewEnds, NumbersChained, Idle, RequestState
  <2>4. NumbersUnique' /\ LostOnlyRaced' /\ AbsentUnnumbered'
    BY <1>17, <2>1 DEF RenewEnds, NumbersUnique, LostOnlyRaced, AbsentUnnumbered
  <2> QED BY <2>3, <2>4
<1>18. ASSUME NEW r \in Request, RenewWrite(r)
      PROVE  NumbersInv'
  <2>1. \A i \in Invoice : invoices'[i].number = invoices[i].number
    BY <1>18 DEF RenewWrite
  <2>2. UsedNumbers' = UsedNumbers
    BY <1>18, <2>1, UsedSame DEF RenewWrite
  <2>3. NumbersChained'
    BY <1>18, <2>2 DEF RenewWrite, NumbersChained, Idle, RequestState
  <2>4. NumbersUnique' /\ LostOnlyRaced' /\ AbsentUnnumbered'
    BY <1>18, <2>1 DEF RenewWrite, NumbersUnique, LostOnlyRaced, AbsentUnnumbered
  <2> QED BY <2>3, <2>4
<1>19. ASSUME NEW r \in Request, AlreadyBilled(r)
      PROVE  NumbersInv'
  <2>1. \A i \in Invoice : invoices'[i].number = invoices[i].number
    BY <1>19 DEF AlreadyBilled
  <2>2. UsedNumbers' = UsedNumbers
    BY <1>19, <2>1, UsedSame DEF AlreadyBilled
  <2>3. NumbersChained'
    BY <1>19, <2>2 DEF AlreadyBilled, NumbersChained, Idle, RequestState
  <2>4. NumbersUnique' /\ LostOnlyRaced' /\ AbsentUnnumbered'
    BY <1>19, <2>1 DEF AlreadyBilled, NumbersUnique, LostOnlyRaced, AbsentUnnumbered
  <2> QED BY <2>3, <2>4
<1> QED BY <1>1, <1>2, <1>3, <1>4, <1>5, <1>6, <1>7, <1>8, <1>9, <1>10, <1>11, <1>12, <1>13, <1>14, <1>15, <1>16, <1>17, <1>18, <1>19 DEF Next

-----------------------------------------------------------------------------
(* A subscription is past due for an overdue invoice; what a sweep has in  *)
(* its list has fallen due, even if it has been paid since.                *)

SweptOverdue ==
    \A r \in Request : request[r].pc = "sweeping" => request[r].holds \subseteq overdue

DunningInv == SweptOverdue /\ PastDueExplained

LEMMA DunningInit == Init => DunningInv
BY DEF Init, DunningInv, SweptOverdue, PastDueExplained, Idle

LEMMA DunningStep == TypeOK /\ RaceInv /\ DunningInv /\ [Next]_vars => DunningInv'
<1> SUFFICES ASSUME TypeOK, RaceInv, DunningInv, [Next]_vars PROVE DunningInv'
  OBVIOUS
<1> USE SubscriptionOfAssumption, NoSubscriptionAssumption DEF TypeOK, DunningInv
<1>1. ASSUME NEW k \in Invoice, CreateDraft(k)
      PROVE  DunningInv'
  <2>1. SweptOverdue'
    BY <1>1 DEF CreateDraft, SweptOverdue
  <2>2. PastDueExplained'
    BY <1>1 DEF CreateDraft, PastDueExplained, AbsentInvoice, Exists, InvoiceRow
  <2> QED BY <2>1, <2>2 DEF DunningInv
<1>2. ASSUME NEW r \in Request, NEW k \in Invoice, InvoiceForPeriod(r, k)
      PROVE  DunningInv'
  <2>1. SweptOverdue'
    BY <1>2 DEF InvoiceForPeriod, SweptOverdue, Idle, RequestState
  <2>2. PastDueExplained'
    BY <1>2 DEF InvoiceForPeriod, PastDueExplained, AbsentInvoice, Exists, InvoiceRow
  <2> QED BY <2>1, <2>2 DEF DunningInv
<1>3. ASSUME NEW k \in Invoice, FallDue(k)
      PROVE  DunningInv'
  <2>1. SweptOverdue'
    BY <1>3 DEF FallDue, SweptOverdue
  <2>2. PastDueExplained'
    BY <1>3 DEF FallDue, PastDueExplained
  <2> QED BY <2>1, <2>2 DEF DunningInv
<1>4. ASSUME NEW s \in Subscription, CancelSubscription(s)
      PROVE  DunningInv'
  <2>1. SweptOverdue'
    BY <1>4 DEF CancelSubscription, SweptOverdue
  <2>2. PastDueExplained'
    BY <1>4 DEF CancelSubscription, PastDueExplained
  <2> QED BY <2>1, <2>2 DEF DunningInv
<1>5. ASSUME NEW r \in Request, NEW k \in Invoice, IssueRead(r, k)
      PROVE  DunningInv'
  <2>1. SweptOverdue'
    BY <1>5 DEF IssueRead, SweptOverdue, Idle, RequestState
  <2>2. PastDueExplained'
    BY <1>5 DEF IssueRead, PastDueExplained
  <2> QED BY <2>1, <2>2 DEF DunningInv
<1>6. ASSUME NEW r \in Request, IssueNumber(r)
      PROVE  DunningInv'
  <2>1. SweptOverdue'
    BY <1>6 DEF IssueNumber, SweptOverdue, Idle, RequestState
  <2>2. PastDueExplained'
    BY <1>6 DEF IssueNumber, PastDueExplained
  <2> QED BY <2>1, <2>2 DEF DunningInv
<1>7. ASSUME NEW r \in Request, NEW k \in Invoice, IssueCommit(r, k)
      PROVE  DunningInv'
  <2>1. SweptOverdue'
    BY <1>7 DEF IssueCommit, SweptOverdue, Idle, RequestState
  <2>2. PastDueExplained'
    BY <1>7 DEF IssueCommit, PastDueExplained
  <2> QED BY <2>1, <2>2 DEF DunningInv
<1>8. ASSUME NEW r \in Request, NEW k \in Invoice, IssueCollides(r, k)
      PROVE  DunningInv'
  <2>1. SweptOverdue'
    BY <1>8 DEF IssueCollides, SweptOverdue, Idle, RequestState
  <2>2. PastDueExplained'
    BY <1>8 DEF IssueCollides, PastDueExplained
  <2> QED BY <2>1, <2>2 DEF DunningInv
<1>9. ASSUME NEW r \in Request, NEW k \in Invoice, NEW amount \in Amount, PayRead(r, k, amount)
      PROVE  DunningInv'
  <2>1. SweptOverdue'
    BY <1>9 DEF PayRead, SweptOverdue, Idle, RequestState
  <2>2. PastDueExplained'
    BY <1>9 DEF PayRead, PastDueExplained
  <2> QED BY <2>1, <2>2 DEF DunningInv
<1>10. ASSUME NEW r \in Request, NEW k \in Invoice, PayCommit(r, k)
      PROVE  DunningInv'
  <2>1. SweptOverdue'
    BY <1>10 DEF PayCommit, SweptOverdue, Idle, RequestState
  <2>2. PastDueExplained'
    BY <1>10 DEF PayCommit, PastDueExplained, Restored, Settles, InvoiceRow
  <2> QED BY <2>1, <2>2 DEF DunningInv
<1>11. ASSUME NEW r \in Request, NEW k \in Invoice, VoidRead(r, k)
      PROVE  DunningInv'
  <2>1. SweptOverdue'
    BY <1>11 DEF VoidRead, SweptOverdue, Idle, RequestState
  <2>2. PastDueExplained'
    BY <1>11 DEF VoidRead, PastDueExplained
  <2> QED BY <2>1, <2>2 DEF DunningInv
<1>12. ASSUME NEW r \in Request, NEW k \in Invoice, VoidWrite(r, k)
      PROVE  DunningInv'
  <2>1. SweptOverdue'
    BY <1>12 DEF VoidWrite, SweptOverdue, Idle, RequestState
  <2>2. PastDueExplained'
    BY <1>12 DEF VoidWrite, PastDueExplained
  <2> QED BY <2>1, <2>2 DEF DunningInv
<1>13. ASSUME NEW r \in Request, SweepRead(r)
      PROVE  DunningInv'
  <2>1. SweptOverdue'
    BY <1>13 DEF SweepRead, SweptOverdue, IsOverdue, Idle, RequestState
  <2>2. PastDueExplained'
    BY <1>13 DEF SweepRead, PastDueExplained
  <2> QED BY <2>1, <2>2 DEF DunningInv
<1>14. ASSUME NEW r \in Request, NEW k \in Invoice, SweepMark(r, k)
      PROVE  DunningInv'
  <2>1. SweptOverdue'
    BY <1>14 DEF SweepMark, SweptOverdue, Idle, RequestState
  <2>2. PastDueExplained'
    BY <1>14 DEF SweepMark, PastDueExplained, Dunned, SweptOverdue, RaceInv, Current
  <2> QED BY <2>1, <2>2 DEF DunningInv
<1>15. CASE UNCHANGED vars
  BY <1>15 DEF vars, DunningInv, SweptOverdue, PastDueExplained
<1>16. ASSUME NEW r \in Request, NEW s \in Subscription, RenewRead(r, s)
      PROVE  DunningInv'
  <2>1. SweptOverdue'
    BY <1>16 DEF RenewRead, SweptOverdue, Idle, RequestState
  <2>2. PastDueExplained'
    BY <1>16 DEF RenewRead, PastDueExplained
  <2> QED BY <2>1, <2>2 DEF DunningInv
<1>17. ASSUME NEW r \in Request, RenewEnds(r)
      PROVE  DunningInv'
  <2>1. SweptOverdue'
    BY <1>17 DEF RenewEnds, SweptOverdue, Idle, RequestState
  <2>2. PastDueExplained'
    BY <1>17 DEF RenewEnds, PastDueExplained
  <2> QED BY <2>1, <2>2 DEF DunningInv
<1>18. ASSUME NEW r \in Request, RenewWrite(r)
      PROVE  DunningInv'
  <2>1. SweptOverdue'
    BY <1>18 DEF RenewWrite, SweptOverdue, Idle, RequestState
  <2>2. PastDueExplained'
    BY <1>18 DEF RenewWrite, PastDueExplained
  <2> QED BY <2>1, <2>2 DEF DunningInv
<1>19. ASSUME NEW r \in Request, AlreadyBilled(r)
      PROVE  DunningInv'
  <2>1. SweptOverdue'
    BY <1>19 DEF AlreadyBilled, SweptOverdue, Idle, RequestState
  <2>2. PastDueExplained'
    BY <1>19 DEF AlreadyBilled, PastDueExplained
  <2> QED BY <2>1, <2>2 DEF DunningInv
<1> QED BY <1>1, <1>2, <1>3, <1>4, <1>5, <1>6, <1>7, <1>8, <1>9, <1>10, <1>11, <1>12, <1>13, <1>14, <1>15, <1>16, <1>17, <1>18, <1>19 DEF Next

-----------------------------------------------------------------------------
(* The theorems *)

Inv == TypeOK /\ MoneyInv /\ RaceInv /\ NumbersInv /\ DunningInv

LEMMA InvAlways == Spec => []Inv
BY TypeInit, TypeStep, MoneyInit, MoneyStep, RaceInit, RaceStep, NumbersInit, NumbersStep,
   DunningInit, DunningStep, PTL DEF Spec, Inv

\* No two invoices have the same number, however issues interleave.
THEOREM NumbersUniqueHolds == Spec => []NumbersUnique
<1>1. Inv => NumbersUnique
  BY DEF Inv, NumbersInv
<1> QED BY <1>1, InvAlways, PTL

\* Numbers follow one another, and only an invoice that two requests worked on at
\* once ever loses the number `issue` gave it.
THEOREM NumbersInOrderHolds == Spec => []NumbersInOrder
<1>1. Inv => NumbersInOrder
  BY DEF Inv, NumbersInv, NumbersChained, LostOnlyRaced, NumbersInOrder
<1> QED BY <1>1, InvAlways, PTL

\* What `issue` gives out is unique and sequential, however issues interleave.
THEOREM NumbersSequentialHolds == Spec => []NumbersSequential
<1>1. NumbersUnique /\ NumbersInOrder => NumbersSequential
  BY DEF NumbersSequential
<1> QED BY <1>1, NumbersUniqueHolds, NumbersInOrderHolds, PTL

\* recordPayment, racing with anything: an invoice never claims more than was
\* received or owed, and revenue is only written for totals received.
THEOREM MoneyBoundsHolds == Spec => []MoneyBounds
<1>1. Inv => MoneyBounds
  BY DEF Inv, MoneyInv
<1> QED BY <1>1, InvAlways, PTL

\* The books of an invoice that no two requests worked on at once are exact.
THEOREM BooksBalanceHolds == Spec => []BooksBalance
<1>1. Inv => BooksBalance
  BY DEF Inv, RaceInv
<1> QED BY <1>1, InvAlways, PTL

\* Payments, invoices and ledger agree.
THEOREM MoneyAgreesHolds == Spec => []MoneyAgrees
<1>1. MoneyBounds /\ BooksBalance => MoneyAgrees
  BY DEF MoneyAgrees
<1> QED BY <1>1, MoneyBoundsHolds, BooksBalanceHolds, PTL

\* `sweep` marks, and a settling payment restores, as the invoices say.
THEOREM PastDueExplainedHolds == Spec => []PastDueExplained
<1>1. Inv => PastDueExplained
  BY DEF Inv, DunningInv
<1> QED BY <1>1, InvAlways, PTL

\* A canceled subscription stays so through sweeps, payments and requests to cancel;
\* only a renewal that had read its row before brings it back.
THEOREM CanceledStaysCanceledHolds == Spec => CanceledStaysCanceled
<1>1. Inv /\ [Next]_vars => [\A s \in Subscription :
         subscriptions[s] = "canceled" /\ subscriptions'[s] # "canceled" =>
           \E r \in Request : request[r].renews = s /\ RenewWrite(r)]_vars
  <2> SUFFICES ASSUME Inv, Next, NEW s \in Subscription, subscriptions[s] = "canceled",
                      ~ \E r \in Request : request[r].renews = s /\ RenewWrite(r)
               PROVE  subscriptions'[s] = "canceled"
    OBVIOUS
  <2> USE DEF Inv, TypeOK
  <2>1. ASSUME NEW k \in Invoice, CreateDraft(k)
         PROVE  subscriptions'[s] = "canceled"
    BY <2>1 DEF CreateDraft
  <2>2. ASSUME NEW r \in Request, NEW k \in Invoice, InvoiceForPeriod(r, k)
         PROVE  subscriptions'[s] = "canceled"
    BY <2>2 DEF InvoiceForPeriod
  <2>3. ASSUME NEW k \in Invoice, FallDue(k)
         PROVE  subscriptions'[s] = "canceled"
    BY <2>3 DEF FallDue
  <2>4. ASSUME NEW t \in Subscription, CancelSubscription(t)
         PROVE  subscriptions'[s] = "canceled"
    BY <2>4 DEF CancelSubscription
  <2>5. ASSUME NEW r \in Request, NEW k \in Invoice, IssueRead(r, k)
         PROVE  subscriptions'[s] = "canceled"
    BY <2>5 DEF IssueRead
  <2>6. ASSUME NEW r \in Request, IssueNumber(r)
         PROVE  subscriptions'[s] = "canceled"
    BY <2>6 DEF IssueNumber
  <2>7. ASSUME NEW r \in Request, NEW k \in Invoice, IssueCommit(r, k)
         PROVE  subscriptions'[s] = "canceled"
    BY <2>7 DEF IssueCommit
  <2>8. ASSUME NEW r \in Request, NEW k \in Invoice, IssueCollides(r, k)
         PROVE  subscriptions'[s] = "canceled"
    BY <2>8 DEF IssueCollides
  <2>9. ASSUME NEW r \in Request, NEW k \in Invoice, NEW amount \in Amount, PayRead(r, k, amount)
         PROVE  subscriptions'[s] = "canceled"
    BY <2>9 DEF PayRead
  <2>10. ASSUME NEW r \in Request, NEW k \in Invoice, PayCommit(r, k)
         PROVE  subscriptions'[s] = "canceled"
    BY <2>10 DEF PayCommit, Restored
  <2>11. ASSUME NEW r \in Request, NEW k \in Invoice, VoidRead(r, k)
         PROVE  subscriptions'[s] = "canceled"
    BY <2>11 DEF VoidRead
  <2>12. ASSUME NEW r \in Request, NEW k \in Invoice, VoidWrite(r, k)
         PROVE  subscriptions'[s] = "canceled"
    BY <2>12 DEF VoidWrite
  <2>13. ASSUME NEW r \in Request, SweepRead(r)
         PROVE  subscriptions'[s] = "canceled"
    BY <2>13 DEF SweepRead
  <2>14. ASSUME NEW r \in Request, NEW k \in Invoice, SweepMark(r, k)
         PROVE  subscriptions'[s] = "canceled"
    BY <2>14 DEF SweepMark, Dunned
  <2>15. ASSUME NEW r \in Request, NEW t \in Subscription, RenewRead(r, t)
         PROVE  subscriptions'[s] = "canceled"
    BY <2>15 DEF RenewRead
  <2>16. ASSUME NEW r \in Request, RenewEnds(r)
         PROVE  subscriptions'[s] = "canceled"
    BY <2>16 DEF RenewEnds
  <2>17. ASSUME NEW r \in Request, RenewWrite(r)
         PROVE  subscriptions'[s] = "canceled"
    BY <2>17 DEF RenewWrite
  <2>18. ASSUME NEW r \in Request, AlreadyBilled(r)
         PROVE  subscriptions'[s] = "canceled"
    BY <2>18 DEF AlreadyBilled
  <2> QED BY <2>1, <2>2, <2>3, <2>4, <2>5, <2>6, <2>7, <2>8, <2>9, <2>10, <2>11, <2>12, <2>13, <2>14,
           <2>15, <2>16, <2>17, <2>18 DEF Next
<1> QED BY <1>1, InvAlways, PTL DEF Spec, CanceledStaysCanceled

\* The status of an invoice that no two requests worked on at once moves only as
\* invoice-state.ts allows, although the check and the write are apart.
THEOREM MovesAllowedHolds == Spec => MovesAllowed
<1>1. Inv /\ [Next]_vars => [\A i \in Invoice \ raced :
         \/ invoices[i].status \in {"absent", invoices'[i].status}
         \/ <<invoices[i].status, invoices'[i].status>> \in Allowed]_vars
  <2> DEFINE Moves(i) == \/ invoices[i].status \in {"absent", invoices'[i].status}
                         \/ <<invoices[i].status, invoices'[i].status>> \in Allowed
  <2> SUFFICES ASSUME Inv, Next, NEW i \in Invoice \ raced PROVE Moves(i)
    OBVIOUS
  <2> USE DEF Inv, TypeOK, RaceInv, Current
  <2>1. ASSUME NEW k \in Invoice, CreateDraft(k)
         PROVE  Moves(i)
    BY <2>1 DEF CreateDraft, Exists
  <2>2. ASSUME NEW r \in Request, NEW k \in Invoice, InvoiceForPeriod(r, k)
         PROVE  Moves(i)
    BY <2>2 DEF InvoiceForPeriod, Exists
  <2>3. ASSUME NEW k \in Invoice, FallDue(k)
         PROVE  Moves(i)
    BY <2>3 DEF FallDue
  <2>4. ASSUME NEW s \in Subscription, CancelSubscription(s)
         PROVE  Moves(i)
    BY <2>4 DEF CancelSubscription
  <2>5. ASSUME NEW r \in Request, NEW k \in Invoice, IssueRead(r, k)
         PROVE  Moves(i)
    BY <2>5 DEF IssueRead
  <2>6. ASSUME NEW r \in Request, IssueNumber(r)
         PROVE  Moves(i)
    BY <2>6 DEF IssueNumber
  <2>7. ASSUME NEW r \in Request, NEW k \in Invoice, IssueCommit(r, k)
         PROVE  Moves(i)
    BY <2>7 DEF IssueCommit, Allowed
  <2>8. ASSUME NEW r \in Request, NEW k \in Invoice, IssueCollides(r, k)
         PROVE  Moves(i)
    BY <2>8 DEF IssueCollides
  <2>9. ASSUME NEW r \in Request, NEW k \in Invoice, NEW amount \in Amount, PayRead(r, k, amount)
         PROVE  Moves(i)
    BY <2>9 DEF PayRead
  <2>10. ASSUME NEW r \in Request, NEW k \in Invoice, PayCommit(r, k)
         PROVE  Moves(i)
    BY <2>10 DEF PayCommit, Settles, Allowed
  <2>11. ASSUME NEW r \in Request, NEW k \in Invoice, VoidRead(r, k)
         PROVE  Moves(i)
    BY <2>11 DEF VoidRead
  <2>12. ASSUME NEW r \in Request, NEW k \in Invoice, VoidWrite(r, k)
         PROVE  Moves(i)
    BY <2>12 DEF VoidWrite, Allowed
  <2>13. ASSUME NEW r \in Request, SweepRead(r)
         PROVE  Moves(i)
    BY <2>13 DEF SweepRead
  <2>14. ASSUME NEW r \in Request, NEW k \in Invoice, SweepMark(r, k)
         PROVE  Moves(i)
    BY <2>14 DEF SweepMark
  <2>15. ASSUME NEW r \in Request, NEW s \in Subscription, RenewRead(r, s)
         PROVE  Moves(i)
    BY <2>15 DEF RenewRead
  <2>16. ASSUME NEW r \in Request, RenewEnds(r)
         PROVE  Moves(i)
    BY <2>16 DEF RenewEnds
  <2>17. ASSUME NEW r \in Request, RenewWrite(r)
         PROVE  Moves(i)
    BY <2>17 DEF RenewWrite
  <2>18. ASSUME NEW r \in Request, AlreadyBilled(r)
         PROVE  Moves(i)
    BY <2>18 DEF AlreadyBilled
  <2> QED BY <2>1, <2>2, <2>3, <2>4, <2>5, <2>6, <2>7, <2>8, <2>9, <2>10, <2>11, <2>12, <2>13, <2>14,
           <2>15, <2>16, <2>17, <2>18 DEF Next
<1> QED BY <1>1, InvAlways, PTL DEF Spec, MovesAllowed

(***************************************************************************)
(*                                Analytics                                *)
(***************************************************************************)
(* Sums over a finite set.  The library defines a sum by the function that *)
(* unfolds it over the subsets; that there is one follows by induction on  *)
(* them, as a least subset for which it fails (LeastSubset).               *)

Chosen(S) == CHOOSE x \in S : TRUE
Rest(S) == S \ {Chosen(S)}

\* g is the fold of f over S and its subsets.
Unfolds(g, f, S) == g = [s \in SUBSET S |-> IF s = {} THEN 0 ELSE f[Chosen(s)] + g[Rest(s)]]
FoldOf(f, S) == CHOOSE g : Unfolds(g, f, S)

LEMMA SumIsFold ==
    ASSUME NEW f, NEW S
    PROVE  SumFunctionOnSet(f, S) = FoldOf(f, S)[S]
BY DEF SumFunctionOnSet, FoldFunctionOnSet, MapThenFoldSet, FoldOf, Unfolds, Chosen, Rest

\* What fails for a subset fails for a least one.
LEMMA LeastSubset ==
    ASSUME NEW S, IsFiniteSet(S), NEW B, B \subseteq SUBSET S, B # {}
    PROVE  \E T \in B : \A U \in B : U \subseteq T => U = T
<1>1. IsWellFoundedOn(StrictSubsetOrdering(S), SUBSET S)
  BY FS_StrictSubsetOrderingWellFounded, FS_FiniteSubsetsOfFinite
<1>2. PICK T \in B : \A U \in B : <<U, T>> \notin StrictSubsetOrdering(S)
  BY <1>1, WFMin
<1> QED BY <1>2 DEF StrictSubsetOrdering

LEMMA RestIsLess ==
    ASSUME NEW S, S # {}
    PROVE  Chosen(S) \in S /\ Rest(S) \subseteq S /\ Rest(S) # S
BY DEF Chosen, Rest

\* Two folds of f agree where both are defined.
LEMMA FoldsAgree ==
    ASSUME NEW f, NEW S, IsFiniteSet(S), NEW T, T \subseteq S, NEW g, Unfolds(g, f, S), NEW h, Unfolds(h, f, T)
    PROVE  \A U \in SUBSET T : g[U] = h[U]
<1> DEFINE B == {U \in SUBSET T : g[U] # h[U]}
<1> SUFFICES ASSUME B # {} PROVE FALSE
  OBVIOUS
<1>1. PICK U \in B : \A V \in B : V \subseteq U => V = U
  <2>1. B \subseteq SUBSET T /\ IsFiniteSet(T)
    BY FS_Subset
  <2> HIDE DEF B
  <2> QED BY <2>1, LeastSubset
<1>2. \A V \in SUBSET T : /\ g[V] = IF V = {} THEN 0 ELSE f[Chosen(V)] + g[Rest(V)]
                          /\ h[V] = IF V = {} THEN 0 ELSE f[Chosen(V)] + h[Rest(V)]
  BY DEF Unfolds
<1>3. U # {} /\ Rest(U) \in SUBSET T /\ g[Rest(U)] = h[Rest(U)]
  BY <1>1, <1>2, RestIsLess
<1> QED BY <1>1, <1>2, <1>3

\* There is a fold for every finite set: that of a least set without one would be
\* put together from those of its proper subsets.
LEMMA FoldUnfolds ==
    ASSUME NEW f, NEW S, IsFiniteSet(S)
    PROVE  \A T \in SUBSET S : Unfolds(FoldOf(f, T), f, T)
<1> DEFINE B == {T \in SUBSET S : ~ Unfolds(FoldOf(f, T), f, T)}
<1> SUFFICES ASSUME B # {} PROVE FALSE
  OBVIOUS
<1>1. PICK T \in B : \A U \in B : U \subseteq T => U = T
  <2>1. B \subseteq SUBSET S
    OBVIOUS
  <2> HIDE DEF B
  <2> QED BY <2>1, LeastSubset
<1>2. ASSUME NEW U \in SUBSET T, U # T PROVE Unfolds(FoldOf(f, U), f, U)
  BY <1>1, <1>2
<1> DEFINE value(U) == IF U = {} THEN 0 ELSE f[Chosen(U)] + FoldOf(f, Rest(U))[Rest(U)]
           g == [U \in SUBSET T |-> value(U)]
<1>3. ASSUME NEW U \in SUBSET T, U # T PROVE FoldOf(f, U)[U] = value(U)
  <2>1. FoldOf(f, U)[U] = IF U = {} THEN 0 ELSE f[Chosen(U)] + FoldOf(f, U)[Rest(U)]
    BY <1>2, <1>3 DEF Unfolds
  <2>2. CASE U # {}
    <3>1. Rest(U) \subseteq U /\ Rest(U) \in SUBSET T /\ Rest(U) # T /\ IsFiniteSet(U)
      BY <1>1, <1>3, <2>2, RestIsLess, FS_Subset
    <3>2. FoldOf(f, U)[Rest(U)] = FoldOf(f, Rest(U))[Rest(U)]
      BY <1>2, <1>3, <3>1, FoldsAgree
    <3> QED BY <2>1, <2>2, <3>2
  <2> QED BY <2>1, <2>2
<1>4. ASSUME NEW U \in SUBSET T, U # {} PROVE g[Rest(U)] = FoldOf(f, Rest(U))[Rest(U)]
  <2>1. Rest(U) \in SUBSET T /\ Rest(U) # T
    BY <1>4, RestIsLess
  <2> QED BY <1>3, <2>1
<1>5. Unfolds(g, f, T)
  <2>1. \A U \in SUBSET T : value(U) = IF U = {} THEN 0 ELSE f[Chosen(U)] + g[Rest(U)]
    BY <1>4
  <2> HIDE DEF value
  <2> QED BY <2>1 DEF Unfolds
<1> HIDE DEF g
<1>6. Unfolds(FoldOf(f, T), f, T)
  BY <1>5 DEF FoldOf
<1> QED BY <1>1, <1>6

LEMMA SumOfEmpty == \A f : SumFunctionOnSet(f, {}) = 0
<1> TAKE f
<1>1. Unfolds(FoldOf(f, {}), f, {})
  BY FoldUnfolds, FS_EmptySet
<1> QED BY <1>1, SumIsFold DEF Unfolds

\* A sum is that of one element and the rest.
LEMMA SumUnfolds ==
    ASSUME NEW f, NEW S, IsFiniteSet(S), S # {}
    PROVE  SumFunctionOnSet(f, S) = f[Chosen(S)] + SumFunctionOnSet(f, Rest(S))
<1>1. Unfolds(FoldOf(f, S), f, S) /\ Unfolds(FoldOf(f, Rest(S)), f, Rest(S))
  BY FoldUnfolds, RestIsLess
<1>2. FoldOf(f, S)[Rest(S)] = FoldOf(f, Rest(S))[Rest(S)]
  BY <1>1, FoldsAgree, RestIsLess
<1>3. FoldOf(f, S)[S] = f[Chosen(S)] + FoldOf(f, S)[Rest(S)]
  BY <1>1 DEF Unfolds
<1> QED BY <1>2, <1>3, SumIsFold

\* The sum of the rest and any one.
LEMMA SumRemoves ==
    ASSUME NEW S, IsFiniteSet(S), NEW f, \A x \in S : f[x] \in Int, NEW e \in S
    PROVE  /\ SumFunctionOnSet(f, S) \in Int
           /\ SumFunctionOnSet(f, S) = f[e] + SumFunctionOnSet(f, S \ {e})
<1> DEFINE Fine(T) == /\ SumFunctionOnSet(f, T) \in Int
                      /\ \A x \in T : SumFunctionOnSet(f, T) = f[x] + SumFunctionOnSet(f, T \ {x})
           B == {T \in SUBSET S : ~ Fine(T)}
<1> SUFFICES ASSUME B # {} PROVE FALSE
  OBVIOUS
<1>1. PICK T \in B : \A U \in B : U \subseteq T => U = T
  <2>1. B \subseteq SUBSET S
    OBVIOUS
  <2> HIDE DEF B
  <2> QED BY <2>1, LeastSubset
<1>2. ASSUME NEW U \in SUBSET T, U # T PROVE Fine(U)
  BY <1>1, <1>2
<1>3. T # {}
  <2>1. Fine({})
    <3>1. SumFunctionOnSet(f, {}) = 0
      BY SumOfEmpty
    <3> QED BY <3>1
  <2> HIDE DEF Fine
  <2> QED BY <1>1, <2>1
<1> DEFINE c == Chosen(T)
           Sum(U) == SumFunctionOnSet(f, U)
<1>4. IsFiniteSet(T) /\ c \in T /\ Rest(T) \in SUBSET T /\ Rest(T) # T /\ Rest(T) = T \ {c} /\ T \subseteq S
  BY <1>1, <1>3, FS_Subset, RestIsLess DEF Rest
<1>5. Sum(T) = f[c] + Sum(T \ {c}) /\ Sum(T \ {c}) \in Int /\ f[c] \in Int
  <2>1. Sum(T) = f[c] + Sum(Rest(T))
    BY <1>3, <1>4, SumUnfolds
  <2>2. Fine(T \ {c})
    BY <1>2, <1>4
  <2>3. Rest(T) = T \ {c} /\ c \in S
    BY <1>4
  <2> QED BY <2>1, <2>2, <2>3
<1>6. ASSUME NEW x \in T, x # c PROVE Sum(T) = f[x] + Sum(T \ {x})
  <2>1. Sum(T \ {c}) = f[x] + Sum((T \ {c}) \ {x})
    BY <1>2, <1>4, <1>6
  <2>2. Sum(T \ {x}) = f[c] + Sum((T \ {x}) \ {c})
    <3>1. T \ {x} \in SUBSET T /\ T \ {x} # T /\ c \in T \ {x}
      BY <1>4, <1>6
    <3> QED BY <3>1, <1>2
  <2>3. Sum((T \ {c}) \ {x}) = Sum((T \ {x}) \ {c})
    <3>1. (T \ {c}) \ {x} = (T \ {x}) \ {c}
      OBVIOUS
    <3> QED BY <3>1
  <2>4. Sum((T \ {x}) \ {c}) \in Int
    <3>1. (T \ {x}) \ {c} \in SUBSET T /\ (T \ {x}) \ {c} # T
      BY <1>6
    <3> QED BY <3>1, <1>2
  <2>5. f[x] \in Int /\ f[c] \in Int
    BY <1>4
  <2> HIDE DEF Sum, c
  <2> QED BY <1>5, <2>1, <2>2, <2>3, <2>4, <2>5
<1>7. Fine(T)
  BY <1>5, <1>6
<1> QED BY <1>1, <1>7

LEMMA SumIsNat ==
    ASSUME NEW S, IsFiniteSet(S), NEW f, \A x \in S : f[x] \in Nat
    PROVE  SumFunctionOnSet(f, S) \in Nat
<1> DEFINE B == {T \in SUBSET S : SumFunctionOnSet(f, T) \notin Nat}
<1> SUFFICES ASSUME B # {} PROVE FALSE
  OBVIOUS
<1>1. PICK T \in B : \A U \in B : U \subseteq T => U = T
  <2>1. B \subseteq SUBSET S
    OBVIOUS
  <2> HIDE DEF B
  <2> QED BY <2>1, LeastSubset
<1>2. T \subseteq S /\ IsFiniteSet(T)
  BY <1>1, FS_Subset
<1>3. T # {}
  <2>1. SumFunctionOnSet(f, {}) = 0
    BY SumOfEmpty
  <2>2. SumFunctionOnSet(f, T) \notin Nat
    BY <1>1
  <2> QED BY <2>1, <2>2
<1> PICK e \in T : TRUE
  BY <1>3
<1>4. SumFunctionOnSet(f, T \ {e}) \in Nat
  <2>1. T \ {e} \subseteq T /\ T \ {e} # T /\ T \ {e} \in SUBSET S
    BY <1>2
  <2> QED BY <1>1, <2>1
<1>5. SumFunctionOnSet(f, T) = f[e] + SumFunctionOnSet(f, T \ {e}) /\ f[e] \in Nat
  BY <1>2, SumRemoves
<1> QED BY <1>1, <1>4, <1>5

\* Functions that agree on a set have one sum on it.
LEMMA SumOfEqual ==
    ASSUME NEW S, IsFiniteSet(S), NEW f, NEW g, \A x \in S : f[x] \in Int /\ f[x] = g[x]
    PROVE  SumFunctionOnSet(f, S) = SumFunctionOnSet(g, S)
<1> DEFINE B == {T \in SUBSET S : SumFunctionOnSet(f, T) # SumFunctionOnSet(g, T)}
<1> SUFFICES ASSUME B # {} PROVE FALSE
  OBVIOUS
<1>1. PICK T \in B : \A U \in B : U \subseteq T => U = T
  <2>1. B \subseteq SUBSET S
    OBVIOUS
  <2> HIDE DEF B
  <2> QED BY <2>1, LeastSubset
<1>2. T # {} /\ T \subseteq S /\ IsFiniteSet(T)
  BY <1>1, SumOfEmpty, FS_Subset
<1>3. PICK e \in T : TRUE
  BY <1>2
<1>4. SumFunctionOnSet(f, T \ {e}) = SumFunctionOnSet(g, T \ {e})
  <2>1. T \ {e} \subseteq T /\ T \ {e} # T /\ T \ {e} \in SUBSET S
    BY <1>2, <1>3
  <2> QED BY <1>1, <2>1
<1>5. SumFunctionOnSet(f, T) = f[e] + SumFunctionOnSet(f, T \ {e})
  BY <1>2, <1>3, SumRemoves
<1>6. SumFunctionOnSet(g, T) = g[e] + SumFunctionOnSet(g, T \ {e})
  <2>1. \A x \in T : g[x] \in Int
    BY <1>2
  <2> QED BY <1>2, <1>3, <2>1, SumRemoves
<1>7. f[e] = g[e]
  BY <1>2, <1>3
<1> QED BY <1>1, <1>4, <1>5, <1>6, <1>7

\* One more in one place is one more in the sum.
LEMMA SumCountsOne ==
    ASSUME NEW S, IsFiniteSet(S), NEW f \in [S -> Nat], NEW e \in S
    PROVE  SumFunctionOnSet([f EXCEPT ![e] = @ + 1], S) = SumFunctionOnSet(f, S) + 1
<1> DEFINE g == [f EXCEPT ![e] = @ + 1]
<1>1. SumFunctionOnSet(f, S) = f[e] + SumFunctionOnSet(f, S \ {e})
  BY SumRemoves
<1>2. SumFunctionOnSet(g, S) = g[e] + SumFunctionOnSet(g, S \ {e})
  <2>1. \A x \in S : g[x] \in Int
    OBVIOUS
  <2> HIDE DEF g
  <2> QED BY <2>1, SumRemoves
<1>3. SumFunctionOnSet(f, S \ {e}) = SumFunctionOnSet(g, S \ {e})
  <2>1. IsFiniteSet(S \ {e}) /\ \A x \in S \ {e} : f[x] \in Int /\ f[x] = g[x]
    BY FS_Subset
  <2> HIDE DEF g
  <2> QED BY <2>1, SumOfEqual
<1>4. SumFunctionOnSet(f, S \ {e}) \in Nat
  <2>1. IsFiniteSet(S \ {e}) /\ \A x \in S \ {e} : f[x] \in Nat
    BY FS_Subset
  <2> QED BY <2>1, SumIsNat
<1>5. g[e] = f[e] + 1 /\ f[e] \in Nat
  OBVIOUS
<1> HIDE DEF g
<1>6. SumFunctionOnSet(g, S) = SumFunctionOnSet(f, S) + 1
  BY <1>1, <1>2, <1>3, <1>4, <1>5
<1> QED BY <1>6 DEF g

\* Zeros add nothing.
LEMMA SumOfOneAndZeros ==
    ASSUME NEW S, IsFiniteSet(S), NEW f, NEW e \in S, f[e] \in Nat, \A x \in S \ {e} : f[x] = 0
    PROVE  SumFunctionOnSet(f, S) = f[e]
<1> DEFINE B == {T \in SUBSET (S \ {e}) : SumFunctionOnSet(f, T) # 0}
<1>1. B = {}
  <2> SUFFICES ASSUME B # {} PROVE FALSE
    OBVIOUS
  <2>1. PICK T \in B : \A U \in B : U \subseteq T => U = T
    <3>1. B \subseteq SUBSET S
      OBVIOUS
    <3> HIDE DEF B
    <3> QED BY <3>1, LeastSubset
  <2>2. T # {} /\ T \subseteq S \ {e} /\ IsFiniteSet(T)
    BY <2>1, SumOfEmpty, FS_Subset
  <2>3. PICK x \in T : TRUE
    BY <2>2
  <2>4. SumFunctionOnSet(f, T \ {x}) = 0
    <3>1. T \ {x} \subseteq T /\ T \ {x} # T /\ T \ {x} \in SUBSET (S \ {e})
      BY <2>2, <2>3
    <3> QED BY <2>1, <3>1
  <2>5. SumFunctionOnSet(f, T) = f[x] + SumFunctionOnSet(f, T \ {x}) /\ f[x] = 0
    BY <2>2, <2>3, SumRemoves
  <2> QED BY <2>1, <2>4, <2>5
<1>2. SumFunctionOnSet(f, S \ {e}) = 0
  BY <1>1
<1>3. SumFunctionOnSet(f, S) = f[e] + SumFunctionOnSet(f, S \ {e})
  <2>1. \A x \in S : f[x] \in Int
    OBVIOUS
  <2> QED BY <2>1, SumRemoves
<1> QED BY <1>2, <1>3

-----------------------------------------------------------------------------
(* The arithmetic *)

LEMMA QuotientBounds ==
    ASSUME NEW a \in Int, NEW b \in Nat \ {0}
    PROVE  a \div b \in Int /\ b * (a \div b) <= a /\ a < b * (a \div b) + b
OBVIOUS

\* Rounding is to the nearest: the remainder is at most half of the divisor.
LEMMA RoundedBounds ==
    ASSUME NEW n \in Int, NEW by \in Nat \ {0}
    PROVE  /\ Rounded(n, by) \in Int
           /\ -by <= 2 * (Rounded(n, by) * by - n)
           /\ 2 * (Rounded(n, by) * by - n) <= by
<1> DEFINE a == 2 * n + by
           q == Rounded(n, by)
<1>1. a \in Int /\ 2 * by \in Nat \ {0}
  OBVIOUS
<1>2. q \in Int /\ 2 * by * q <= a /\ a < 2 * by * q + 2 * by
  BY <1>1, QuotientBounds DEF Rounded
<1> HIDE DEF q
<1>3. 2 * by * q = 2 * (q * by)
  BY <1>2
<1>4. q * by \in Int
  BY <1>2
<1> HIDE DEF a
<1>5. 2 * (q * by) <= a /\ a < 2 * (q * by) + 2 * by
  BY <1>2, <1>3
<1>6. -by <= 2 * (q * by - n) /\ 2 * (q * by - n) <= by
  BY <1>4, <1>5 DEF a
<1> QED BY <1>2, <1>6 DEF q

LEMMA MonthlyCentsType ==
    ASSUME NEW s \in Subscribed
    PROVE  MonthlyCents(PriceOf[s]) \in Nat
<1>1. /\ PriceOf[s].amount \in Nat
      /\ PriceOf[s].interval \in {"month", "year", "one_time"}
  BY AnalyticsAssumption
<1>2. Rounded(PriceOf[s].amount, 12) \in Nat
  BY <1>1 DEF Rounded
<1> QED BY <1>1, <1>2 DEF MonthlyCents

LEMMA MrrType ==
    ASSUME NEW of
    PROVE  Mrr(of) \in Nat /\ Cardinality(Earning(of)) \in Nat
<1>1. Earning(of) \subseteq Subscribed
  BY DEF Earning
<1>2. IsFiniteSet(Earning(of))
  BY <1>1, AnalyticsAssumption, FS_Subset
<1> DEFINE f == [s \in Subscribed |-> MonthlyCents(PriceOf[s])]
<1>3. \A s \in Earning(of) : f[s] \in Nat
  BY <1>1, MonthlyCentsType
<1> HIDE DEF f
<1>4. SumFunctionOnSet(f, Earning(of)) \in Nat
  BY <1>2, <1>3, SumIsNat
<1> QED BY <1>2, <1>4, FS_CardinalityType DEF Mrr, f

LEMMA MonthFacts ==
    ASSUME NEW d \in Day
    PROVE  d \in Nat /\ MonthOf(d) \in Month /\ MonthOf(d) \in Nat
BY AnalyticsAssumption DEF Day, Month, MonthOf

\* Months follow one another as days do.
LEMMA MonthsFollow ==
    ASSUME NEW d \in Day, NEW e \in Day, d <= e
    PROVE  MonthOf(d) <= MonthOf(e)
BY AnalyticsAssumption DEF Day, MonthOf

LEMMA MonthIsFinite == IsFiniteSet(Month) /\ Month \subseteq Nat
<1>1. MonthOf(MaxDay) \in Int
  BY AnalyticsAssumption DEF MonthOf
<1> QED BY <1>1, FS_Interval DEF Month

\* The window of the ledger is the month to date.
LEMMA WindowIsMonthToDate ==
    ASSUME NEW date \in Day, NEW d \in Day
    PROVE  InWindow(date, d) <=> date <= d /\ MonthOf(date) = MonthOf(d)
<1>1. DaysPerMonth \in Nat \ {0} /\ date \in Int /\ d \in Int
  BY AnalyticsAssumption DEF Day
<1> DEFINE p == date \div DaysPerMonth
           q == d \div DaysPerMonth
<1>2. /\ p \in Int /\ DaysPerMonth * p <= date /\ date < DaysPerMonth * p + DaysPerMonth
      /\ q \in Int /\ DaysPerMonth * q <= d /\ d < DaysPerMonth * q + DaysPerMonth
  BY <1>1, QuotientBounds
<1> HIDE DEF p, q
<1>3. q * DaysPerMonth <= date /\ date <= d => p = q
  BY <1>1, <1>2
<1>4. p = q => q * DaysPerMonth <= date
  BY <1>1, <1>2
<1> QED BY <1>3, <1>4 DEF InWindow, MonthOf, p, q

-----------------------------------------------------------------------------
(* The invariants *)

\* The figures of one moment
FiguresRead == [mrr : Nat, active : Nat, ai : Nat, cost : Nat, revenue : Nat]

\* What a summary has of them so far
Figures == [mrr : Nat \cup {Unread}, active : Nat \cup {Unread}, ai : Nat \cup {Unread},
            cost : Nat \cup {Unread}, revenue : Nat \cup {Unread}]

CallState == {"idle", "awaiting", "yielded", "answered", "failing",
              "returned", "threw", "abandoned", "died"}

SummaryState == [pc : {"idle", "reading"}, day : Day, figures : Figures, held : SUBSET FiguresRead]

\* The type invariant of Analytics
FiguresTypeOK ==
    /\ now \in Day /\ changes \in Nat /\ begun \in Nat
    /\ status \in [Subscribed -> Status \cup {"none"}]
    /\ ledger \in [Entry -> [kind : {"none", "cost", "revenue", "deleted"}, date : Day]]
    /\ usage \in [Month -> Nat]
    /\ calls \in [Call -> CallState]
    /\ rows \subseteq Call \X {"succeeded", "failed"} /\ IsFiniteSet(rows)
    /\ dropped \subseteq Call /\ billed \subseteq Call
    /\ snapshots \in [Day -> Figures]
    /\ summary \in [Summary -> SummaryState]

\* The figures of the ledger are read together, that of the active
\* subscriptions last, and only what is complete is written.
FiguresInOrder ==
    /\ \A d \in Day : snapshots[d] \in {NoFigures} \cup FiguresRead
    /\ \A r \in Summary :
          /\ summary[r].figures.cost = Unread <=> summary[r].figures.revenue = Unread
          /\ summary[r].figures.active # Unread =>
                Unread \notin {summary[r].figures.mrr, summary[r].figures.ai, summary[r].figures.cost}

\* No model was paid for in a month to come.
NothingAhead == \A m \in Month : m > MonthOf(now) => usage[m] = 0

\* A figure is unread, or was true at a moment of its summary, or is the cost of
\* models of a month that came after its day's.
FigureWitnessed(r, f) ==
    \/ summary[r].figures[f] = Unread
    \/ \E h \in summary[r].held : summary[r].figures[f] = h[f]
    \/ f = "ai" /\ MonthOf(now) # MonthOf(summary[r].day)

\* A summary in progress began on an earlier day or this one, and has seen what
\* holds now.
FiguresWitnessed ==
    \A r \in Summary : summary[r].pc = "reading" =>
       /\ summary[r].day <= now
       /\ Truth(summary[r].day, status, ledger, usage) \in summary[r].held
       /\ \A f \in DOMAIN NoFigures : FigureWitnessed(r, f)

-----------------------------------------------------------------------------
(* Types *)

LEMMA CountType ==
    ASSUME NEW S, S \subseteq Entry
    PROVE  Cardinality(S) \in Nat
BY AnalyticsAssumption, FS_Subset, FS_CardinalityType

LEMMA TruthType ==
    ASSUME NEW d \in Day, NEW of, NEW entries, NEW costs \in [Month -> Nat]
    PROVE  Truth(d, of, entries, costs) \in FiguresRead
<1> DEFINE S(kind) == {e \in Entry : entries[e].kind = kind /\ entries[e].date <= d
                                     /\ MonthOf(entries[e].date) = MonthOf(d)}
<1>1. Cardinality(S("cost")) \in Nat /\ Cardinality(S("revenue")) \in Nat
  BY CountType
<1>2. Mrr(of) \in Nat /\ Cardinality(Earning(of)) \in Nat
  BY MrrType
<1>3. costs[MonthOf(d)] \in Nat
  BY MonthFacts
<1> HIDE DEF S
<1>4. [mrr |-> Mrr(of), active |-> Cardinality(Earning(of)), ai |-> costs[MonthOf(d)],
       cost |-> Cardinality(S("cost")), revenue |-> Cardinality(S("revenue"))] \in FiguresRead
  BY <1>1, <1>2, <1>3 DEF FiguresRead
<1> QED BY <1>4 DEF Truth, S

LEMMA WitnessedType ==
    ASSUME FiguresTypeOK, NEW of, NEW entries, NEW costs \in [Month -> Nat], Witnessed(of, entries, costs)
    PROVE  summary' \in [Summary -> SummaryState]
<1>1. ASSUME NEW r \in Summary
      PROVE  Truth(summary[r].day, of, entries, costs) \in FiguresRead
  <2>1. summary[r].day \in Day
    BY DEF FiguresTypeOK, SummaryState
  <2> QED BY <2>1, TruthType
<1> QED BY <1>1 DEF Witnessed, FiguresTypeOK, SummaryState

\* What is recorded of the month of a day is what is recorded since it began,
\* when nothing is recorded of a later one.
LEMMA AiCostFacts ==
    ASSUME NEW d \in Day, usage \in [Month -> Nat]
    PROVE  /\ AiCost(d) \in Nat
           /\ (\A m \in Month : m > MonthOf(d) => usage[m] = 0) => AiCost(d) = usage[MonthOf(d)]
<1> DEFINE S == {m \in Month : m >= MonthOf(d)}
<1>1. S \subseteq Month /\ IsFiniteSet(S)
  BY MonthIsFinite, FS_Subset
<1>2. MonthOf(d) \in S /\ \A m \in S \ {MonthOf(d)} : m > MonthOf(d)
  BY MonthFacts, MonthIsFinite
<1> HIDE DEF S
<1>3. \A m \in S : usage[m] \in Nat
  BY <1>1
<1>4. SumFunctionOnSet(usage, S) \in Nat
  BY <1>1, <1>3, SumIsNat
<1>5. ASSUME \A m \in Month : m > MonthOf(d) => usage[m] = 0
      PROVE  SumFunctionOnSet(usage, S) = usage[MonthOf(d)]
  <2>1. \A m \in S \ {MonthOf(d)} : usage[m] = 0
    BY <1>1, <1>2, <1>5
  <2> QED BY <1>1, <1>2, <1>3, <2>1, SumOfOneAndZeros
<1> QED BY <1>4, <1>5 DEF AiCost, S

LEMMA NotAskedType == NotAsked \in SummaryState
<1>1. 0 \in Day
  BY AnalyticsAssumption DEF Day
<1>2. NoFigures \in Figures
  BY DEF NoFigures, Figures
<1> QED BY <1>1, <1>2 DEF NotAsked, SummaryState

LEMMA FiguresTypeInit == AnalyticsInit => FiguresTypeOK
<1> SUFFICES ASSUME AnalyticsInit PROVE FiguresTypeOK
  OBVIOUS
<1>1. 0 \in Day
  BY AnalyticsAssumption DEF Day
<1>2. NoFigures \in Figures
  BY DEF NoFigures, Figures
<1>3. summary \in [Summary -> SummaryState]
  BY NotAskedType DEF AnalyticsInit
<1>4. IsFiniteSet({})
  BY FS_EmptySet
<1> QED BY <1>1, <1>2, <1>3, <1>4 DEF AnalyticsInit, FiguresTypeOK, NoEntry, CallState

\* The steps of a call before it records what it cost
CallUnderway(c) ==
    \/ CallOpen(c) \/ CallChunk(c) \/ CallNext(c) \/ CallAnswered(c)
    \/ CallFails(c) \/ CallAbandoned(c) \/ CallDies(c)

LEMMA CallUnderwayFacts ==
    ASSUME NEW c \in Call, CallUnderway(c)
    PROVE  /\ \E to \in {"awaiting", "yielded", "answered", "failing", "abandoned", "died"} :
                 calls' = [calls EXCEPT ![c] = to]
           /\ calls[c] \in {"idle", "awaiting", "yielded", "answered", "failing"}
           /\ billed' \in {billed, billed \union {c}}
           /\ OfCallsOnly
BY DEF CallUnderway, CallOpen, CallChunk, CallNext, CallAnswered, CallFails, CallAbandoned, CallDies,
       CallMoves, AfterFailure

LEMMA FiguresTypeStep == FiguresTypeOK /\ [AnalyticsNext]_analyticsVars => FiguresTypeOK'
<1> SUFFICES ASSUME FiguresTypeOK, [AnalyticsNext]_analyticsVars PROVE FiguresTypeOK'
  OBVIOUS
<1>1. ASSUME NEW e \in Entry, NEW kind \in {"cost", "revenue"}, NEW ahead \in Days, AddEntry(e, kind, ahead)
      PROVE  FiguresTypeOK'
  <2>1. summary' \in [Summary -> SummaryState]
    BY <1>1, WitnessedType DEF AddEntry, FiguresTypeOK
  <2> QED BY <1>1, <2>1 DEF AddEntry, FiguresTypeOK
<1>2. ASSUME NEW e \in Entry, DeleteEntry(e)
      PROVE  FiguresTypeOK'
  <2>1. summary' \in [Summary -> SummaryState]
    BY <1>2, WitnessedType DEF DeleteEntry, FiguresTypeOK
  <2>2. ledger' \in [Entry -> [kind : {"none", "cost", "revenue", "deleted"}, date : Day]]
    BY <1>2 DEF DeleteEntry, FiguresTypeOK
  <2> QED BY <1>2, <2>1, <2>2 DEF DeleteEntry, FiguresTypeOK
<1>3. ASSUME NEW s \in Subscribed, NEW st \in Status, SetStatus(s, st)
      PROVE  FiguresTypeOK'
  <2>1. summary' \in [Summary -> SummaryState]
    BY <1>3, WitnessedType DEF SetStatus, FiguresTypeOK
  <2> QED BY <1>3, <2>1 DEF SetStatus, FiguresTypeOK
<1>4. CASE Midnight
  BY <1>4, AnalyticsAssumption DEF Midnight, FiguresTypeOK, Day
<1>5. ASSUME NEW r \in Summary, SnapshotBegin(r)
      PROVE  FiguresTypeOK'
  <2>1. Truth(now, status, ledger, usage) \in FiguresRead
    BY TruthType DEF FiguresTypeOK
  <2>2. NoFigures \in Figures
    BY DEF NoFigures, Figures
  <2>3. summary' \in [Summary -> SummaryState]
    BY <1>5, <2>1, <2>2 DEF SnapshotBegin, FiguresTypeOK, SummaryState
  <2> QED BY <1>5, <2>3 DEF SnapshotBegin, FiguresTypeOK, Day
<1>6. ASSUME NEW r \in Summary, ReadMrr(r) \/ ReadAiCost(r) \/ ReadLedger(r) \/ ReadActive(r)
      PROVE  FiguresTypeOK'
  <2>1. ASSUME NEW figures \in Figures, Reads(r, figures)
        PROVE  FiguresTypeOK'
    <3>1. summary' \in [Summary -> SummaryState]
      BY <2>1 DEF Reads, FiguresTypeOK, SummaryState
    <3> QED BY <2>1, <3>1 DEF Reads, FiguresTypeOK
  <2>2. summary[r].figures \in Figures /\ summary[r].day \in Day
    BY DEF FiguresTypeOK, SummaryState
  <2>3. Mrr(status) \in Nat /\ Cardinality(Earning(status)) \in Nat
    BY MrrType
  <2>4. AiCost(summary[r].day) \in Nat
    BY AiCostFacts, <2>2 DEF FiguresTypeOK
  <2>5. LedgerTotal("cost", summary[r].day) \in Nat /\ LedgerTotal("revenue", summary[r].day) \in Nat
    BY CountType DEF LedgerTotal
  <2>6. /\ [summary[r].figures EXCEPT !.mrr = Mrr(status)] \in Figures
        /\ [summary[r].figures EXCEPT !.active = Cardinality(Earning(status))] \in Figures
        /\ [summary[r].figures EXCEPT !.ai = AiCost(summary[r].day)] \in Figures
        /\ [summary[r].figures EXCEPT !.cost = LedgerTotal("cost", summary[r].day),
                                      !.revenue = LedgerTotal("revenue", summary[r].day)] \in Figures
    BY <2>2, <2>3, <2>4, <2>5 DEF Figures
  <2> QED BY <1>6, <2>1, <2>6 DEF ReadMrr, ReadAiCost, ReadLedger, ReadActive
<1>7. ASSUME NEW r \in Summary, Upsert(r)
      PROVE  FiguresTypeOK'
  <2>1. summary' \in [Summary -> SummaryState]
    BY <1>7, NotAskedType DEF Upsert, FiguresTypeOK
  <2>2. summary[r].figures \in Figures /\ summary[r].day \in Day
    BY DEF FiguresTypeOK, SummaryState
  <2> QED BY <1>7, <2>1, <2>2 DEF Upsert, FiguresTypeOK
<1>8. ASSUME NEW r \in Summary, Returns(r)
      PROVE  FiguresTypeOK'
  <2>1. summary' \in [Summary -> SummaryState]
    BY <1>8, NotAskedType DEF Returns, FiguresTypeOK
  <2> QED BY <1>8, <2>1 DEF Returns, FiguresTypeOK
<1>9. ASSUME NEW c \in Call, CallUnderway(c)
      PROVE  FiguresTypeOK'
  <2>1. PICK to \in {"awaiting", "yielded", "answered", "failing", "abandoned", "died"} :
           calls' = [calls EXCEPT ![c] = to]
    BY <1>9, CallUnderwayFacts
  <2>2. calls' \in [Call -> CallState]
    BY <2>1 DEF FiguresTypeOK, CallState
  <2>3. billed' \subseteq Call /\ OfCallsOnly
    BY <1>9, CallUnderwayFacts DEF FiguresTypeOK
  <2> QED BY <2>2, <2>3 DEF OfCallsOnly, FiguresTypeOK
<1>10. ASSUME NEW c \in Call, RecordUsage(c)
       PROVE  FiguresTypeOK'
  <2>1. usage' \in [Month -> Nat]
    BY <1>10, MonthFacts DEF RecordUsage, FiguresTypeOK
  <2>2. summary' \in [Summary -> SummaryState]
    BY <1>10, <2>1, WitnessedType DEF RecordUsage
  <2>3. IsFiniteSet(rows')
    BY <1>10, FS_AddElement DEF RecordUsage, FiguresTypeOK
  <2>4. calls' \in [Call -> CallState] /\ rows' \subseteq Call \X {"succeeded", "failed"}
    BY <1>10 DEF RecordUsage, FiguresTypeOK, CallState
  <2> QED BY <1>10, <2>1, <2>2, <2>3, <2>4 DEF RecordUsage, FiguresTypeOK
<1>11. ASSUME NEW c \in Call, RecordFails(c)
       PROVE  FiguresTypeOK'
  BY <1>11 DEF RecordFails, FiguresTypeOK, CallState
<1>12. CASE UNCHANGED analyticsVars
  BY <1>12 DEF analyticsVars, FiguresTypeOK
<1> QED BY <1>1, <1>2, <1>3, <1>4, <1>5, <1>6, <1>7, <1>8, <1>9, <1>10, <1>11, <1>12
        DEF AnalyticsNext, CallUnderway

\* What a history that sees figures hold does to a summary: what it has read stays.
LEMMA WitnessedKeeps ==
    ASSUME FiguresTypeOK, NEW of, NEW entries, NEW costs, Witnessed(of, entries, costs), NEW r \in Summary
    PROVE  /\ summary'[r].pc = summary[r].pc /\ summary'[r].day = summary[r].day
           /\ summary'[r].figures = summary[r].figures
           /\ summary[r].held \subseteq summary'[r].held
           /\ summary[r].pc = "reading" => Truth(summary[r].day, of, entries, costs) \in summary'[r].held
<1>1. summary[r] \in SummaryState
  BY DEF FiguresTypeOK
<1>2. summary'[r] = IF summary[r].pc = "idle" THEN summary[r]
                    ELSE [summary[r] EXCEPT !.held = @ \union {Truth(summary[r].day, of, entries, costs)}]
  BY DEF Witnessed
<1> HIDE DEF Witnessed
<1> QED BY <1>1, <1>2 DEF SummaryState

LEMMA InOrderInit == AnalyticsInit => FiguresInOrder
BY DEF AnalyticsInit, FiguresInOrder, NotAsked, NoFigures

\* One step for the four reads, and one for what begins or ends a summary.
LEMMA InOrderStep ==
    FiguresTypeOK /\ FiguresInOrder /\ [AnalyticsNext]_analyticsVars => FiguresInOrder'
<1> SUFFICES ASSUME FiguresTypeOK, FiguresInOrder, [AnalyticsNext]_analyticsVars PROVE FiguresInOrder'
  OBVIOUS
<1> DEFINE Ordered(f) == /\ f.cost = Unread <=> f.revenue = Unread
                         /\ f.active # Unread => Unread \notin {f.mrr, f.ai, f.cost}
<1>1. \A r \in Summary : Ordered(summary[r].figures)
  BY DEF FiguresInOrder
<1>2. Ordered(NoFigures)
  BY DEF NoFigures
<1>3. ASSUME snapshots' = snapshots, NEW of, NEW entries, NEW costs, Witnessed(of, entries, costs)
      PROVE  FiguresInOrder'
  <2>1. \A r \in Summary : summary'[r].figures = summary[r].figures
    BY <1>3, WitnessedKeeps
  <2> QED BY <1>1, <1>3, <2>1 DEF FiguresInOrder
<1>4. ASSUME NEW r \in Summary, ReadMrr(r) \/ ReadAiCost(r) \/ ReadLedger(r) \/ ReadActive(r)
      PROVE  FiguresInOrder'
  <2>1. ASSUME NEW figures, Ordered(figures), Reads(r, figures)
        PROVE  FiguresInOrder'
    <3>1. \A q \in Summary : summary'[q].figures = IF q = r THEN figures ELSE summary[q].figures
      BY <2>1 DEF Reads, FiguresTypeOK, SummaryState
    <3>2. \A q \in Summary : Ordered(summary'[q].figures)
      BY <1>1, <2>1, <3>1
    <3> QED BY <2>1, <3>2 DEF Reads, FiguresInOrder
  <2>2. summary[r].figures \in Figures /\ summary[r].day \in Day /\ Ordered(summary[r].figures)
    BY <1>1 DEF FiguresTypeOK, SummaryState
  <2>3. Mrr(status) \in Nat /\ Cardinality(Earning(status)) \in Nat
    BY MrrType
  <2>4. AiCost(summary[r].day) \in Nat
    BY AiCostFacts, <2>2 DEF FiguresTypeOK
  <2>5. LedgerTotal("cost", summary[r].day) \in Nat /\ LedgerTotal("revenue", summary[r].day) \in Nat
    BY CountType DEF LedgerTotal
  <2>6. CASE ReadMrr(r)
    <3>1. Ordered([summary[r].figures EXCEPT !.mrr = Mrr(status)])
      BY <2>2, <2>3 DEF Figures, Unread
    <3> QED BY <2>1, <2>6, <3>1 DEF ReadMrr
  <2>7. CASE ReadAiCost(r)
    <3>1. Ordered([summary[r].figures EXCEPT !.ai = AiCost(summary[r].day)])
      BY <2>2, <2>4 DEF Figures, Unread
    <3> QED BY <2>1, <2>7, <3>1 DEF ReadAiCost
  <2>8. CASE ReadLedger(r)
    <3>1. Ordered([summary[r].figures EXCEPT !.cost = LedgerTotal("cost", summary[r].day),
                                             !.revenue = LedgerTotal("revenue", summary[r].day)])
      BY <2>2, <2>5 DEF Figures, Unread
    <3> QED BY <2>1, <2>8, <3>1 DEF ReadLedger
  <2>9. CASE ReadActive(r)
    <3>1. Unread \notin {summary[r].figures.mrr, summary[r].figures.ai, summary[r].figures.cost}
      BY <2>9 DEF ReadActive
    <3>2. Ordered([summary[r].figures EXCEPT !.active = Cardinality(Earning(status))])
      BY <2>2, <2>3, <3>1 DEF Figures
    <3> QED BY <2>1, <2>9, <3>2 DEF ReadActive
  <2> QED BY <1>4, <2>6, <2>7, <2>8, <2>9
<1>5. ASSUME NEW r \in Summary, NEW state, state.figures = NoFigures, summary' = [summary EXCEPT ![r] = state],
             snapshots' = snapshots \/ snapshots' = [snapshots EXCEPT ![summary[r].day] = summary[r].figures],
             snapshots' # snapshots => summary[r].figures \in FiguresRead
      PROVE  FiguresInOrder'
  <2>1. \A q \in Summary : summary'[q].figures = IF q = r THEN NoFigures ELSE summary[q].figures
    BY <1>5 DEF FiguresTypeOK
  <2>2. \A q \in Summary : Ordered(summary'[q].figures)
    BY <1>1, <1>2, <2>1
  <2>3. \A d \in Day : snapshots'[d] \in {NoFigures} \cup FiguresRead
    BY <1>5 DEF FiguresInOrder, FiguresTypeOK
  <2> QED BY <2>2, <2>3 DEF FiguresInOrder
<1>6. ASSUME NEW r \in Summary, Upsert(r)
      PROVE  FiguresInOrder'
  <2>1. summary[r].figures \in Figures /\ Ordered(summary[r].figures)
    BY <1>1 DEF FiguresTypeOK, SummaryState
  <2>2. summary[r].figures \in FiguresRead
    BY <1>6, <2>1 DEF Upsert, Figures, FiguresRead
  <2> QED BY <1>5, <1>6, <2>2 DEF Upsert, NotAsked
<1>7. ASSUME NEW r \in Summary, SnapshotBegin(r) \/ Returns(r)
      PROVE  FiguresInOrder'
  BY <1>5, <1>7 DEF SnapshotBegin, Returns, NotAsked
<1>8. CASE Midnight \/ UNCHANGED analyticsVars
  BY <1>8 DEF Midnight, analyticsVars, FiguresInOrder
<1>9. ASSUME NEW c \in Call, CallUnderway(c) \/ RecordFails(c)
      PROVE  FiguresInOrder'
  <2>1. UNCHANGED <<snapshots, summary>>
    BY <1>9, CallUnderwayFacts DEF OfCallsOnly, RecordFails
  <2> QED BY <2>1 DEF FiguresInOrder
<1> QED BY <1>3, <1>4, <1>6, <1>7, <1>8, <1>9
        DEF AnalyticsNext, CallUnderway, AddEntry, DeleteEntry, SetStatus, RecordUsage

LEMMA NothingAheadInit == AnalyticsInit => NothingAhead
BY DEF AnalyticsInit, NothingAhead

LEMMA NothingAheadStep ==
    FiguresTypeOK /\ NothingAhead /\ [AnalyticsNext]_analyticsVars => NothingAhead'
<1> SUFFICES ASSUME FiguresTypeOK, NothingAhead, [AnalyticsNext]_analyticsVars PROVE NothingAhead'
  OBVIOUS
<1>1. now \in Day /\ usage \in [Month -> Nat]
  BY DEF FiguresTypeOK
<1>2. MonthOf(now) \in Nat /\ MonthOf(now) \in Month /\ Month \subseteq Nat
  BY <1>1, MonthFacts, MonthIsFinite
<1>3. CASE Midnight
  <2>1. now' \in Day /\ now <= now' /\ usage' = usage
    BY <1>1, <1>3, AnalyticsAssumption DEF Midnight, Day
  <2>2. MonthOf(now) <= MonthOf(now') /\ MonthOf(now') \in Nat
    BY <1>1, <2>1, MonthsFollow, MonthFacts
  <2>3. MonthOf(now)' = MonthOf(now')
    BY DEF MonthOf
  <2>4. \A m \in Month : m > MonthOf(now') => usage[m] = 0
    BY <1>2, <2>2 DEF NothingAhead
  <2> QED BY <2>1, <2>3, <2>4 DEF NothingAhead
<1>4. ASSUME NEW c \in Call, RecordUsage(c)
      PROVE  NothingAhead'
  <2>1. now' = now /\ usage' \in {usage, [usage EXCEPT ![MonthOf(now)] = @ + 1]}
    BY <1>4 DEF RecordUsage
  <2>2. MonthOf(now)' = MonthOf(now)
    BY <2>1 DEF MonthOf
  <2>3. \A m \in Month : m > MonthOf(now) => usage'[m] = usage[m]
    BY <1>1, <1>2, <2>1
  <2> QED BY <2>2, <2>3 DEF NothingAhead
<1>5. ASSUME UNCHANGED <<now, usage>>
      PROVE  NothingAhead'
  BY <1>5 DEF NothingAhead, MonthOf
<1>6. ASSUME NEW c \in Call, CallUnderway(c)
      PROVE  NothingAhead'
  BY <1>5, <1>6, CallUnderwayFacts DEF OfCallsOnly
<1>7. ASSUME NEW r \in Summary, ReadMrr(r) \/ ReadAiCost(r) \/ ReadLedger(r) \/ ReadActive(r)
      PROVE  NothingAhead'
  BY <1>5, <1>7 DEF ReadMrr, ReadAiCost, ReadLedger, ReadActive, Reads
<1> QED BY <1>3, <1>4, <1>5, <1>6, <1>7
        DEF AnalyticsNext, CallUnderway, AddEntry, DeleteEntry, SetStatus, SnapshotBegin,
            Upsert, Returns, RecordFails, analyticsVars

\* The names of the figures
LEMMA FigureNames == DOMAIN NoFigures = {"mrr", "active", "ai", "cost", "revenue"}
BY DEF NoFigures

\* What a statement reads is the figure that holds; only the cost of models may
\* be another month's.
LEMMA ReadsTruth ==
    ASSUME FiguresTypeOK, NothingAhead, NEW d \in Day
    PROVE  LET h == Truth(d, status, ledger, usage)
           IN  /\ h.mrr = Mrr(status) /\ h.active = Cardinality(Earning(status))
               /\ h.cost = LedgerTotal("cost", d) /\ h.revenue = LedgerTotal("revenue", d)
               /\ MonthOf(now) = MonthOf(d) => h.ai = AiCost(d)
<1> DEFINE h == Truth(d, status, ledger, usage)
<1>1. ASSUME NEW kind
      PROVE  {e \in Entry : ledger[e].kind = kind /\ InWindow(ledger[e].date, d)}
             = {e \in Entry : ledger[e].kind = kind /\ ledger[e].date <= d
                              /\ MonthOf(ledger[e].date) = MonthOf(d)}
  <2>1. \A e \in Entry : ledger[e].date \in Day
    BY DEF FiguresTypeOK
  <2>2. \A e \in Entry : InWindow(ledger[e].date, d)
                          <=> ledger[e].date <= d /\ MonthOf(ledger[e].date) = MonthOf(d)
    BY <2>1, WindowIsMonthToDate
  <2> QED BY <2>2
<1>2. h.cost = LedgerTotal("cost", d) /\ h.revenue = LedgerTotal("revenue", d)
  BY <1>1 DEF Truth, LedgerTotal
<1>3. h.mrr = Mrr(status) /\ h.active = Cardinality(Earning(status)) /\ h.ai = usage[MonthOf(d)]
  BY DEF Truth
<1>4. MonthOf(now) = MonthOf(d) => AiCost(d) = usage[MonthOf(d)]
  BY AiCostFacts DEF NothingAhead, FiguresTypeOK
<1> HIDE DEF h
<1>5. /\ h.mrr = Mrr(status) /\ h.active = Cardinality(Earning(status))
      /\ h.cost = LedgerTotal("cost", d) /\ h.revenue = LedgerTotal("revenue", d)
      /\ MonthOf(now) = MonthOf(d) => h.ai = AiCost(d)
  BY <1>2, <1>3, <1>4
<1> QED BY <1>5 DEF h

LEMMA WitnessInit == AnalyticsInit => FiguresWitnessed
BY DEF AnalyticsInit, FiguresWitnessed, NotAsked

\* A summary that sees more hold, and reads nothing, stays witnessed.
LEMMA WitnessKept ==
    ASSUME FiguresTypeOK, FiguresWitnessed, UNCHANGED now, Witnessed(status', ledger', usage')
    PROVE  FiguresWitnessed'
<1> SUFFICES ASSUME NEW r \in Summary, summary'[r].pc = "reading"
             PROVE  /\ summary'[r].day <= now'
                    /\ Truth(summary[r].day, status, ledger, usage)' \in summary'[r].held
                    /\ \A f \in DOMAIN NoFigures : FigureWitnessed(r, f)'
  BY DEF FiguresWitnessed, NoFigures
<1>1. /\ summary'[r].pc = summary[r].pc /\ summary'[r].day = summary[r].day
      /\ summary'[r].figures = summary[r].figures
      /\ summary[r].held \subseteq summary'[r].held
      /\ summary[r].pc = "reading" => Truth(summary[r].day, status', ledger', usage') \in summary'[r].held
  BY WitnessedKeeps
<1>2. /\ summary[r].day <= now
      /\ \A f \in DOMAIN NoFigures : FigureWitnessed(r, f)
  BY <1>1 DEF FiguresWitnessed
<1>3. Truth(summary[r].day, status, ledger, usage)' = Truth(summary[r].day, status', ledger', usage')
  BY <1>1 DEF Truth, Mrr, Earning, IsEarning, MonthOf
<1>4. ASSUME NEW f \in DOMAIN NoFigures
      PROVE  FigureWitnessed(r, f)'
  <2>1. FigureWitnessed(r, f)
    BY <1>2
  <2> QED BY <1>1, <2>1 DEF FigureWitnessed, MonthOf
<1> QED BY <1>1, <1>2, <1>3, <1>4

\* A statement of a summary leaves the data and every other summary alone, and
\* what it reads is a figure that holds: all stay witnessed.
LEMMA WitnessOfRead ==
    ASSUME FiguresTypeOK, NothingAhead, FiguresWitnessed, NEW r \in Summary,
           ReadMrr(r) \/ ReadAiCost(r) \/ ReadLedger(r) \/ ReadActive(r)
    PROVE  FiguresWitnessed'
<1> DEFINE d == summary[r].day
           h == Truth(d, status, ledger, usage)
           new == summary'[r].figures
<1>1. /\ summary[r].pc = "reading" /\ summary[r] \in SummaryState
      /\ UNCHANGED <<now, status, ledger, usage>>
      /\ \E figures : summary' = [summary EXCEPT ![r].figures = figures]
  BY DEF ReadMrr, ReadAiCost, ReadLedger, ReadActive, Reads, FiguresTypeOK
<1>2. /\ \A q \in Summary : /\ summary'[q].pc = summary[q].pc /\ summary'[q].day = summary[q].day
                            /\ summary'[q].held = summary[q].held
                            /\ q # r => summary'[q].figures = summary[q].figures
  BY <1>1 DEF FiguresTypeOK, SummaryState
<1>3. /\ d \in Day /\ d <= now /\ h \in summary[r].held
      /\ \A f \in DOMAIN NoFigures : FigureWitnessed(r, f)
  BY <1>1 DEF FiguresWitnessed, SummaryState
<1>4. /\ h.mrr = Mrr(status) /\ h.active = Cardinality(Earning(status))
      /\ h.cost = LedgerTotal("cost", d) /\ h.revenue = LedgerTotal("revenue", d)
      /\ MonthOf(now) = MonthOf(d) => h.ai = AiCost(d)
  BY <1>3, ReadsTruth
<1>5. ASSUME NEW f \in DOMAIN NoFigures
      PROVE  \/ new[f] = summary[r].figures[f]
             \/ new[f] = h[f]
             \/ f = "ai" /\ MonthOf(now) # MonthOf(d)
  <2> HIDE DEF h
  <2>1. f \in {"mrr", "active", "ai", "cost", "revenue"}
    BY <1>5, FigureNames
  <2>2. summary[r].figures \in Figures
    BY <1>1 DEF SummaryState
  <2>3. CASE ReadMrr(r)
    <3>1. new = [summary[r].figures EXCEPT !.mrr = Mrr(status)]
      BY <1>1, <2>3 DEF ReadMrr, Reads, FiguresTypeOK, SummaryState
    <3> QED BY <1>4, <2>1, <2>2, <3>1 DEF Figures
  <2>4. CASE ReadAiCost(r)
    <3>1. new = [summary[r].figures EXCEPT !.ai = AiCost(d)]
      BY <1>1, <2>4 DEF ReadAiCost, Reads, FiguresTypeOK, SummaryState
    <3> QED BY <1>4, <2>1, <2>2, <3>1 DEF Figures
  <2>5. CASE ReadLedger(r)
    <3>1. new = [summary[r].figures EXCEPT !.cost = LedgerTotal("cost", d), !.revenue = LedgerTotal("revenue", d)]
      BY <1>1, <2>5 DEF ReadLedger, Reads, FiguresTypeOK, SummaryState
    <3> QED BY <1>4, <2>1, <2>2, <3>1 DEF Figures
  <2>6. CASE ReadActive(r)
    <3>1. new = [summary[r].figures EXCEPT !.active = Cardinality(Earning(status))]
      BY <1>1, <2>6 DEF ReadActive, Reads, FiguresTypeOK, SummaryState
    <3> QED BY <1>4, <2>1, <2>2, <3>1 DEF Figures
  <2> QED BY <2>3, <2>4, <2>5, <2>6
<1>6. ASSUME NEW q \in Summary, summary'[q].pc = "reading"
      PROVE  /\ summary'[q].day <= now'
             /\ Truth(summary[q].day, status, ledger, usage)' \in summary'[q].held
             /\ \A f \in DOMAIN NoFigures : FigureWitnessed(q, f)'
  <2>1. summary[q].day <= now /\ Truth(summary[q].day, status, ledger, usage) \in summary[q].held
    BY <1>2, <1>6 DEF FiguresWitnessed
  <2>2. Truth(summary[q].day, status, ledger, usage)' = Truth(summary[q].day, status, ledger, usage)
    BY <1>1, <1>2 DEF Truth, Mrr, Earning, IsEarning, MonthOf
  <2>3. ASSUME NEW f \in DOMAIN NoFigures
        PROVE  FigureWitnessed(q, f)'
    <3>1. FigureWitnessed(q, f)
      BY <1>2, <1>6, <2>3 DEF FiguresWitnessed
    <3>2. CASE q = r
      <4> HIDE DEF h
      <4> QED BY <1>1, <1>2, <1>3, <1>5, <3>1, <3>2 DEF FigureWitnessed, MonthOf
    <3>3. CASE q # r
      BY <1>1, <1>2, <3>1, <3>3 DEF FigureWitnessed, MonthOf
    <3> QED BY <3>2, <3>3
  <2> QED BY <1>1, <1>2, <2>1, <2>2, <2>3
<1> QED BY <1>6 DEF FiguresWitnessed, NoFigures

\* A change shows every summary what holds then (<1>1); the end of a month is the
\* only step that makes what holds differ without one (<1>6).
LEMMA WitnessStep ==
    FiguresTypeOK /\ NothingAhead /\ FiguresWitnessed /\ [AnalyticsNext]_analyticsVars => FiguresWitnessed'
<1> SUFFICES ASSUME FiguresTypeOK, NothingAhead, FiguresWitnessed, [AnalyticsNext]_analyticsVars
             PROVE  FiguresWitnessed'
  OBVIOUS
<1>1. ASSUME UNCHANGED now, Witnessed(status', ledger', usage')
      PROVE  FiguresWitnessed'
  BY <1>1, WitnessKept
<1>2. ASSUME NEW e \in Entry, NEW kind \in {"cost", "revenue"}, NEW ahead \in Days, AddEntry(e, kind, ahead)
      PROVE  FiguresWitnessed'
  <2>1. now' = now /\ status' = status /\ usage' = usage /\ Witnessed(status, ledger', usage)
    BY <1>2 DEF AddEntry
  <2> QED BY <1>1, <2>1
<1>3. ASSUME NEW e \in Entry, DeleteEntry(e)
      PROVE  FiguresWitnessed'
  <2>1. now' = now /\ status' = status /\ usage' = usage /\ Witnessed(status, ledger', usage)
    BY <1>3 DEF DeleteEntry
  <2> QED BY <1>1, <2>1
<1>4. ASSUME NEW s \in Subscribed, NEW st \in Status, SetStatus(s, st)
      PROVE  FiguresWitnessed'
  <2>1. now' = now /\ ledger' = ledger /\ usage' = usage /\ Witnessed(status', ledger, usage)
    BY <1>4 DEF SetStatus
  <2> QED BY <1>1, <2>1
<1>5. ASSUME NEW c \in Call, RecordUsage(c)
      PROVE  FiguresWitnessed'
  <2>1. now' = now /\ ledger' = ledger /\ status' = status /\ Witnessed(status, ledger, usage')
    BY <1>5 DEF RecordUsage
  <2> QED BY <1>1, <2>1
<1>6. CASE Midnight
  <2>1. now' = now + 1 /\ UNCHANGED <<status, ledger, usage, summary>>
    BY <1>6 DEF Midnight
  <2>2. now \in Day /\ now' \in Day /\ now <= now' /\ now \in Nat
    BY <1>6, AnalyticsAssumption DEF Midnight, Day, FiguresTypeOK
  <2>3. MonthOf(now) \in Nat /\ MonthOf(now') \in Nat /\ MonthOf(now) <= MonthOf(now')
    BY <2>2, MonthFacts, MonthsFollow
  <2>4. ASSUME NEW r \in Summary, summary[r].pc = "reading"
        PROVE  /\ summary'[r].day <= now'
               /\ Truth(summary[r].day, status, ledger, usage)' \in summary'[r].held
               /\ \A f \in DOMAIN NoFigures : FigureWitnessed(r, f)'
    <3>1. /\ summary[r].day <= now /\ summary[r].day \in Day
          /\ Truth(summary[r].day, status, ledger, usage) \in summary[r].held
          /\ \A f \in DOMAIN NoFigures : FigureWitnessed(r, f)
      BY <2>4 DEF FiguresWitnessed, FiguresTypeOK, SummaryState
    <3>2. Truth(summary[r].day, status, ledger, usage)' = Truth(summary[r].day, status, ledger, usage)
      BY <2>1 DEF Truth, Mrr, Earning, IsEarning, MonthOf
    <3>3. MonthOf(summary[r].day) <= MonthOf(now) /\ MonthOf(summary[r].day) \in Nat
      BY <2>2, <3>1, MonthFacts, MonthsFollow
    <3>4. MonthOf(now) # MonthOf(summary[r].day) => MonthOf(now') # MonthOf(summary[r].day)
      BY <2>3, <3>3
    <3>5. /\ MonthOf(now)' = MonthOf(now') /\ MonthOf(summary[r].day)' = MonthOf(summary[r].day)
      BY <2>1 DEF MonthOf
    <3>6. ASSUME NEW f \in DOMAIN NoFigures
          PROVE  FigureWitnessed(r, f)'
      <4>1. FigureWitnessed(r, f)
        BY <3>1, <3>6
      <4> QED BY <2>1, <3>4, <3>5, <4>1 DEF FigureWitnessed
    <3>7. summary[r].day <= now'
      BY <2>2, <3>1 DEF Day
    <3> QED BY <2>1, <3>1, <3>2, <3>6, <3>7
  <2> QED BY <2>1, <2>4 DEF FiguresWitnessed, NoFigures
<1>7. ASSUME NEW r \in Summary, NEW state, summary' = [summary EXCEPT ![r] = state],
             UNCHANGED <<now, status, ledger, usage>>,
             state.pc = "reading" =>
                /\ state.day <= now /\ state.figures = NoFigures
                /\ Truth(state.day, status, ledger, usage) \in state.held
      PROVE  FiguresWitnessed'
  <2>1. ASSUME NEW q \in Summary, summary'[q].pc = "reading"
        PROVE  /\ summary'[q].day <= now'
               /\ Truth(summary'[q].day, status', ledger', usage') \in summary'[q].held
               /\ \A f \in DOMAIN NoFigures : FigureWitnessed(q, f)'
    <3>1. CASE q = r
      <4>1. summary'[q] = state
        BY <1>7, <3>1 DEF FiguresTypeOK
      <4>2. \A f \in DOMAIN NoFigures : NoFigures[f] = Unread
        BY DEF NoFigures
      <4> QED BY <1>7, <2>1, <4>1, <4>2 DEF FigureWitnessed
    <3>2. CASE q # r
      <4>1. summary'[q] = summary[q]
        BY <1>7, <3>2 DEF FiguresTypeOK
      <4>2. /\ summary[q].day <= now
            /\ Truth(summary[q].day, status, ledger, usage) \in summary[q].held
            /\ \A f \in DOMAIN NoFigures : FigureWitnessed(q, f)
        BY <2>1, <4>1 DEF FiguresWitnessed
      <4>3. \A f \in DOMAIN NoFigures : FigureWitnessed(q, f)'
        BY <1>7, <4>1, <4>2 DEF FigureWitnessed, MonthOf
      <4> QED BY <1>7, <4>1, <4>2, <4>3
    <3> QED BY <3>1, <3>2
  <2> QED BY <2>1 DEF FiguresWitnessed, NoFigures, Truth, Mrr, Earning, IsEarning, MonthOf
<1>8. ASSUME NEW r \in Summary, SnapshotBegin(r) \/ Upsert(r) \/ Returns(r)
      PROVE  FiguresWitnessed'
  <2>1. now <= now
    BY DEF FiguresTypeOK, Day
  <2>2. CASE SnapshotBegin(r)
    BY <1>7, <2>1, <2>2 DEF SnapshotBegin
  <2>3. CASE Upsert(r) \/ Returns(r)
    BY <1>7, <2>3 DEF Upsert, Returns, NotAsked
  <2> QED BY <1>8, <2>2, <2>3
<1>9. ASSUME UNCHANGED <<now, status, ledger, usage, summary>>
      PROVE  FiguresWitnessed'
  <2>1. \A r \in Summary : Truth(summary[r].day, status, ledger, usage)' = Truth(summary[r].day, status, ledger, usage)
    BY <1>9 DEF Truth, Mrr, Earning, IsEarning, MonthOf
  <2>2. \A r \in Summary, f \in DOMAIN NoFigures : FigureWitnessed(r, f)' = FigureWitnessed(r, f)
    BY <1>9 DEF FigureWitnessed, MonthOf
  <2> QED BY <1>9, <2>1, <2>2 DEF FiguresWitnessed, NoFigures
<1>10. ASSUME NEW c \in Call, CallUnderway(c) \/ RecordFails(c)
       PROVE  FiguresWitnessed'
  BY <1>9, <1>10, CallUnderwayFacts DEF OfCallsOnly, RecordFails
<1>11. CASE UNCHANGED analyticsVars
  BY <1>9, <1>11 DEF analyticsVars
<1>12. ASSUME NEW r \in Summary, ReadMrr(r) \/ ReadAiCost(r) \/ ReadLedger(r) \/ ReadActive(r)
       PROVE  FiguresWitnessed'
  BY <1>12, WitnessOfRead
<1> QED BY <1>2, <1>3, <1>4, <1>5, <1>6, <1>8, <1>10, <1>11, <1>12 DEF AnalyticsNext, CallUnderway

-----------------------------------------------------------------------------
(* What is spent is recorded *)

LEMMA SpendInit == AnalyticsInit => SpendRecorded
<1> SUFFICES ASSUME AnalyticsInit PROVE SpendRecorded
  OBVIOUS
<1>1. SumFunctionOnSet(usage, Month) = 0
  <2> DEFINE first == MonthOf(0)
  <2>1. first \in Month
    <3>1. 0 \in Day
      BY AnalyticsAssumption DEF Day
    <3> QED BY <3>1, MonthFacts
  <2> HIDE DEF first
  <2>2. usage = [m \in Month |-> 0]
    BY DEF AnalyticsInit
  <2>3. \A m \in Month \ {first} : usage[m] = 0
    BY <2>2
  <2>4. usage[first] = 0 /\ usage[first] \in Nat
    BY <2>1, <2>2
  <2>5. SumFunctionOnSet(usage, Month) = usage[first]
    BY <2>1, <2>3, <2>4, MonthIsFinite, SumOfOneAndZeros
  <2> QED BY <2>4, <2>5
<1>2. Cardinality({row \in rows : row[2] = "succeeded"}) = 0
  <2>1. {row \in rows : row[2] = "succeeded"} = {}
    BY DEF AnalyticsInit
  <2> QED BY <2>1, FS_EmptySet
<1> QED BY <1>1, <1>2 DEF AnalyticsInit, SpendRecorded

\* Only RecordUsage adds a row, of a call that had none, and charges the month.
LEMMA SpendStep ==
    FiguresTypeOK /\ SpendRecorded /\ [AnalyticsNext]_analyticsVars => SpendRecorded'
<1> SUFFICES ASSUME FiguresTypeOK, SpendRecorded, [AnalyticsNext]_analyticsVars PROVE SpendRecorded'
  OBVIOUS
<1> DEFINE Succeeded == {row \in rows : row[2] = "succeeded"}
           Recorded(c) == /\ calls[c] = "returned" => <<c, "succeeded">> \in rows \/ c \in dropped
                          /\ calls[c] = "threw" => <<c, "failed">> \in rows \/ c \in dropped
           Ended(row) == calls[row[1]] = IF row[2] = "succeeded" THEN "returned" ELSE "threw"
<1>1. /\ \A c \in Call : Recorded(c)
      /\ \A row \in rows : Ended(row) /\ row[1] \in Call /\ row[2] \in {"succeeded", "failed"}
      /\ SumFunctionOnSet(usage, Month) = Cardinality(Succeeded)
  BY DEF SpendRecorded, FiguresTypeOK
<1>2. ASSUME \A c \in Call : Recorded(c)',
             \A row \in rows' : Ended(row)',
             SumFunctionOnSet(usage', Month) = Cardinality(Succeeded')
      PROVE  SpendRecorded'
  BY <1>2 DEF SpendRecorded, Month, MonthOf
<1>3. ASSUME UNCHANGED <<usage, rows>>
      PROVE  SumFunctionOnSet(usage', Month) = Cardinality(Succeeded')
  BY <1>1, <1>3
<1>4. ASSUME UNCHANGED <<usage, rows, calls, dropped>>
      PROVE  SpendRecorded'
  BY <1>1, <1>2, <1>3, <1>4
<1>5. ASSUME NEW c \in Call, CallUnderway(c)
      PROVE  SpendRecorded'
  <2>1. PICK to \in {"awaiting", "yielded", "answered", "failing", "abandoned", "died"} :
           calls' = [calls EXCEPT ![c] = to]
    BY <1>5, CallUnderwayFacts
  <2>2. calls[c] \notin {"returned", "threw"} /\ UNCHANGED <<usage, rows, dropped>>
    BY <1>5, CallUnderwayFacts DEF OfCallsOnly
  <2>3. \A d \in Call : d # c => calls'[d] = calls[d]
    BY <2>1 DEF FiguresTypeOK
  <2>4. calls'[c] = to /\ to \notin {"returned", "threw"}
    BY <2>1 DEF FiguresTypeOK
  <2>5. \A d \in Call : Recorded(d)'
    BY <1>1, <2>2, <2>3, <2>4
  <2>6. \A row \in rows' : Ended(row)'
    BY <1>1, <2>2, <2>3
  <2> QED BY <1>2, <1>3, <2>2, <2>5, <2>6
<1>6. ASSUME NEW c \in Call, RecordFails(c)
      PROVE  SpendRecorded'
  <2>1. calls[c] \in {"answered", "failing"} /\ dropped' = dropped \union {c} /\ UNCHANGED <<usage, rows>>
    BY <1>6 DEF RecordFails
  <2>2. \A d \in Call : d # c => calls'[d] = calls[d]
    BY <1>6 DEF RecordFails, FiguresTypeOK
  <2>3. \A d \in Call : Recorded(d)'
    BY <1>1, <2>1, <2>2
  <2>4. \A row \in rows' : Ended(row)'
    BY <1>1, <2>1, <2>2
  <2> QED BY <1>2, <1>3, <2>1, <2>3, <2>4
<1>7. ASSUME NEW c \in Call, RecordUsage(c)
      PROVE  SpendRecorded'
  <2> DEFINE succeeded == calls[c] = "answered"
             outcome == IF succeeded THEN "succeeded" ELSE "failed"
             end == IF succeeded THEN "returned" ELSE "threw"
  <2>1. /\ calls[c] \in {"answered", "failing"} /\ rows' = rows \union {<<c, outcome>>} /\ dropped' = dropped
        /\ calls' = [calls EXCEPT ![c] = end]
        /\ usage' = IF succeeded THEN [usage EXCEPT ![MonthOf(now)] = @ + 1] ELSE usage
    BY <1>7 DEF RecordUsage
  <2>2. \A d \in Call : calls'[d] = IF d = c THEN end ELSE calls[d]
    BY <2>1 DEF FiguresTypeOK
  <2>3. \A d \in Call : Recorded(d)'
    <3>1. \A d \in Call : d # c => Recorded(d)'
      BY <1>1, <2>1, <2>2
    <3>2. Recorded(c)'
      BY <2>1, <2>2
    <3> QED BY <3>1, <3>2
  <2>4. \A row \in rows : row[1] # c
    BY <1>1, <2>1
  <2>5. \A row \in rows' : Ended(row)'
    <3>1. ASSUME NEW row \in rows
          PROVE  Ended(row)'
      BY <1>1, <2>2, <2>4
    <3>2. calls'[c] = IF outcome = "succeeded" THEN "returned" ELSE "threw"
      BY <2>2
    <3>3. ASSUME NEW row, row = <<c, outcome>>
          PROVE  Ended(row)'
      <4>1. row[1] = c /\ row[2] = outcome
        BY <3>3
      <4> HIDE DEF outcome
      <4> QED BY <3>2, <4>1
    <3> QED BY <2>1, <3>1, <3>3
  <2>6. SumFunctionOnSet(usage', Month) = Cardinality(Succeeded')
    <3>1. CASE succeeded
      <4>1. Succeeded' = Succeeded \cup {<<c, "succeeded">>} /\ <<c, "succeeded">> \notin Succeeded
        BY <2>1, <2>4, <3>1
      <4>2. IsFiniteSet(Succeeded)
        BY FS_Subset DEF FiguresTypeOK
      <4> HIDE DEF Succeeded
      <4>3. Cardinality(Succeeded') = Cardinality(Succeeded) + 1
        BY <4>1, <4>2, FS_AddElement
      <4>4. SumFunctionOnSet(usage', Month) = SumFunctionOnSet(usage, Month) + 1
        <5>1. usage \in [Month -> Nat] /\ MonthOf(now) \in Month
          BY MonthFacts DEF FiguresTypeOK
        <5>2. usage' = [usage EXCEPT ![MonthOf(now)] = @ + 1]
          BY <2>1, <3>1
        <5> QED BY <5>1, <5>2, MonthIsFinite, SumCountsOne
      <4> QED BY <1>1, <4>3, <4>4
    <3>2. CASE ~succeeded
      <4>1. Succeeded' = Succeeded /\ usage' = usage
        BY <2>1, <3>2
      <4> QED BY <1>1, <4>1
    <3> QED BY <3>1, <3>2
  <2> QED BY <1>2, <2>3, <2>5, <2>6
<1>8. ASSUME NEW r \in Summary, ReadMrr(r) \/ ReadAiCost(r) \/ ReadLedger(r) \/ ReadActive(r)
      PROVE  SpendRecorded'
  BY <1>4, <1>8 DEF ReadMrr, ReadAiCost, ReadLedger, ReadActive, Reads
<1> QED BY <1>4, <1>5, <1>6, <1>7, <1>8
        DEF AnalyticsNext, CallUnderway, AddEntry, DeleteEntry, SetStatus, SnapshotBegin, Midnight,
            Upsert, Returns, analyticsVars

-----------------------------------------------------------------------------
(* The theorems *)

\* Days, months, statuses, entries, calls, records, snapshots and what each
\* summary has read keep their types, however summaries, changes and calls
\* interleave (analytics.service.ts, usage.service.ts).
THEOREM FiguresTypeCorrect == AnalyticsSpec => []FiguresTypeOK
BY FiguresTypeInit, FiguresTypeStep, PTL DEF AnalyticsSpec

\* A call that came to its end has its record or lost it to a failed insert, and
\* what the months were charged with is what succeeded (AiService, record of
\* usage.service.ts), for every number of calls and months.
THEOREM SpendRecordedHolds == AnalyticsSpec => []SpendRecorded
BY FiguresTypeCorrect, SpendInit, SpendStep, PTL DEF AnalyticsSpec

\* The inductive invariant of a summary: it reads in order, nothing is recorded
\* of a month to come, and what it has read was true while it was under way.
LEMMA FiguresInv ==
    AnalyticsSpec => [](FiguresTypeOK /\ FiguresInOrder /\ NothingAhead /\ FiguresWitnessed)
BY FiguresTypeInit, FiguresTypeStep, InOrderInit, InOrderStep, NothingAheadInit, NothingAheadStep,
   WitnessInit, WitnessStep, PTL DEF AnalyticsSpec

\* The series and the summary agree on gross profit, and a margin is right to
\* half a basis point and absent for no revenue (profitOf, metrics.ts), whatever
\* the prices, the entries and the profit's sign.
THEOREM MarginsRightHolds == AnalyticsSpec => []MarginsRight
<1>1. FiguresTypeOK /\ FiguresInOrder => MarginsRight
  <2> SUFFICES ASSUME FiguresInOrder, NEW d \in Day, snapshots[d] # NoFigures
               PROVE  LET p == ProfitOf(snapshots[d])
                          Error(m) == 2 * (m * p.revenue - p.gross * 10000)
                      IN  /\ p.gross = GrossProfitOn(d)
                          /\ p.revenue = 0 <=> p.margin = {}
                          /\ \A m \in p.margin : -p.revenue <= Error(m) /\ Error(m) <= p.revenue
    BY DEF MarginsRight
  <2> DEFINE f == snapshots[d]
             income == f.mrr + f.revenue
             gross == income - (f.ai + f.cost)
  <2>1. f \in FiguresRead
    BY DEF FiguresInOrder
  <2>2. income \in Nat /\ gross \in Int /\ gross = GrossProfitOn(d)
    BY <2>1 DEF FiguresRead, GrossProfitOn
  <2>3. /\ ProfitOf(f).revenue = income /\ ProfitOf(f).gross = gross
        /\ ProfitOf(f).margin = Margin(income, gross)
    BY DEF ProfitOf
  <2> HIDE DEF income, gross
  <2>4. income = 0 <=> Margin(income, gross) = {}
    BY DEF Margin
  <2>5. ASSUME NEW m \in Margin(income, gross)
        PROVE  /\ -income <= 2 * (m * income - gross * 10000)
               /\ 2 * (m * income - gross * 10000) <= income
    <3> DEFINE n == gross * 10000
    <3>1. income \in Nat \ {0} /\ n \in Int /\ m = Rounded(n, income)
      BY <2>2 DEF Margin
    <3> HIDE DEF n
    <3>2. -income <= 2 * (m * income - n) /\ 2 * (m * income - n) <= income
      <4>1. /\ -income <= 2 * (Rounded(n, income) * income - n)
            /\ 2 * (Rounded(n, income) * income - n) <= income
        BY <3>1, RoundedBounds
      <4> QED BY <3>1, <4>1
    <3> QED BY <3>2 DEF n
  <2> HIDE DEF f
  <2>6. LET p == ProfitOf(f)
            Error(m) == 2 * (m * p.revenue - p.gross * 10000)
        IN  /\ p.gross = GrossProfitOn(d)
            /\ p.revenue = 0 <=> p.margin = {}
            /\ \A m \in p.margin : -p.revenue <= Error(m) /\ Error(m) <= p.revenue
    BY <2>2, <2>3, <2>4, <2>5
  <2> QED BY <2>6 DEF f
<1> QED BY <1>1, FiguresInv, PTL

\* Every figure of a snapshot was that day's at some moment while its summary was
\* under way, but for the cost of models when the month ended under it (snapshot
\* and summary, analytics.service.ts), for every number of summaries at once.
THEOREM SnapshotWitnessedHolds == AnalyticsSpec => SnapshotWitnessed
<1> DEFINE Written(d) ==
             \E r \in Summary :
                /\ summary[r].day = d /\ summary'[r].pc = "idle" /\ snapshots'[d] = summary[r].figures
                /\ \A f \in DOMAIN NoFigures :
                      \/ snapshots'[d][f] \in {h[f] : h \in summary[r].held}
                      \/ f = "ai" /\ MonthOf(now) # MonthOf(d)
<1>1. ASSUME FiguresTypeOK, FiguresInOrder, FiguresWitnessed, [AnalyticsNext]_analyticsVars,
             NEW d \in Day, snapshots'[d] # snapshots[d]
      PROVE  Written(d)
  <2>1. PICK r \in Summary : Upsert(r)
    <3>1. ASSUME NEW r \in Summary, ReadMrr(r) \/ ReadAiCost(r) \/ ReadLedger(r) \/ ReadActive(r)
          PROVE  snapshots' = snapshots
      BY <3>1 DEF ReadMrr, ReadAiCost, ReadLedger, ReadActive, Reads
    <3>2. ASSUME NEW c \in Call, CallUnderway(c)
          PROVE  snapshots' = snapshots
      BY <3>2, CallUnderwayFacts DEF OfCallsOnly
    <3> QED BY <1>1, <3>1, <3>2
            DEF AnalyticsNext, CallUnderway, AddEntry, DeleteEntry, SetStatus, SnapshotBegin, Midnight,
                Returns, RecordUsage, RecordFails, analyticsVars
  <2>2. summary[r].day = d /\ snapshots'[d] = summary[r].figures
    BY <1>1, <2>1 DEF Upsert, FiguresTypeOK
  <2>3. summary'[r].pc = "idle"
    BY <1>1, <2>1 DEF Upsert, NotAsked, FiguresTypeOK
  <2>4. summary[r].figures \in Figures /\ summary[r].pc = "reading" /\ summary[r].figures.active # Unread
    BY <1>1, <2>1 DEF Upsert, FiguresTypeOK, SummaryState
  <2>5. ASSUME NEW f \in DOMAIN NoFigures
        PROVE  \/ summary[r].figures[f] \in {h[f] : h \in summary[r].held}
               \/ f = "ai" /\ MonthOf(now) # MonthOf(d)
    <3>1. summary[r].figures[f] # Unread
      BY <1>1, <2>4, FigureNames DEF FiguresInOrder
    <3>2. FigureWitnessed(r, f)
      BY <1>1, <2>4 DEF FiguresWitnessed
    <3> QED BY <2>2, <3>1, <3>2 DEF FigureWitnessed
  <2> QED BY <2>2, <2>3, <2>5
<1>2. ASSUME FiguresTypeOK, FiguresInOrder, FiguresWitnessed, [AnalyticsNext]_analyticsVars
      PROVE  [\A d \in Day : snapshots'[d] # snapshots[d] => Written(d)]_analyticsVars
  BY <1>1, <1>2
<1> QED BY <1>2, FiguresInv, PTL DEF AnalyticsSpec, SnapshotWitnessed
=============================================================================
