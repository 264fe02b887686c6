---------------------- MODULE EarlySettlement_proofs ----------------------
(***************************************************************************)
(* Theorems about early settlements, for any quotes, payments, schedule    *)
(* and amounts.                                                            *)
(***************************************************************************)
EXTENDS EarlySettlement, FiniteSums_proofs, TLAPS

LoanType == [status : {"active", "completed"}, total : Nat, paid : Nat]
WasType == [total : Nat, paid : Nat, inst : [Installments -> Nat],
            waived : SUBSET Installments]
QuoteType ==
    [status : {"absent", "quoted", "processing", "settled", "failed", "expired", "reversed"},
     revised : Nat, was : WasType]
PaymentType ==
    [status : {"absent", "processing", "succeeded", "failed", "reversed"},
     amount : Nat, link : Quotes \cup {NoQuote}, cash : BOOLEAN]
RequestType ==
    [stage : {"none", "loaded", "started", "calling", "opened", "linked", "done", "lost"},
     door : {"none", "branch", "checkout", "counter", "collection", "debit"},
     quote : Quotes \cup {NoQuote}]

LEMMA PaymentsAreFinite == IsFiniteSet(Payments)
BY PaymentsAssumption

(* TypeOK by the parts that the steps change together.                     *)
LoanOK ==
    /\ loan \in LoanType
    /\ paid \in [Installments -> Nat]
    /\ waived \subseteq Installments
    /\ allocation \in [Payments -> [Installments -> Nat]]
QuotesOK == quote \in [Quotes -> QuoteType]
PaymentsOK == payment \in [Payments -> PaymentType]
RequestsOK == request \in [Payments -> RequestType]
RestOK ==
    /\ booked \subseteq Payments
    /\ gateway \in [Payments -> {"none", "processing", "succeeded", "failed", "reversed"}]
    /\ dayOpen \in BOOLEAN
    /\ upset \subseteq Upsets

Types == LoanOK /\ QuotesOK /\ PaymentsOK /\ RequestsOK /\ RestOK

LEMMA TypesAreTypeOK == Types <=> TypeOK
BY DEF Types, LoanOK, QuotesOK, PaymentsOK, RequestsOK, RestOK, TypeOK, LoanType, WasType,
       QuoteType, PaymentType, RequestType

(* Where a settlement request stands, and what its payment says of it:     *)
(* no payment before the call, no link before the checkout is open, a link *)
(* afterwards, and no success that the gateway does not know of.           *)
RequestInv(p) ==
    /\ request[p].stage \in {"none", "loaded", "started"} => payment[p].status = "absent"
    /\ request[p].stage \in {"calling", "opened"} /\ request[p].door # "branch"
       => payment[p].link = NoQuote
    /\ request[p].stage = "calling" => ~payment[p].cash
    /\ payment[p].status = "succeeded" /\ ~payment[p].cash
       => gateway[p] \in {"succeeded", "reversed"}
    /\ request[p].stage \notin {"none", "done", "lost"}
          /\ request[p].door \in {"branch", "checkout", "counter"}
       => request[p].quote \in Quotes
    /\ request[p].stage \in {"loaded", "started", "opened"}
       => request[p].door \in {"branch", "checkout", "counter"}
    /\ request[p].stage \in {"opened", "linked"} => request[p].door = "checkout"
    /\ request[p].stage = "linked" => payment[p].link \in Quotes /\ payment[p].status # "absent"

Inv == Types /\ (\A p \in Payments : RequestInv(p)) /\ SettledIsPaid

LEMMA InitTypes == Init => Types
<1> SUFFICES ASSUME Init PROVE Types
  OBVIOUS
<1>1. LoanOK
  <2>1. SumFunctionOnSet(Due, Installments) \in Nat
    BY InstallmentsAssumption, SumNat
  <2> QED BY <2>1 DEF Init, LoanOK, LoanType, Contract, Total
<1>2. QuotesOK
  BY DEF Init, QuotesOK, QuoteType, WasType, NoOffer, Untouched
<1>3. PaymentsOK /\ RequestsOK
  BY DEF Init, PaymentsOK, PaymentType, NoPayment, RequestsOK, RequestType, NoRequest
<1>4. RestOK
  BY DEF Init, RestOK, Upsets
<1> QED BY <1>1, <1>2, <1>3, <1>4 DEF Types

-----------------------------------------------------------------------------
(* The operators the actions are built from keep the types.                *)

LEMMA AmountsAreNat ==
    ASSUME LoanOK, QuotesOK
    PROVE  /\ Balance \in Nat
           /\ \A a \in Nat : Applied(a) \in Nat
           /\ \A q \in Quotes : Amount(q) \in Nat
<1>1. loan.total \in Nat /\ loan.paid \in Nat
  BY DEF LoanOK, LoanType
<1>2. \A q \in Quotes : quote[q].revised \in Nat /\ quote[q].was.paid \in Nat
  BY DEF QuotesOK, QuoteType, WasType
<1> QED BY <1>1, <1>2 DEF Balance, Applied, Amount, Monus, Least

LEMMA SetQuoteTypes ==
    ASSUME QuotesOK, NEW q, NEW s \in {"quoted", "processing", "settled", "failed", "expired",
                                       "reversed"},
           SetQuote(q, s)
    PROVE  /\ QuotesOK'
           /\ \A o \in Quotes :
                /\ quote'[o].status = (IF o = q THEN s ELSE quote[o].status)
                /\ quote'[o].revised = quote[o].revised /\ quote'[o].was = quote[o].was
<1> DEFINE row == [quote[q] EXCEPT !.status = s]
<1>1. quote' = [quote EXCEPT ![q] = row]
  BY DEF SetQuote
<1>2. q \in Quotes => /\ row \in QuoteType /\ row.status = s
                      /\ row.revised = quote[q].revised /\ row.was = quote[q].was
  BY DEF QuotesOK, QuoteType
<1> HIDE DEF row
<1> QED BY <1>1, <1>2 DEF QuotesOK

LEMMA SetPaymentTypes ==
    ASSUME PaymentsOK, NEW p \in Payments,
           NEW s \in {"absent", "processing", "succeeded", "failed", "reversed"}, SetPayment(p, s)
    PROVE  /\ PaymentsOK'
           /\ \A o \in Payments :
                /\ payment'[o].status = (IF o = p THEN s ELSE payment[o].status)
                /\ payment'[o].link = payment[o].link /\ payment'[o].cash = payment[o].cash
                /\ payment'[o].amount = payment[o].amount
<1> DEFINE row == [payment[p] EXCEPT !.status = s]
<1>1. payment' = [payment EXCEPT ![p] = row]
  BY DEF SetPayment
<1>2. row \in PaymentType /\ row.status = s
  BY DEF PaymentsOK, PaymentType
<1>3. row.link = payment[p].link /\ row.cash = payment[p].cash /\ row.amount = payment[p].amount
  BY DEF PaymentsOK, PaymentType
<1> HIDE DEF row
<1> QED BY <1>1, <1>2, <1>3 DEF PaymentsOK

LEMMA SetStageTypes ==
    ASSUME RequestsOK, NEW p \in Payments,
           NEW s \in {"none", "loaded", "started", "calling", "opened", "linked", "done", "lost"},
           SetStage(p, s)
    PROVE  /\ RequestsOK'
           /\ \A o \in Payments :
                /\ request'[o].stage = (IF o = p THEN s ELSE request[o].stage)
                /\ request'[o].door = request[o].door /\ request'[o].quote = request[o].quote
<1> DEFINE row == [request[p] EXCEPT !.stage = s]
<1>1. request' = [request EXCEPT ![p] = row]
  BY DEF SetStage
<1>2. row \in RequestType /\ row.stage = s
  BY DEF RequestsOK, RequestType
<1>3. row.door = request[p].door /\ row.quote = request[p].quote
  BY DEF RequestsOK, RequestType
<1> HIDE DEF row
<1> QED BY <1>1, <1>2, <1>3 DEF RequestsOK

LEMMA NewPaymentTypes ==
    ASSUME PaymentsOK, NEW p \in Payments, NEW a \in Nat, NEW link \in Quotes \cup {NoQuote},
           NEW cash \in BOOLEAN, NEW s \in {"processing", "succeeded"},
           NewPayment(p, a, s, link, cash)
    PROVE  PaymentsOK' /\ \A o \in Payments :
              payment'[o] = IF o = p THEN [status |-> s, amount |-> a, link |-> link, cash |-> cash]
                                     ELSE payment[o]
BY DEF NewPayment, PaymentsOK, PaymentType

LEMMA NewRequestTypes ==
    ASSUME RequestsOK, NEW p \in Payments, NEW q \in Quotes \cup {NoQuote},
           NEW s \in {"loaded", "calling", "done"},
           NEW door \in {"branch", "checkout", "counter", "collection", "debit"},
           NewRequest(p, s, door, q)
    PROVE  /\ RequestsOK'
           /\ request'[p].stage = s /\ request'[p].door = door /\ request'[p].quote = q
           /\ \A o \in Payments \ {p} : request'[o] = request[o]
BY DEF NewRequest, RequestsOK, RequestType

LEMMA AllocateTypes ==
    ASSUME LoanOK, NEW p, NEW a \in Nat, Allocate(p, a) PROVE LoanOK'
<1>1. PICK share \in Shares(a) :
         /\ allocation' = [allocation EXCEPT ![p] = share]
         /\ paid' = [i \in Installments |-> paid[i] + share[i]]
  BY DEF Allocate
<1>2. share \in [Installments -> Nat]
  BY DEF Shares
<1>3. allocation' \in [Payments -> [Installments -> Nat]] /\ paid' \in [Installments -> Nat]
  <2>1. \A i \in Installments : paid[i] + share[i] \in Nat
    BY <1>2 DEF LoanOK
  <2>2. allocation' \in [Payments -> [Installments -> Nat]]
    BY <1>1, <1>2 DEF LoanOK
  <2> QED BY <1>1, <2>1, <2>2
<1>4. loan' \in LoanType
  <2> DEFINE status == StatusOfLoan(loan.total, loan.paid + a, loan.status)
  <2>1. status \in {"active", "completed"} /\ loan.paid + a \in Nat
    BY DEF LoanOK, LoanType, StatusOfLoan
  <2>2. loan' = [loan EXCEPT !.paid = loan.paid + a, !.status = status]
    BY DEF Allocate
  <2> HIDE DEF status
  <2> QED BY <2>1, <2>2 DEF LoanOK, LoanType
<1> QED BY <1>3, <1>4 DEF LoanOK, Allocate

LEMMA AllocateOnceTypes ==
    ASSUME LoanOK, PaymentsOK, NEW p \in Payments, AllocateOnce(p) PROVE LoanOK'
<1>1. payment[p].amount \in Nat
  BY DEF PaymentsOK, PaymentType
<1>2. CASE UNCHANGED <<loan, paid, waived, allocation>>
  BY <1>2 DEF LoanOK
<1> QED BY <1>1, <1>2, AllocateTypes DEF AllocateOnce

LEMMA CloseAtTypes ==
    ASSUME LoanOK, QuotesOK, NEW q \in Quotes, CloseAt(q) PROVE LoanOK'
<1>1. quote[q].revised \in Nat
  BY DEF QuotesOK, QuoteType
<1> QED BY <1>1 DEF CloseAt, LoanOK, LoanType

LEMMA RestoreTypes ==
    ASSUME LoanOK, QuotesOK, NEW q \in Quotes, RestoreQuoted(q) PROVE LoanOK'
<1>1. quote[q].was \in WasType
  BY DEF QuotesOK, QuoteType
<1> QED BY <1>1 DEF RestoreQuoted, LoanOK, LoanType, WasType

LEMMA UnallocateTypes ==
    ASSUME LoanOK, PaymentsOK, NEW p \in Payments, Unallocate(p) PROVE LoanOK'
<1> DEFINE left == Monus(loan.paid, payment[p].amount)
           status == IF left < loan.total THEN "active" ELSE loan.status
<1>1. left \in Nat /\ status \in {"active", "completed"}
  BY DEF LoanOK, LoanType, PaymentsOK, PaymentType, Monus
<1>2. loan' = [loan EXCEPT !.paid = left, !.status = status]
  BY DEF Unallocate
<1>3. paid' \in [Installments -> Nat]
  BY DEF Unallocate, LoanOK, Monus
<1> HIDE DEF left, status
<1>4. loan' \in LoanType
  BY <1>1, <1>2 DEF LoanOK, LoanType
<1> QED BY <1>3, <1>4 DEF Unallocate, LoanOK

-----------------------------------------------------------------------------
(* One lemma per kind of step, for the whole invariant.                    *)

(* A settlement stays paid when every quote that becomes settled is paid,  *)
(* and no payment of a quote that stays settled is taken back.             *)
LEMMA StaysPaid ==
    ASSUME SettledIsPaid,
           \A q \in Quotes : quote'[q].status = "settled" =>
              \/ quote[q].status = "settled"
              \/ \E p \in Payments : payment'[p].link = q /\ payment'[p].status = "succeeded",
           \A p \in Payments :
              /\ payment[p].status = "succeeded" /\ payment[p].link \in Quotes
              /\ quote'[payment[p].link].status = "settled"
              => payment'[p].status = "succeeded" /\ payment'[p].link = payment[p].link
    PROVE  SettledIsPaid'
<1> SUFFICES ASSUME NEW q \in Quotes, quote'[q].status = "settled"
             PROVE \E p \in Payments : payment'[p].link = q /\ payment'[p].status = "succeeded"
  BY DEF SettledIsPaid, SettledQuotes, PaidBy
<1>1. CASE quote[q].status = "settled"
  <2>1. PICK p \in Payments : payment[p].link = q /\ payment[p].status = "succeeded"
    BY <1>1 DEF SettledIsPaid, SettledQuotes, PaidBy
  <2> QED BY <2>1
<1>2. CASE quote[q].status # "settled"
  BY <1>2
<1> QED BY <1>1, <1>2

(* Steps that touch no payment row and settle nothing.                     *)
LEMMA QuietStep ==
    ASSUME Inv, Types', payment' = payment,
           \A q \in Quotes : quote'[q].status = "settled" => quote[q].status = "settled",
           \A p \in Payments : RequestInv(p)'
    PROVE  Inv'
BY StaysPaid DEF Inv

LEMMA MakeQuoteStep ==
    ASSUME Inv, NEW q \in Quotes, NEW r \in Revised, MakeQuote(q, r) PROVE Inv'
<1>1. UNCHANGED <<loan, paid, waived, payment, allocation, booked, request, gateway, dayOpen, upset>>
  BY DEF MakeQuote
<1> DEFINE offer == [status |-> "quoted", revised |-> r,
                     was |-> [total |-> loan.total, paid |-> loan.paid,
                              inst |-> paid, waived |-> waived]]
<1>2. offer \in QuoteType /\ offer.status = "quoted"
  BY AmountsAssumption DEF Inv, Types, LoanOK, LoanType, QuoteType, WasType
<1>3. ASSUME NEW o \in Quotes PROVE [quote[o] EXCEPT !.status = "expired"] \in QuoteType
  BY DEF Inv, Types, QuotesOK, QuoteType
<1>4. quote' = [o \in Quotes |-> IF o = q THEN offer
                   ELSE IF quote[o].status = "quoted" THEN [quote[o] EXCEPT !.status = "expired"]
                   ELSE quote[o]]
  BY DEF MakeQuote
<1> HIDE DEF offer
<1>5. QuotesOK'
  BY <1>2, <1>3, <1>4 DEF Inv, Types, QuotesOK
<1>6. ASSUME NEW o \in Quotes, quote'[o].status = "settled" PROVE quote[o].status = "settled"
  <2>1. [quote[o] EXCEPT !.status = "expired"].status = "expired"
    BY DEF Inv, Types, QuotesOK, QuoteType
  <2> QED BY <1>2, <1>4, <1>6, <2>1
<1>7. Types'
  BY <1>1, <1>5 DEF Inv, Types, LoanOK, PaymentsOK, RequestsOK, RestOK
<1>8. \A p \in Payments : RequestInv(p)'
  BY <1>1 DEF Inv, RequestInv
<1> QED BY <1>1, <1>6, <1>7, <1>8, QuietStep

LEMMA RepayInCashStep ==
    ASSUME Inv, NEW p \in Payments, NEW a \in Tenders, RepayInCash(p, a) PROVE Inv'
<1>1. Applied(a) \in Nat
  BY AmountsAssumption, AmountsAreNat DEF Inv, Types
<1>2. PaymentsOK' /\ \A o \in Payments : payment'[o] =
         IF o = p THEN [status |-> "succeeded", amount |-> Applied(a), link |-> NoQuote, cash |-> TRUE]
                  ELSE payment[o]
  BY <1>1, NewPaymentTypes DEF RepayInCash, Inv, Types
<1>3. /\ RequestsOK'
      /\ request'[p].stage = "done" /\ request'[p].door = "collection" /\ request'[p].quote = NoQuote
      /\ \A o \in Payments \ {p} : request'[o] = request[o]
  <2>1. RequestsOK /\ NewRequest(p, "done", "collection", NoQuote)
    BY DEF RepayInCash, Inv, Types
  <2> QED BY <2>1, NewRequestTypes
<1>4. LoanOK'
  BY <1>1, AllocateTypes DEF RepayInCash, Inv, Types
<1>5. Types'
  BY <1>2, <1>3, <1>4 DEF RepayInCash, Inv, Types, QuotesOK, RestOK
<1>6. ASSUME NEW o \in Payments PROVE RequestInv(o)'
  BY <1>2, <1>3 DEF RepayInCash, NextInNumber, Inv, RequestInv
<1>7. payment[p].status = "absent" /\ quote' = quote
  BY DEF RepayInCash, NextInNumber, Inv, RequestInv
<1>8. SettledIsPaid'
  BY <1>2, <1>7, StaysPaid DEF Inv
<1> QED BY <1>5, <1>6, <1>8 DEF Inv

LEMMA AskGatewayStep ==
    ASSUME Inv, NEW p \in Payments, NEW a \in Tenders, NEW door \in {"collection", "debit"},
           AskGateway(p, a, door)
    PROVE  Inv'
<1>1. Applied(a) \in Nat
  BY AmountsAssumption, AmountsAreNat DEF Inv, Types
<1>2. PaymentsOK' /\ \A o \in Payments : payment'[o] =
         IF o = p THEN [status |-> "processing", amount |-> Applied(a), link |-> NoQuote, cash |-> FALSE]
                  ELSE payment[o]
  BY <1>1, NewPaymentTypes DEF AskGateway, Inv, Types
<1>3. /\ RequestsOK'
      /\ request'[p].stage = "calling" /\ request'[p].door = door /\ request'[p].quote = NoQuote
      /\ \A o \in Payments \ {p} : request'[o] = request[o]
  <2>1. RequestsOK /\ NewRequest(p, "calling", door, NoQuote)
    BY DEF AskGateway, Inv, Types
  <2> QED BY <2>1, NewRequestTypes
<1>5. Types'
  BY <1>2, <1>3 DEF AskGateway, Inv, Types, QuotesOK, LoanOK, RestOK
<1>6. ASSUME NEW o \in Payments PROVE RequestInv(o)'
  BY <1>2, <1>3 DEF AskGateway, NextInNumber, Inv, RequestInv
<1>7. payment[p].status = "absent" /\ quote' = quote
  BY DEF AskGateway, NextInNumber, Inv, RequestInv
<1>8. SettledIsPaid'
  BY <1>2, <1>7, StaysPaid DEF Inv
<1> QED BY <1>5, <1>6, <1>8 DEF Inv

LEMMA LoadQuoteStep ==
    ASSUME Inv, NEW p \in Payments, NEW q \in Quotes,
           NEW door \in {"branch", "checkout", "counter"}, LoadQuote(p, q, door)
    PROVE  Inv'
<1>1. /\ RequestsOK'
      /\ request'[p].stage = "loaded" /\ request'[p].door = door /\ request'[p].quote = q
      /\ \A o \in Payments \ {p} : request'[o] = request[o]
  <2>1. RequestsOK /\ NewRequest(p, "loaded", door, q)
    BY DEF LoadQuote, Inv, Types
  <2> QED BY <2>1, NewRequestTypes
<1>2. Types'
  BY <1>1 DEF LoadQuote, Inv, Types, QuotesOK, LoanOK, PaymentsOK, RestOK
<1>3. ASSUME NEW o \in Payments PROVE RequestInv(o)'
  BY <1>1 DEF LoadQuote, NextInNumber, Inv, RequestInv
<1> QED BY <1>2, <1>3, QuietStep DEF LoadQuote

(* A step of one request that moves its stage and settles nothing.         *)
LEMMA StageStep ==
    ASSUME Inv, NEW p \in Payments,
           NEW s \in {"started", "opened", "done", "lost"}, SetStage(p, s),
           request[p].stage \in {"loaded", "started", "calling", "opened", "linked"},
           s = "started" => request[p].stage = "loaded",
           s = "opened" => request[p].stage = "calling" /\ request[p].door = "checkout",
           Types', UNCHANGED <<payment, gateway>>,
           \A q \in Quotes : quote'[q].status = "settled" => quote[q].status = "settled"
    PROVE  Inv'
<1>1. \A o \in Payments :
         /\ request'[o].stage = (IF o = p THEN s ELSE request[o].stage)
         /\ request'[o].door = request[o].door /\ request'[o].quote = request[o].quote
  BY SetStageTypes DEF Inv, Types
<1>2. ASSUME NEW o \in Payments PROVE RequestInv(o)'
  BY <1>1 DEF Inv, RequestInv
<1> QED BY <1>2, QuietStep

LEMMA StartStep ==
    ASSUME Inv, NEW p \in Payments, StartSettlement(p) \/ FindExpired(p) PROVE Inv'
<1> DEFINE q == request[p].quote
<1>1. PICK s \in {"processing", "expired"}, stage \in {"started", "done"} :
         SetQuote(q, s) /\ SetStage(p, stage)
  BY DEF StartSettlement, FindExpired
<1>2. QuotesOK' /\ \A o \in Quotes : quote'[o].status = "settled" => quote[o].status = "settled"
  BY <1>1, SetQuoteTypes DEF Inv, Types
<1>3. RequestsOK'
  BY <1>1, SetStageTypes DEF Inv, Types
<1>4. UNCHANGED <<loan, paid, waived, payment, allocation, booked, gateway, dayOpen>>
      /\ upset' \subseteq Upsets
  BY DEF StartSettlement, FindExpired, Noting, Upsets, Inv, Types, RestOK
<1>5. Types'
  BY <1>2, <1>3, <1>4 DEF Inv, Types, LoanOK, PaymentsOK, RestOK
<1>6. request[p].stage = "loaded"
  BY DEF StartSettlement, FindExpired
<1> QED BY <1>1, <1>2, <1>4, <1>5, <1>6, StageStep

(* The request fails, and its quote may fail with it.                      *)
LEMMA FailQuoteTypes ==
    ASSUME Inv, NEW p, FailQuote(p) \/ UNCHANGED <<quote, upset>>
    PROVE  /\ QuotesOK' /\ upset' \subseteq Upsets
           /\ \A q \in Quotes : quote'[q].status = "settled" => quote[q].status = "settled"
<1>1. upset' \subseteq Upsets
  BY DEF FailQuote, Noting, Upsets, Inv, Types, RestOK
<1>2. CASE quote' = quote
  BY <1>1, <1>2 DEF Inv, Types, QuotesOK
<1>3. CASE SetQuote(request[p].quote, "failed")
  BY <1>1, <1>3, SetQuoteTypes DEF Inv, Types
<1> QED BY <1>2, <1>3 DEF FailQuote

LEMMA GiveUpStep ==
    ASSUME Inv, NEW p \in Payments,
           IntentUnavailable(p) \/ Crash(p) \/ AnswerPending(p) \/ AnswerLost(p)
    PROVE  Inv'
<1>1. UNCHANGED <<loan, paid, waived, payment, allocation, booked, gateway, dayOpen>>
  BY DEF IntentUnavailable, Crash, AnswerPending, AnswerLost, loanVars, ledgerVars
<1>2. FailQuote(p) \/ UNCHANGED <<quote, upset>>
  BY DEF IntentUnavailable, Crash, AnswerPending, AnswerLost, ledgerVars
<1>3. PICK s \in {"opened", "done", "lost"} :
        /\ SetStage(p, s)
        /\ s = "opened" => request[p].stage = "calling" /\ request[p].door = "checkout"
  BY DEF IntentUnavailable, Crash, AnswerPending, AnswerLost
<1>4. /\ QuotesOK' /\ upset' \subseteq Upsets
      /\ \A q \in Quotes : quote'[q].status = "settled" => quote[q].status = "settled"
  BY <1>2, FailQuoteTypes
<1>5. RequestsOK'
  BY <1>3, SetStageTypes DEF Inv, Types
<1>6. Types'
  BY <1>1, <1>4, <1>5 DEF Inv, Types, LoanOK, PaymentsOK, RestOK
<1>7. request[p].stage \in {"loaded", "started", "calling", "opened", "linked"}
  BY DEF IntentUnavailable, Crash, AnswerPending, AnswerLost
<1> QED BY <1>1, <1>3, <1>4, <1>6, <1>7, StageStep

(* Settling, and what a confirmed success does.                            *)
LEMMA SettleTypes ==
    ASSUME LoanOK, QuotesOK, RestOK, NEW p \in Payments, NEW q \in Quotes, Settle(p, q)
    PROVE  /\ LoanOK' /\ QuotesOK' /\ booked' \subseteq Payments
           /\ \A o \in Quotes : quote'[o].status = "settled" => quote[o].status = "settled" \/ o = q
<1>1. LoanOK'
  BY CloseAtTypes DEF Settle
<1>2. QuotesOK' /\ \A o \in Quotes : quote'[o].status = "settled" =>
                      quote[o].status = "settled" \/ o = q
  BY SetQuoteTypes DEF Settle
<1> QED BY <1>1, <1>2 DEF Settle, RestOK

LEMMA FinalizeTypes ==
    ASSUME Inv, NEW p \in Payments, Finalize(p)
    PROVE  /\ LoanOK' /\ QuotesOK' /\ PaymentsOK' /\ booked' \subseteq Payments
           /\ upset' \subseteq Upsets
           /\ \A o \in Payments :
                /\ payment'[o].status = (IF o = p THEN "succeeded" ELSE payment[o].status)
                /\ payment'[o].link = payment[o].link /\ payment'[o].cash = payment[o].cash
           /\ \A q \in Quotes : quote'[q].status = "settled" =>
                quote[q].status = "settled" \/ q = payment[p].link
<1>1. /\ PaymentsOK'
      /\ \A o \in Payments :
           /\ payment'[o].status = (IF o = p THEN "succeeded" ELSE payment[o].status)
           /\ payment'[o].link = payment[o].link /\ payment'[o].cash = payment[o].cash
  <2>1. SetPayment(p, "succeeded") /\ PaymentsOK
    BY DEF Finalize, Inv, Types
  <2> QED BY <2>1, SetPaymentTypes
<1>2. upset' \subseteq Upsets
  BY DEF Finalize, Upsets, Inv, Types, RestOK
<1>3. CASE UNCHANGED ledgerButPayment
  BY <1>1, <1>2, <1>3 DEF ledgerButPayment, Inv, Types, LoanOK, QuotesOK, RestOK
<1>4. CASE payment[p].link \in Quotes /\ Settle(p, payment[p].link)
  BY <1>1, <1>2, <1>4, SettleTypes DEF Inv, Types
<1>5. CASE Repaid(p)
  <2>1. LoanOK'
    BY <1>5, AllocateOnceTypes DEF Repaid, Inv, Types
  <2> QED BY <1>1, <1>2, <1>5, <2>1 DEF Repaid, Inv, Types, QuotesOK, RestOK
<1> QED BY <1>3, <1>4, <1>5 DEF Finalize

LEMMA FinalizeStep ==
    ASSUME Inv, NEW p \in Payments, Finalize(p), UNCHANGED <<gateway, dayOpen>>,
           payment[p].status # "absent" \/ request[p].stage = "calling",
           gateway[p] = "succeeded" \/ payment[p].status = "succeeded",
           request' = request \/ SetStage(p, "done")
    PROVE  Inv'
<1>1. RequestsOK' /\ \A o \in Payments :
         /\ request'[o].stage = request[o].stage \/ request'[o].stage = "done"
         /\ request'[o].door = request[o].door /\ request'[o].quote = request[o].quote
  BY SetStageTypes DEF Inv, Types, RequestsOK
<1>2. Types'
  BY <1>1, FinalizeTypes DEF Inv, Types, RestOK
<1>3. ASSUME NEW o \in Payments PROVE RequestInv(o)'
  BY <1>1, FinalizeTypes DEF Inv, RequestInv
<1>4. SettledIsPaid'
  BY FinalizeTypes, StaysPaid DEF Inv
<1> QED BY <1>2, <1>3, <1>4 DEF Inv

LEMMA SettleInCashStep ==
    ASSUME Inv, NEW p \in Payments, SettleInCash(p) PROVE Inv'
<1> DEFINE q == request[p].quote
<1>1. q \in Quotes /\ payment[p].status = "absent"
  BY DEF SettleInCash, Inv, RequestInv
<1>2. UNCHANGED <<gateway, dayOpen, upset>> /\ SetStage(p, "done")
  BY DEF SettleInCash
<1> HIDE DEF q
<1>3. /\ PaymentsOK'
      /\ \A o \in Payments : payment'[o] =
           IF o = p THEN [status |-> "succeeded", amount |-> Amount(q), link |-> q, cash |-> TRUE]
                    ELSE payment[o]
  <2>1. NewPayment(p, Amount(q), "succeeded", q, TRUE) /\ PaymentsOK /\ Amount(q) \in Nat
    BY <1>1, AmountsAreNat DEF SettleInCash, Inv, Types, q
  <2> QED BY <1>1, <2>1, NewPaymentTypes
<1>4. RequestsOK' /\ \A o \in Payments :
         /\ request'[o].stage = (IF o = p THEN "done" ELSE request[o].stage)
         /\ request'[o].door = request[o].door /\ request'[o].quote = request[o].quote
  BY <1>2, SetStageTypes DEF Inv, Types
<1>5. /\ LoanOK' /\ QuotesOK' /\ booked' \subseteq Payments
      /\ \A o \in Quotes : quote'[o].status = "settled" => quote[o].status = "settled" \/ o = q
  <2>1. CASE UNCHANGED ledgerButPayment
    BY <2>1 DEF ledgerButPayment, Inv, Types, LoanOK, QuotesOK, RestOK
  <2>2. CASE Settle(p, q)
    BY <2>2, <1>1, SettleTypes DEF Inv, Types
  <2> QED BY <2>1, <2>2 DEF SettleInCash, q
<1>6. Types'
  BY <1>2, <1>3, <1>4, <1>5 DEF Inv, Types, RestOK
<1>7. ASSUME NEW o \in Payments PROVE RequestInv(o)'
  BY <1>2, <1>3, <1>4 DEF Inv, RequestInv
<1>8. SettledIsPaid'
  BY <1>1, <1>3, <1>5, StaysPaid DEF Inv
<1> QED BY <1>6, <1>7, <1>8 DEF Inv

LEMMA RecordIntentStep ==
    ASSUME Inv, NEW p \in Payments, RecordIntent(p) PROVE Inv'
<1> DEFINE q == request[p].quote
           link == IF request[p].door = "branch" THEN q ELSE NoQuote
<1>1. q \in Quotes /\ payment[p].status = "absent" /\ request[p].door \in {"branch", "checkout"}
  BY DEF RecordIntent, Inv, RequestInv
<1>2. /\ UNCHANGED <<loan, paid, waived, quote, allocation, booked, gateway, dayOpen, upset>>
      /\ SetStage(p, "calling") /\ NewPayment(p, Amount(q), "processing", link, FALSE)
  BY DEF RecordIntent
<1>3. link \in Quotes \cup {NoQuote} /\ (request[p].door # "branch" => link = NoQuote)
  BY <1>1
<1> HIDE DEF q, link
<1>4. /\ PaymentsOK'
      /\ \A o \in Payments : payment'[o] =
           IF o = p THEN [status |-> "processing", amount |-> Amount(q), link |-> link, cash |-> FALSE]
                    ELSE payment[o]
  <2>1. PaymentsOK /\ Amount(q) \in Nat
    BY <1>1, AmountsAreNat DEF Inv, Types
  <2> QED BY <1>2, <1>3, <2>1, NewPaymentTypes
<1>5. RequestsOK' /\ \A o \in Payments :
         /\ request'[o].stage = (IF o = p THEN "calling" ELSE request[o].stage)
         /\ request'[o].door = request[o].door /\ request'[o].quote = request[o].quote
  BY <1>2, SetStageTypes DEF Inv, Types
<1>6. Types'
  BY <1>2, <1>4, <1>5 DEF Inv, Types, LoanOK, QuotesOK, RestOK
<1>7. ASSUME NEW o \in Payments PROVE RequestInv(o)'
  BY <1>1, <1>2, <1>3, <1>4, <1>5 DEF Inv, RequestInv, q
<1>8. SettledIsPaid'
  BY <1>1, <1>2, <1>4, StaysPaid DEF Inv
<1> QED BY <1>6, <1>7, <1>8 DEF Inv

(* A payment that is marked failed was not a settlement's success.         *)
LEMMA AnswerFailedStep ==
    ASSUME Inv, NEW p \in Payments, AnswerFailed(p) \/ AnswerUnusable(p) PROVE Inv'
<1>1. /\ request[p].stage = "calling"
      /\ UNCHANGED <<loan, paid, waived, allocation, booked, gateway, dayOpen>>
  BY DEF AnswerFailed, AnswerUnusable, loanVars
<1>2. PICK s \in {"done", "lost"} : SetStage(p, s)
  BY DEF AnswerFailed, AnswerUnusable
<1>3. /\ QuotesOK' /\ upset' \subseteq Upsets
      /\ \A q \in Quotes : quote'[q].status = "settled" => quote[q].status = "settled"
  BY FailQuoteTypes DEF AnswerFailed, AnswerUnusable
<1>4. /\ PaymentsOK'
      /\ \A o \in Payments :
           /\ payment'[o].status = payment[o].status \/ (o = p /\ payment'[o].status = "failed")
           /\ payment'[o].link = payment[o].link /\ payment'[o].cash = payment[o].cash
  <2>1. CASE UNCHANGED payment
    BY <2>1 DEF Inv, Types, PaymentsOK
  <2>2. CASE SetPayment(p, "failed")
    BY <2>2, SetPaymentTypes DEF Inv, Types
  <2> QED BY <2>1, <2>2 DEF AnswerFailed, AnswerUnusable
<1>5. payment'[p].status = payment[p].status \/ payment[p].link = NoQuote
         \/ payment[p].status # "succeeded"
  <2>1. CASE AnswerFailed(p)
    BY <2>1 DEF AnswerFailed, Inv, RequestInv
  <2>2. CASE AnswerUnusable(p)
    BY <2>2 DEF AnswerUnusable, Inv, RequestInv
  <2> QED BY <2>1, <2>2
<1>6. RequestsOK' /\ \A o \in Payments :
         /\ request'[o].stage = (IF o = p THEN s ELSE request[o].stage)
         /\ request'[o].door = request[o].door /\ request'[o].quote = request[o].quote
  BY <1>2, SetStageTypes DEF Inv, Types
<1>7. Types'
  BY <1>1, <1>3, <1>4, <1>6 DEF Inv, Types, LoanOK, RestOK
<1>8. ASSUME NEW o \in Payments PROVE RequestInv(o)'
  BY <1>1, <1>4, <1>6 DEF Inv, RequestInv
<1>9. SettledIsPaid'
  BY <1>3, <1>4, <1>5, NoQuoteAssumption, StaysPaid DEF Inv
<1> QED BY <1>7, <1>8, <1>9 DEF Inv

LEMMA AnswerTornStep ==
    ASSUME Inv, NEW p \in Payments, AnswerTorn(p) PROVE Inv'
<1>1. /\ request[p].stage = "calling" /\ gateway[p] = "succeeded" /\ SetStage(p, "done")
      /\ UNCHANGED <<booked, gateway, dayOpen>> /\ upset' = upset \cup {"torn commit"}
  BY DEF AnswerTorn
<1>2. RequestsOK' /\ \A o \in Payments :
         /\ request'[o].stage = (IF o = p THEN "done" ELSE request[o].stage)
         /\ request'[o].door = request[o].door /\ request'[o].quote = request[o].quote
  BY <1>1, SetStageTypes DEF Inv, Types
<1>3. CASE request[p].door = "debit" /\ AllocateOnce(p) /\ SetPayment(p, "failed") /\ UNCHANGED quote
  <2>1. /\ PaymentsOK'
        /\ \A o \in Payments :
             /\ payment'[o].status = (IF o = p THEN "failed" ELSE payment[o].status)
             /\ payment'[o].link = payment[o].link /\ payment'[o].cash = payment[o].cash
    BY <1>3, SetPaymentTypes DEF Inv, Types
  <2>2. LoanOK'
    BY <1>3, AllocateOnceTypes DEF Inv, Types
  <2>3. Types'
    BY <1>1, <1>2, <1>3, <2>1, <2>2 DEF Inv, Types, QuotesOK, RestOK, Upsets
  <2>4. ASSUME NEW o \in Payments PROVE RequestInv(o)'
    <3>1. gateway' = gateway /\ RequestInv(o)
      BY <1>1 DEF Inv
    <3>2. request'[o].stage = request[o].stage \/ (o = p /\ request'[o].stage = "done")
      BY <1>2
    <3>3. o = p => request[o].stage = "calling" /\ gateway[o] = "succeeded"
      BY <1>1
    <3> QED BY <1>2, <2>1, <3>1, <3>2, <3>3 DEF RequestInv
  <2>5. payment[p].link = NoQuote
    BY <1>1, <1>3 DEF Inv, RequestInv
  <2>6. SettledIsPaid'
    BY <1>3, <2>1, <2>5, NoQuoteAssumption, StaysPaid DEF Inv
  <2> QED BY <2>3, <2>4, <2>6 DEF Inv
<1>4. CASE /\ request[p].door = "branch" /\ SetPayment(p, "succeeded")
           /\ SetQuote(request[p].quote, "failed")
           /\ UNCHANGED <<loan, paid, waived, allocation>> \/ CloseAt(request[p].quote)
  <2>1. /\ PaymentsOK'
        /\ \A o \in Payments :
             /\ payment'[o].status = (IF o = p THEN "succeeded" ELSE payment[o].status)
             /\ payment'[o].link = payment[o].link /\ payment'[o].cash = payment[o].cash
    BY <1>4, SetPaymentTypes DEF Inv, Types
  <2>2. QuotesOK' /\ \A q \in Quotes : quote'[q].status = "settled" => quote[q].status = "settled"
    BY <1>4, SetQuoteTypes DEF Inv, Types
  <2>3. LoanOK'
    <3>1. request[p].quote \in Quotes
      BY <1>1, <1>4 DEF Inv, RequestInv
    <3>2. CASE UNCHANGED <<loan, paid, waived, allocation>>
      BY <3>2 DEF Inv, Types, LoanOK
    <3>3. CASE CloseAt(request[p].quote)
      BY <3>1, <3>3, CloseAtTypes DEF Inv, Types
    <3> QED BY <1>4, <3>2, <3>3
  <2>4. Types'
    BY <1>1, <1>2, <2>1, <2>2, <2>3 DEF Inv, Types, RestOK, Upsets
  <2>5. ASSUME NEW o \in Payments PROVE RequestInv(o)'
    <3>1. gateway' = gateway /\ RequestInv(o)
      BY <1>1 DEF Inv
    <3>2. request'[o].stage = request[o].stage \/ (o = p /\ request'[o].stage = "done")
      BY <1>2
    <3>3. o = p => request[o].stage = "calling" /\ gateway[o] = "succeeded"
      BY <1>1
    <3> QED BY <1>2, <2>1, <3>1, <3>2, <3>3 DEF RequestInv
  <2>6. SettledIsPaid'
    BY <2>1, <2>2, StaysPaid DEF Inv
  <2> QED BY <2>4, <2>5, <2>6 DEF Inv
<1> QED BY <1>3, <1>4 DEF AnswerTorn, loanVars

LEMMA LinkCheckoutStep ==
    ASSUME Inv, NEW p \in Payments, LinkCheckout(p) PROVE Inv'
<1> DEFINE row == [payment[p] EXCEPT !.link = request[p].quote]
<1>1. /\ request[p].quote \in Quotes /\ payment[p].link = NoQuote
      /\ UNCHANGED <<loan, paid, waived, quote, allocation, booked, gateway, dayOpen, upset>>
  BY DEF LinkCheckout, Inv, RequestInv, loanVars
<1>0. PICK s \in {"linked", "done"} :
        SetStage(p, s) /\ (s = "linked" => payment[p].status = "succeeded")
  BY DEF LinkCheckout
<1>2. /\ row \in PaymentType /\ row.status = payment[p].status /\ row.cash = payment[p].cash
      /\ row.link = request[p].quote /\ payment' = [payment EXCEPT ![p] = row]
  BY <1>1 DEF LinkCheckout, Inv, Types, PaymentsOK, PaymentType
<1> HIDE DEF row
<1>3. PaymentsOK' /\ payment'[p] = row /\ \A o \in Payments \ {p} : payment'[o] = payment[o]
  BY <1>2 DEF Inv, Types, PaymentsOK
<1>4. RequestsOK' /\ \A o \in Payments :
         /\ request'[o].stage = (IF o = p THEN s ELSE request[o].stage)
         /\ request'[o].door = request[o].door /\ request'[o].quote = request[o].quote
  BY <1>0, SetStageTypes DEF Inv, Types
<1>5. Types'
  BY <1>1, <1>3, <1>4 DEF Inv, Types, LoanOK, QuotesOK, RestOK
<1>6. ASSUME NEW o \in Payments PROVE RequestInv(o)'
  <2>1. payment[p].status # "absent" \/ s = "done"
    BY <1>0
  <2>2. request[p].door = "checkout"
    BY DEF LinkCheckout, Inv, RequestInv
  <2> QED BY <1>0, <1>1, <1>2, <1>3, <1>4, <2>1, <2>2 DEF Inv, RequestInv
<1>7. SettledIsPaid'
  BY <1>1, <1>3, NoQuoteAssumption, StaysPaid DEF Inv
<1> QED BY <1>5, <1>6, <1>7 DEF Inv

(* A payment that is reversed takes its settlement along.                  *)
LEMMA ReverseStep ==
    ASSUME Inv, NEW p \in Payments, payment[p].status = "succeeded", Reverse(p),
           UNCHANGED <<request, gateway, dayOpen>>
    PROVE  Inv'
<1> DEFINE q == payment[p].link
<1>1. /\ PaymentsOK'
      /\ \A o \in Payments :
           /\ payment'[o].status = (IF o = p THEN "reversed" ELSE payment[o].status)
           /\ payment'[o].link = payment[o].link /\ payment'[o].cash = payment[o].cash
  <2>1. SetPayment(p, "reversed") /\ PaymentsOK
    BY DEF Reverse, Inv, Types
  <2> QED BY <2>1, SetPaymentTypes
<1>2. booked' = booked /\ upset' \subseteq Upsets
  BY DEF Reverse, Noting, Upsets, Inv, Types, RestOK
<1>3. /\ LoanOK' /\ QuotesOK'
      /\ \A o \in Quotes : quote'[o].status = "settled" => quote[o].status = "settled" /\ o # q
  <2>1. CASE q \in Quotes /\ RestoreQuoted(q)
    <3>1. LoanOK'
      BY <2>1, RestoreTypes DEF Inv, Types
    <3>2. SetQuote(q, "reversed")
      BY <2>1 DEF RestoreQuoted
    <3> QED BY <3>1, <3>2, SetQuoteTypes DEF Inv, Types
  <2>2. CASE ~(q \in Quotes /\ quote[q].status = "settled") /\ Unallocate(p)
    <3>1. LoanOK' /\ quote' = quote
      BY <2>2, UnallocateTypes DEF Unallocate, Inv, Types
    <3> QED BY <2>2, <3>1 DEF Inv, Types, QuotesOK
  <2> QED BY <2>1, <2>2 DEF Reverse
<1>4. Types'
  BY <1>1, <1>2, <1>3 DEF Inv, Types, RequestsOK, RestOK
<1>5. ASSUME NEW o \in Payments PROVE RequestInv(o)'
  BY <1>1 DEF Inv, RequestInv
<1>6. SettledIsPaid'
  BY <1>1, <1>3, StaysPaid DEF Inv
<1> QED BY <1>4, <1>5, <1>6 DEF Inv

LEMMA NotifyStatusStep ==
    ASSUME Inv, NEW p \in Payments, NotifyStatus(p) PROVE Inv'
<1>1. /\ gateway[p] \in {"processing", "failed", "reversed"} /\ payment[p].status # "succeeded"
      /\ payment[p].status # "absent" /\ SetPayment(p, gateway[p])
      /\ UNCHANGED <<loan, paid, waived, allocation, booked, request, gateway, dayOpen, upset>>
  BY DEF NotifyStatus, Matched, loanVars, Inv, Types, RestOK
<1>2. /\ PaymentsOK'
      /\ \A o \in Payments :
           /\ payment'[o].status = (IF o = p THEN gateway[p] ELSE payment[o].status)
           /\ payment'[o].link = payment[o].link /\ payment'[o].cash = payment[o].cash
  BY <1>1, SetPaymentTypes DEF Inv, Types
<1>3. QuotesOK' /\ \A q \in Quotes : quote'[q].status = "settled" => quote[q].status = "settled"
  <2>1. CASE SetQuote(payment[p].link, "failed")
    BY <2>1, SetQuoteTypes DEF Inv, Types
  <2>2. CASE UNCHANGED quote
    BY <2>2 DEF Inv, Types, QuotesOK
  <2> QED BY <2>1, <2>2 DEF NotifyStatus
<1>4. Types'
  BY <1>1, <1>2, <1>3 DEF Inv, Types, LoanOK, RequestsOK, RestOK
<1>5. ASSUME NEW o \in Payments PROVE RequestInv(o)'
  BY <1>1, <1>2 DEF Inv, RequestInv
<1>6. SettledIsPaid'
  BY <1>1, <1>2, <1>3, StaysPaid DEF Inv
<1> QED BY <1>4, <1>5, <1>6 DEF Inv

LEMMA OutsideStep ==
    ASSUME Inv, NEW p \in Payments, GatewayTakes(p) \/ GatewayMoves(p) PROVE Inv'
<1>1. UNCHANGED <<loan, paid, waived, quote, payment, allocation, booked, request, dayOpen, upset>>
  BY DEF GatewayTakes, GatewayMoves, ledgerVars
<1>2. /\ gateway' \in [Payments -> {"none", "processing", "succeeded", "failed", "reversed"}]
      /\ \A o \in Payments : gateway[o] \in {"succeeded", "reversed"} =>
                               gateway'[o] \in {"succeeded", "reversed"}
  BY DEF GatewayTakes, GatewayMoves, Inv, Types, RestOK
<1>3. Types'
  BY <1>1, <1>2 DEF Inv, Types, LoanOK, QuotesOK, PaymentsOK, RequestsOK, RestOK
<1>4. ASSUME NEW o \in Payments PROVE RequestInv(o)'
  BY <1>1, <1>2 DEF Inv, RequestInv
<1> QED BY <1>1, <1>3, <1>4, QuietStep

LEMMA StutterStep ==
    ASSUME Inv, dayOpen' \in BOOLEAN,
           UNCHANGED <<loan, paid, waived, quote, payment, allocation, booked, request, gateway, upset>>
    PROVE  Inv'
<1>1. Types'
  BY DEF Inv, Types, LoanOK, QuotesOK, PaymentsOK, RequestsOK, RestOK
<1>2. ASSUME NEW o \in Payments PROVE RequestInv(o)'
  BY DEF Inv, RequestInv
<1> QED BY <1>1, <1>2, QuietStep

LEMMA InitInv == Init => Inv
<1> SUFFICES ASSUME Init PROVE Inv
  OBVIOUS
<1>1. \A p \in Payments : RequestInv(p)
  BY DEF Init, RequestInv, NoRequest, NoPayment
<1>2. SettledIsPaid
  BY DEF Init, SettledIsPaid, SettledQuotes, NoOffer
<1> QED BY <1>1, <1>2, InitTypes DEF Inv

LEMMA InvStep == Inv /\ [Next]_vars => Inv'
<1> SUFFICES ASSUME Inv, [Next]_vars PROVE Inv'
  OBVIOUS
<1>1. CASE UNCHANGED vars
  BY <1>1, StutterStep DEF vars, Inv, Types, RestOK
<1>2. CASE SubmitDay \/ OpenDay
  BY <1>2, StutterStep DEF SubmitDay, OpenDay, ledgerVars
<1>3. ASSUME NEW p \in Payments, RequestStep(p) PROVE Inv'
  <2>1. CASE AnswerSucceeded(p) \/ FinishCheckout(p)
    BY <2>1, FinalizeStep DEF AnswerSucceeded, FinishCheckout
  <2> QED
    BY <1>3, <2>1, RepayInCashStep, AskGatewayStep, LoadQuoteStep, StartStep, SettleInCashStep,
       RecordIntentStep, GiveUpStep, AnswerFailedStep, AnswerTornStep, LinkCheckoutStep
    DEF RequestStep, Collect, Debit
<1>4. ASSUME NEW p \in Payments, Notify(p) \/ ReverseCash(p) PROVE Inv'
  <2>1. CASE NotifySuccess(p)
    BY <2>1, FinalizeStep DEF NotifySuccess, Matched
  <2>2. CASE NotifyReversal(p) \/ ReverseCash(p)
    BY <2>2, ReverseStep DEF NotifyReversal, ReverseCash
  <2> QED BY <1>4, <2>1, <2>2, NotifyStatusStep DEF Notify
<1>5. ASSUME NEW p \in Payments, GatewayTakes(p) \/ GatewayMoves(p) PROVE Inv'
  BY <1>5, OutsideStep
<1> QED BY <1>1, <1>2, <1>3, <1>4, <1>5, MakeQuoteStep DEF Next

LEMMA Invariant == Spec => []Inv
BY InitInv, InvStep, PTL DEF Spec

(* Every row keeps its type: no amount becomes negative, whatever is       *)
(* reversed after a settlement lowered the loan (reverse_loan_payment).    *)
THEOREM SettlementTypes == Spec => []TypeOK
<1>1. Inv => TypeOK
  BY TypesAreTypeOK DEF Inv
<1> QED BY Invariant, <1>1, PTL

(* A quote stays settled only as long as a payment for it stands           *)
(* (finalize_early_settlement_payment, reverse_early_settlement), however  *)
(* requests, notifications and reversals interleave.                       *)
THEOREM SettledStaysPaid == Spec => []SettledIsPaid
<1>1. Inv => SettledIsPaid
  BY DEF Inv
<1> QED BY Invariant, <1>1, PTL

-----------------------------------------------------------------------------
(* What holds between the rows of a payment, its request and its quote.    *)

Without(excuses) == upset \cap excuses = {}
Made(q) == quote[q].status # "absent"

(* A quote that was made is not made again, and keeps its snapshot.        *)
QuotesKept ==
    \A q \in Quotes : Made(q) =>
        /\ Made(q)' /\ quote'[q].revised = quote[q].revised /\ quote'[q].was = quote[q].was
        /\ quote'[q].status = "quoted" => quote[q].status = "quoted"

(* The payment q is asked for, as soon as the request has started.         *)
Begun(p, q) ==
    request[p].quote = q /\ (request[p].stage = "started" \/ payment[p].status # "absent")

RowsInv(p) ==
    /\ \A q \in Quotes : request[p].quote = q =>
          Made(q) /\ Amount(q) > 0 /\ (payment[p].status # "absent" => payment[p].amount = Amount(q))
    /\ \A q \in Quotes : payment[p].link = q => request[p].quote = q
    /\ request[p].stage \in {"calling", "opened"} => payment[p].status # "absent"
    /\ request[p].stage = "none" => request[p].quote = NoQuote
    /\ request[p].door = "debit" => request[p].quote = NoQuote
    /\ request[p].door = "branch" /\ payment[p].status # "absent" => payment[p].link \in Quotes
    /\ request[p].stage = "calling" /\ request[p].door = "debit" => payment[p].status # "succeeded"
    /\ payment[p].cash => gateway[p] = "none" /\ payment[p].status # "absent"
    /\ payment[p].status = "absent" => ~Allocated(p) /\ gateway[p] = "none"
    /\ Allocated(p) => payment[p].cash \/ gateway[p] \in {"succeeded", "reversed"}

(* A settlement is asked for once, unless a request started on a quote     *)
(* that was no longer payable.                                             *)
Unique ==
    Without({"stale request"}) =>
      \A q \in Quotes, p \in Payments : Begun(p, q) =>
        /\ quote[q].status \notin {"absent", "quoted"}
        /\ \A o \in Payments : Begun(o, q) => o = p

(* A settlement's money is not posted before it is linked.                 *)
Linked ==
    Without({"unlinked settlement"}) =>
      \A p \in Payments :
        request[p].quote \in Quotes /\ payment[p].link = NoQuote => payment[p].status # "succeeded"

LEMMA AmountsKept ==
    ASSUME QuotesKept, NEW q \in Quotes, Made(q)
    PROVE  Made(q)' /\ Amount(q)' = Amount(q)
BY DEF QuotesKept, Amount

LEMMA ExcusesStay ==
    ASSUME upset \subseteq upset', NEW E, Without(E)' PROVE Without(E)
BY DEF Without

-----------------------------------------------------------------------------
(* Every step keeps the quotes that were made, and its history.            *)

LEMMA MarkedQuotes ==
    ASSUME QuotesOK, NEW q, NEW s \in {"processing", "settled", "failed", "expired", "reversed"},
           SetQuote(q, s)
    PROVE  QuotesKept
BY SetQuoteTypes DEF QuotesKept, Made

LEMMA OfferMakes ==
    ASSUME Inv, NEW q \in Quotes, NEW r \in Revised, MakeQuote(q, r)
    PROVE  /\ quote'[q].status = "quoted" /\ quote'[q].revised = r
           /\ quote'[q].was = [total |-> loan.total, paid |-> loan.paid,
                               inst |-> paid, waived |-> waived]
           /\ \A o \in Quotes \ {q} :
                /\ quote'[o].revised = quote[o].revised /\ quote'[o].was = quote[o].was
                /\ quote'[o].status = IF quote[o].status = "quoted" THEN "expired" ELSE quote[o].status
<1>1. ASSUME NEW o \in Quotes
      PROVE  LET row == [quote[o] EXCEPT !.status = "expired"]
             IN  row.status = "expired" /\ row.revised = quote[o].revised /\ row.was = quote[o].was
  BY DEF Inv, Types, QuotesOK, QuoteType
<1> QED BY <1>1 DEF MakeQuote

LEMMA HistoryStays ==
    ASSUME Inv, [Next]_vars PROVE QuotesKept /\ upset \subseteq upset'
<1> USE DEF Inv, Types
<1>1. ASSUME NEW q \in Quotes, NEW r \in Revised, MakeQuote(q, r) PROVE QuotesKept
  BY <1>1, OfferMakes DEF QuotesKept, Made, MakeQuote
<1>2. ASSUME quote' = quote PROVE QuotesKept
  BY <1>2 DEF QuotesKept, Made
<1>3. ASSUME NEW p \in Payments, RequestStep(p) PROVE QuotesKept /\ upset \subseteq upset'
  <2>1. CASE StartSettlement(p) \/ FindExpired(p)
    BY <2>1, MarkedQuotes DEF StartSettlement, FindExpired, Noting
  <2>2. CASE FailQuote(p)
    BY <1>2, <2>2, MarkedQuotes DEF FailQuote, Noting
  <2>3. CASE SettleInCash(p)
    BY <1>2, <2>3, MarkedQuotes DEF SettleInCash, Settle, ledgerButPayment
  <2>4. CASE AnswerSucceeded(p) \/ FinishCheckout(p)
    BY <1>2, <2>4, MarkedQuotes
    DEF AnswerSucceeded, FinishCheckout, Finalize, Settle, Repaid, ledgerButPayment
  <2>5. CASE AnswerTorn(p)
    BY <1>2, <2>5, MarkedQuotes DEF AnswerTorn
  <2> QED
    BY <1>2, <1>3, <2>1, <2>2, <2>3, <2>4, <2>5
    DEF RequestStep, RepayInCash, Collect, Debit, AskGateway, LoadQuote, RecordIntent,
        IntentUnavailable, Crash, AnswerPending, AnswerFailed, AnswerLost, AnswerUnusable,
        LinkCheckout, ledgerVars
<1>4. ASSUME NEW p \in Payments, Notify(p) \/ ReverseCash(p)
      PROVE  QuotesKept /\ upset \subseteq upset'
  <2>1. CASE NotifySuccess(p)
    BY <1>2, <2>1, MarkedQuotes DEF NotifySuccess, Finalize, Settle, Repaid, ledgerButPayment
  <2>2. CASE Reverse(p)
    BY <1>2, <2>2, MarkedQuotes DEF Reverse, RestoreQuoted, Unallocate, Noting
  <2>3. CASE NotifyStatus(p)
    BY <1>2, <2>3, MarkedQuotes DEF NotifyStatus
  <2> QED BY <1>4, <2>1, <2>2, <2>3 DEF Notify, NotifyReversal, ReverseCash
<1>5. CASE \/ UNCHANGED vars \/ SubmitDay \/ OpenDay
           \/ \E p \in Payments : GatewayTakes(p) \/ GatewayMoves(p)
  BY <1>2, <1>5 DEF vars, SubmitDay, OpenDay, GatewayTakes, GatewayMoves, ledgerVars
<1> QED BY <1>1, <1>3, <1>4, <1>5 DEF Next, MakeQuote

-----------------------------------------------------------------------------
(* The rows stay in order.                                                 *)

(* What a step may do to a debit, to a resource and to an allocation.      *)
DebitWaits(p) ==
    request'[p].stage = "calling" /\ request[p].door = "debit"
    => payment'[p].status = payment[p].status

GatewayMovesOn(p) ==
    /\ \/ gateway'[p] = gateway[p]
       \/ /\ ~payment[p].cash /\ payment[p].status # "absent"
          /\ gateway[p] \in {"succeeded", "reversed"} => gateway'[p] \in {"succeeded", "reversed"}
    /\ \/ allocation'[p] = allocation[p]
       \/ payment[p].status # "absent" /\ gateway'[p] \in {"succeeded", "reversed"}
    /\ \A o \in Payments \ {p} : gateway'[o] = gateway[o] /\ allocation'[o] = allocation[o]

LEMMA RowMoves ==
    ASSUME QuotesKept, NEW p \in Payments, RowsInv(p),
           payment'[p].amount = payment[p].amount, payment'[p].cash = payment[p].cash,
           payment'[p].link = payment[p].link,
           payment'[p].status = "absent" <=> payment[p].status = "absent",
           request'[p].quote = request[p].quote, request'[p].door = request[p].door,
           request'[p].stage = request[p].stage \/ request'[p].stage \in {"done", "lost"}
              \/ (request'[p].stage = "opened" /\ request[p].stage = "calling")
              \/ (request'[p].stage = "started" /\ request[p].stage = "loaded"),
           DebitWaits(p), GatewayMovesOn(p)
    PROVE  RowsInv(p)'
<1>1. ASSUME NEW q \in Quotes, Made(q) PROVE Made(q)' /\ Amount(q)' = Amount(q)
  BY <1>1, AmountsKept
<1> QED BY <1>1 DEF RowsInv, Allocated, DebitWaits, GatewayMovesOn

LEMMA RowStands ==
    ASSUME QuotesKept, NEW p \in Payments, RowsInv(p), payment'[p] = payment[p],
           request'[p] = request[p], gateway'[p] = gateway[p], allocation'[p] = allocation[p]
    PROVE  RowsInv(p)'
<1>1. (\E i \in Installments : allocation'[p][i] > 0) => Allocated(p)
  BY DEF Allocated
<1>2. ASSUME NEW q \in Quotes, Made(q) PROVE Made(q)' /\ Amount(q)' = Amount(q)
  BY <1>2, AmountsKept
<1> QED BY <1>1, <1>2 DEF RowsInv, Allocated

Rows == \A p \in Payments : RowsInv(p)

(* A new row, of an ordinary repayment or of a settlement.                 *)
Creates(p, q) ==
    /\ payment[p].status = "absent" /\ payment'[p].status \in {"processing", "succeeded"}
    /\ payment'[p].link \in {NoQuote, q} /\ request'[p].quote = q
    /\ request'[p].stage \in {"calling", "done"}
    /\ request'[p].stage = "calling" => payment'[p].status = "processing"
    /\ q \in Quotes =>
         /\ Made(q) /\ payment'[p].amount = Amount(q) /\ Amount(q) > 0
         /\ request'[p].door # "debit" /\ Begun(p, q)
         /\ payment'[p].link = NoQuote => payment'[p].status # "succeeded"
    /\ request'[p].door = "branch" => payment'[p].link \in Quotes
    /\ (\E i \in Installments : allocation'[p][i] > 0) => payment'[p].cash
    /\ gateway' = gateway
    /\ \A o \in Payments \ {p} : /\ payment'[o] = payment[o] /\ request'[o] = request[o]
                                /\ allocation'[o] = allocation[o]

LEMMA NewRow ==
    ASSUME QuotesKept, Rows, NEW p \in Payments, NEW q \in Quotes \cup {NoQuote}, Creates(p, q)
    PROVE  Rows'
<1>1. ASSUME NEW o \in Quotes, Made(o) PROVE Made(o)' /\ Amount(o)' = Amount(o)
  BY <1>1, AmountsKept
<1>2. ASSUME NEW o \in Payments, o # p PROVE RowsInv(o)'
  BY <1>2, RowStands DEF Rows, Creates
<1>3. RowsInv(p)'
  <2>1. gateway[p] = "none"
    BY DEF Rows, RowsInv, Creates
  <2> QED BY <1>1, <2>1, NoQuoteAssumption DEF RowsInv, Allocated, Creates
<1> QED BY <1>2, <1>3 DEF Rows

LEMMA AllocateRows ==
    ASSUME LoanOK, NEW p \in Payments, NEW a, Allocate(p, a)
    PROVE  \A o \in Payments \ {p} : allocation'[o] = allocation[o]
BY DEF Allocate, LoanOK

LEMMA RepayCreates ==
    ASSUME Inv, Rows, NEW p \in Payments, NEW a \in Tenders,
           RepayInCash(p, a) \/ AskGateway(p, a, "collection") \/ AskGateway(p, a, "debit")
    PROVE  Creates(p, NoQuote)
<1>1. Applied(a) \in Nat
  BY AmountsAssumption, AmountsAreNat DEF Inv, Types
<1>2. payment[p].status = "absent"
  BY DEF RepayInCash, AskGateway, NextInNumber, Inv, RequestInv
<1>3. CASE RepayInCash(p, a)
  <2>1. \A o \in Payments : payment'[o] =
           IF o = p THEN [status |-> "succeeded", amount |-> Applied(a), link |-> NoQuote, cash |-> TRUE]
                    ELSE payment[o]
    BY <1>1, <1>3, NewPaymentTypes DEF RepayInCash, Inv, Types
  <2>2. /\ request'[p].stage = "done" /\ request'[p].door = "collection"
        /\ request'[p].quote = NoQuote
        /\ \A o \in Payments \ {p} : request'[o] = request[o]
    BY <1>3, NewRequestTypes DEF RepayInCash, Inv, Types
  <2>3. \A o \in Payments \ {p} : allocation'[o] = allocation[o]
    BY <1>3, AllocateRows DEF RepayInCash, Inv, Types
  <2>4. gateway' = gateway
    BY <1>3 DEF RepayInCash
  <2>5. payment'[p].status = "succeeded" /\ payment'[p].link = NoQuote /\ payment'[p].cash
    BY <2>1
  <2>6. \A o \in Payments \ {p} : payment'[o] = payment[o]
    BY <2>1
  <2> QED BY <1>2, <2>2, <2>3, <2>4, <2>5, <2>6, NoQuoteAssumption DEF Creates, Allocated
<1>4. ASSUME NEW door \in {"collection", "debit"}, AskGateway(p, a, door) PROVE Creates(p, NoQuote)
  <2>1. \A o \in Payments : payment'[o] =
           IF o = p THEN [status |-> "processing", amount |-> Applied(a), link |-> NoQuote, cash |-> FALSE]
                    ELSE payment[o]
    BY <1>1, <1>4, NewPaymentTypes DEF AskGateway, Inv, Types
  <2>2. /\ request'[p].stage = "calling" /\ request'[p].door = door
        /\ request'[p].quote = NoQuote
        /\ \A o \in Payments \ {p} : request'[o] = request[o]
    BY <1>4, NewRequestTypes DEF AskGateway, Inv, Types
  <2>3. gateway' = gateway /\ allocation' = allocation
    BY <1>4 DEF AskGateway
  <2>4. ~Allocated(p)'
    BY <1>2, <2>3 DEF Rows, RowsInv, Allocated
  <2>5. payment'[p].status = "processing" /\ payment'[p].link = NoQuote
    BY <2>1
  <2>6. \A o \in Payments \ {p} : payment'[o] = payment[o]
    BY <2>1
  <2> QED BY <1>2, <2>2, <2>3, <2>4, <2>5, <2>6, NoQuoteAssumption DEF Creates, Allocated
<1> QED BY <1>3, <1>4

LEMMA SettlementCreates ==
    ASSUME Inv, Rows, NEW p \in Payments, SettleInCash(p) \/ RecordIntent(p)
    PROVE  request[p].quote \in Quotes /\ Creates(p, request[p].quote)
<1> DEFINE q == request[p].quote
           amt == Amount(q)
<1>1. /\ q \in Quotes /\ payment[p].status = "absent" /\ request[p].door # "debit"
      /\ Made(q) /\ amt > 0 /\ amt \in Nat
  BY AmountsAreNat DEF SettleInCash, RecordIntent, Inv, Types, RequestInv, Rows, RowsInv
<1>2. PICK stage \in {"done", "calling"} : SetStage(p, stage) /\
         (stage = "calling" => RecordIntent(p)) /\ (stage = "done" => SettleInCash(p))
  BY DEF SettleInCash, RecordIntent
<1>3. /\ \A o \in Payments :
         /\ request'[o].stage = (IF o = p THEN stage ELSE request[o].stage)
         /\ request'[o].door = request[o].door /\ request'[o].quote = request[o].quote
      /\ \A o \in Payments \ {p} : request'[o] = request[o]
  BY <1>2, SetStageTypes DEF Inv, Types, SetStage, RequestsOK
<1>4. /\ gateway' = gateway /\ allocation' = allocation
  BY DEF SettleInCash, RecordIntent, Settle, CloseAt, ledgerButPayment
<1>5. ~Allocated(p)'
  BY <1>1, <1>4 DEF Rows, RowsInv, Allocated
<1>6. PICK s \in {"processing", "succeeded"}, link \in {q, NoQuote}, cash \in BOOLEAN :
         /\ NewPayment(p, amt, s, link, cash)
         /\ stage = "calling" => s = "processing"
         /\ link = NoQuote => s = "processing"
         /\ request[p].door = "branch" => link = q
  BY <1>1, <1>2, NoQuoteAssumption DEF SettleInCash, RecordIntent
<1> HIDE DEF amt
<1>7. /\ payment'[p].status = s /\ payment'[p].amount = amt /\ payment'[p].link = link
      /\ \A o \in Payments \ {p} : payment'[o] = payment[o]
  <2>1. link \in Quotes \cup {NoQuote} /\ PaymentsOK
    BY <1>1 DEF Inv, Types
  <2>2. NewPayment(p, amt, s, link, cash)
    BY <1>6
  <2>3. \A o \in Payments : payment'[o] =
          IF o = p THEN [status |-> s, amount |-> amt, link |-> link, cash |-> cash] ELSE payment[o]
    BY <1>1, <2>1, <2>2 DEF NewPayment, PaymentsOK
  <2> QED BY <2>3
<1>8. amt = Amount(q)
  BY DEF amt
<1> HIDE DEF q
<1>9. request'[p].quote = q
  BY <1>3 DEF q
<1>10. Begun(p, q)
  BY DEF Begun, SettleInCash, RecordIntent, q
<1>11. Creates(p, q)
  BY <1>1, <1>3, <1>4, <1>5, <1>6, <1>7, <1>8, <1>9, <1>10 DEF Creates, Allocated
<1> QED BY <1>1, <1>11 DEF q

LEMMA LoadRows ==
    ASSUME Inv, Rows, NEW p \in Payments, NEW q \in Quotes, NEW door \in {"branch", "checkout", "counter"},
           LoadQuote(p, q, door), QuotesKept
    PROVE  Rows'
<1>1. /\ request'[p].stage = "loaded" /\ request'[p].door = door /\ request'[p].quote = q
      /\ \A o \in Payments \ {p} : request'[o] = request[o]
  BY NewRequestTypes DEF LoadQuote, Inv, Types
<1>2. UNCHANGED <<payment, gateway, allocation>> /\ Made(q) /\ Amount(q) > 0
  BY DEF LoadQuote, Payable, Made
<1>3. payment[p].status = "absent" /\ request[p].quote = NoQuote
  BY DEF LoadQuote, NextInNumber, Inv, RequestInv, Rows, RowsInv
<1>4. \A o \in Payments \ {p} : RowsInv(o)'
  BY <1>1, <1>2, RowStands DEF Rows
<1>5. Made(q)' /\ Amount(q)' = Amount(q)
  BY <1>2, AmountsKept
<1>6. RowsInv(p) /\ (Allocated(p)' <=> Allocated(p))
  BY <1>2 DEF Rows, Allocated
<1>7. RowsInv(p)'
  BY <1>1, <1>2, <1>3, <1>5, <1>6, NoQuoteAssumption DEF RowsInv
<1> QED BY <1>4, <1>7 DEF Rows

LEMMA LinkRows ==
    ASSUME Inv, Rows, NEW p \in Payments, LinkCheckout(p), QuotesKept
    PROVE  Rows'
<1>1. /\ UNCHANGED <<gateway, allocation>>
      /\ payment' = [payment EXCEPT ![p].link = request[p].quote]
  BY DEF LinkCheckout, loanVars
<1>0. PICK s \in {"linked", "done"} : SetStage(p, s)
  BY DEF LinkCheckout
<1>2. /\ \A o \in Payments \ {p} : payment'[o] = payment[o]
      /\ payment'[p].status = payment[p].status /\ payment'[p].amount = payment[p].amount
      /\ payment'[p].cash = payment[p].cash /\ payment'[p].link = request[p].quote
  BY <1>1 DEF Inv, Types, PaymentsOK, PaymentType
<1>3. /\ \A o \in Payments :
         /\ request'[o].stage = (IF o = p THEN s ELSE request[o].stage)
         /\ request'[o].door = request[o].door /\ request'[o].quote = request[o].quote
      /\ \A o \in Payments \ {p} : request'[o] = request[o]
  BY <1>0, SetStageTypes DEF Inv, Types, SetStage, RequestsOK
<1>4. \A o \in Payments \ {p} : RowsInv(o)'
  BY <1>1, <1>2, <1>3, RowStands DEF Rows
<1>5. ASSUME NEW o \in Quotes, Made(o) PROVE Made(o)' /\ Amount(o)' = Amount(o)
  BY <1>5, AmountsKept
<1>6. RowsInv(p) /\ (Allocated(p)' <=> Allocated(p))
  BY <1>1 DEF Rows, Allocated
<1>7. RowsInv(p)'
  BY <1>1, <1>2, <1>3, <1>5, <1>6 DEF RowsInv
<1> QED BY <1>4, <1>7 DEF Rows

(* A step that moves one payment, its request and its gateway resource on. *)
SuccessIsNoted(p) ==
    \/ payment[p].link \in Quotes \/ payment[p].status = "succeeded"
    \/ request[p].quote \notin Quotes \/ "unlinked settlement" \in upset'

PaymentMoves(p) ==
    \/ payment' = payment
    \/ \E s \in {"processing", "succeeded", "failed", "reversed"} :
         /\ SetPayment(p, s) /\ payment[p].status # "absent"
         /\ s = "succeeded" => SuccessIsNoted(p)

RequestMoves(p) ==
    \/ request' = request
    \/ \E s \in {"started", "opened", "done", "lost"} :
         /\ SetStage(p, s)
         /\ s = "opened" => request[p].stage = "calling"
         /\ s = "started" => StartSettlement(p)

Moves(p) == PaymentMoves(p) /\ RequestMoves(p) /\ DebitWaits(p) /\ GatewayMovesOn(p)

LEMMA MovedViews ==
    ASSUME Inv, NEW p \in Payments, Moves(p)
    PROVE  /\ \A o \in Payments \ {p} : payment'[o] = payment[o] /\ request'[o] = request[o]
           /\ payment'[p].link = payment[p].link /\ payment'[p].cash = payment[p].cash
           /\ payment'[p].amount = payment[p].amount
           /\ payment'[p].status = "absent" <=> payment[p].status = "absent"
           /\ request'[p].quote = request[p].quote /\ request'[p].door = request[p].door
           /\ \/ request'[p].stage = request[p].stage \/ request'[p].stage \in {"done", "lost"}
              \/ request'[p].stage = "opened" /\ request[p].stage = "calling"
              \/ request'[p].stage = "started" /\ request[p].stage = "loaded" /\ StartSettlement(p)
           /\ payment'[p].status = "succeeded" =>
                payment[p].status = "succeeded" \/ SuccessIsNoted(p)
<1>1. /\ \A o \in Payments \ {p} : payment'[o] = payment[o]
      /\ payment'[p].link = payment[p].link /\ payment'[p].cash = payment[p].cash
      /\ payment'[p].amount = payment[p].amount
      /\ payment'[p].status = "absent" <=> payment[p].status = "absent"
      /\ payment'[p].status = "succeeded" =>
           payment[p].status = "succeeded" \/ SuccessIsNoted(p)
  <2>1. CASE payment' = payment
    BY <2>1
  <2>2. ASSUME NEW s \in {"processing", "succeeded", "failed", "reversed"},
               SetPayment(p, s) /\ payment[p].status # "absent",
               s = "succeeded" => SuccessIsNoted(p)
        PROVE  <1>1
    <3>1. \A o \in Payments :
             /\ payment'[o].status = (IF o = p THEN s ELSE payment[o].status)
             /\ payment'[o].link = payment[o].link /\ payment'[o].cash = payment[o].cash
             /\ payment'[o].amount = payment[o].amount
      BY <2>2, SetPaymentTypes DEF Inv, Types
    <3>2. \A o \in Payments \ {p} : payment'[o] = payment[o]
      BY <2>2 DEF SetPayment, Inv, Types, PaymentsOK
    <3> QED BY <2>2, <3>1, <3>2
  <2> QED BY <2>1, <2>2 DEF Moves, PaymentMoves
<1>2. /\ \A o \in Payments \ {p} : request'[o] = request[o]
      /\ request'[p].quote = request[p].quote /\ request'[p].door = request[p].door
      /\ \/ request'[p].stage = request[p].stage \/ request'[p].stage \in {"done", "lost"}
         \/ request'[p].stage = "opened" /\ request[p].stage = "calling"
         \/ request'[p].stage = "started" /\ request[p].stage = "loaded" /\ StartSettlement(p)
  <2>1. CASE request' = request
    BY <2>1
  <2>2. ASSUME NEW s \in {"started", "opened", "done", "lost"},
               /\ SetStage(p, s)
               /\ s = "opened" => request[p].stage = "calling"
               /\ s = "started" => StartSettlement(p)
        PROVE  <1>2
    <3>1. \A o \in Payments :
             /\ request'[o].stage = (IF o = p THEN s ELSE request[o].stage)
             /\ request'[o].door = request[o].door /\ request'[o].quote = request[o].quote
      BY <2>2, SetStageTypes DEF Inv, Types
    <3>2. \A o \in Payments \ {p} : request'[o] = request[o]
      BY <2>2 DEF SetStage, Inv, Types, RequestsOK
    <3> QED BY <2>2, <3>1, <3>2 DEF StartSettlement
  <2> QED BY <2>1, <2>2 DEF Moves, RequestMoves
<1> QED BY <1>1, <1>2

LEMMA MovedRow ==
    ASSUME Inv, Rows, QuotesKept, NEW p \in Payments, Moves(p) PROVE Rows'
<1>1. \A o \in Payments \ {p} : RowsInv(o)'
  BY MovedViews, RowStands DEF Rows, Moves, GatewayMovesOn
<1>2. RowsInv(p)'
  <2>1. RowsInv(p) /\ DebitWaits(p) /\ GatewayMovesOn(p)
    BY DEF Rows, Moves
  <2> QED BY <2>1, MovedViews, RowMoves
<1> QED BY <1>1, <1>2 DEF Rows

LEMMA PostedAllocation ==
    ASSUME LoanOK, NEW p \in Payments, AllocateOnce(p)
    PROVE  \A o \in Payments \ {p} : allocation'[o] = allocation[o]
BY AllocateRows DEF AllocateOnce

LEMMA RequestMove ==
    ASSUME Inv, Rows, NEW p \in Payments,
           \/ StartSettlement(p) \/ FindExpired(p) \/ IntentUnavailable(p) \/ Crash(p)
           \/ AnswerPending(p) \/ AnswerLost(p)
    PROVE  Moves(p)
<1>1. payment' = payment /\ gateway' = gateway /\ allocation' = allocation
  BY DEF StartSettlement, FindExpired, IntentUnavailable, Crash, AnswerPending, AnswerLost,
         loanVars, ledgerVars
<1>2. \E s \in {"started", "opened", "done", "lost"} :
        /\ SetStage(p, s)
        /\ s = "opened" => request[p].stage = "calling"
        /\ s = "started" => StartSettlement(p)
  BY DEF StartSettlement, FindExpired, IntentUnavailable, Crash, AnswerPending, AnswerLost
<1>6. PaymentMoves(p)
  BY <1>1 DEF PaymentMoves
<1>7. RequestMoves(p)
  BY <1>2 DEF RequestMoves
<1>8. DebitWaits(p)
  BY <1>1 DEF DebitWaits
<1>9. GatewayMovesOn(p)
  BY <1>1 DEF GatewayMovesOn
<1> QED BY <1>6, <1>7, <1>8, <1>9 DEF Moves

LEMMA AnswerMove ==
    ASSUME Inv, Rows, NEW p \in Payments, AnswerFailed(p) \/ AnswerUnusable(p)
    PROVE  Moves(p)
<1>1. gateway' = gateway /\ allocation' = allocation
  BY DEF AnswerFailed, AnswerUnusable, loanVars
<1>2. \E s \in {"started", "opened", "done", "lost"} :
        /\ SetStage(p, s) /\ s \notin {"opened", "started"}
  BY DEF AnswerFailed, AnswerUnusable
<1>3. payment[p].status # "absent"
  BY DEF AnswerFailed, AnswerUnusable, Rows, RowsInv
<1>4. payment' = payment \/ SetPayment(p, "failed")
  BY DEF AnswerFailed, AnswerUnusable
<1>5. request'[p].stage # "calling"
  BY <1>2, SetStageTypes DEF Inv, Types
<1>6. PaymentMoves(p)
  BY <1>3, <1>4 DEF PaymentMoves
<1>7. RequestMoves(p)
  BY <1>2 DEF RequestMoves
<1>8. DebitWaits(p)
  BY <1>5 DEF DebitWaits
<1>9. GatewayMovesOn(p)
  BY <1>1 DEF GatewayMovesOn
<1> QED BY <1>6, <1>7, <1>8, <1>9 DEF Moves

LEMMA FinalizeMove ==
    ASSUME Inv, Rows, NEW p \in Payments,
           AnswerSucceeded(p) \/ FinishCheckout(p) \/ NotifySuccess(p)
    PROVE  Moves(p)
<1>1. /\ gateway' = gateway /\ SetPayment(p, "succeeded") /\ Finalize(p)
      /\ gateway[p] = "succeeded" \/ payment[p].link \in Quotes
  BY DEF AnswerSucceeded, FinishCheckout, NotifySuccess, Finalize, Inv, RequestInv
<1>2. request' = request \/ SetStage(p, "done")
  BY DEF AnswerSucceeded, FinishCheckout, NotifySuccess
<1>3. payment[p].status # "absent"
  BY DEF AnswerSucceeded, FinishCheckout, NotifySuccess, Matched, Rows, RowsInv
<1>4. request'[p].stage = "calling" /\ request[p].door = "debit" => FALSE
  <2>1. CASE AnswerSucceeded(p) \/ FinishCheckout(p)
    BY <2>1, SetStageTypes DEF AnswerSucceeded, FinishCheckout, Inv, Types
  <2>2. CASE NotifySuccess(p)
    BY <2>2 DEF NotifySuccess, Matched
  <2> QED BY <2>1, <2>2
<1>5. /\ \A o \in Payments \ {p} : allocation'[o] = allocation[o]
      /\ allocation' = allocation \/ gateway[p] = "succeeded"
  <2>1. allocation' = allocation \/ (AllocateOnce(p) /\ payment[p].link = NoQuote)
    BY <1>1 DEF Finalize, Settle, CloseAt, Repaid, ledgerButPayment
  <2> QED BY <1>1, <2>1, NoQuoteAssumption, PostedAllocation DEF Inv, Types
<1>10. SuccessIsNoted(p)
  BY <1>1 DEF Finalize, AlreadyDone, SuccessIsNoted, SettlesBy
<1>6. PaymentMoves(p)
  BY <1>1, <1>3, <1>10 DEF PaymentMoves
<1>7. RequestMoves(p)
  BY <1>2 DEF RequestMoves
<1>8. DebitWaits(p)
  BY <1>4 DEF DebitWaits
<1>9. GatewayMovesOn(p)
  BY <1>1, <1>3, <1>5 DEF GatewayMovesOn
<1> QED BY <1>6, <1>7, <1>8, <1>9 DEF Moves

LEMMA TornMove ==
    ASSUME Inv, Rows, NEW p \in Payments, AnswerTorn(p)
    PROVE  Moves(p)
<1>1. /\ gateway' = gateway /\ gateway[p] = "succeeded" /\ SetStage(p, "done")
      /\ payment[p].status # "absent"
  BY DEF AnswerTorn, Rows, RowsInv
<1>2. (SetPayment(p, "succeeded") /\ SuccessIsNoted(p)) \/ SetPayment(p, "failed")
  BY DEF AnswerTorn, SuccessIsNoted, Rows, RowsInv
<1>3. request'[p].stage # "calling"
  BY <1>1, SetStageTypes DEF Inv, Types
<1>4. \A o \in Payments \ {p} : allocation'[o] = allocation[o]
  <2>1. allocation' = allocation \/ AllocateOnce(p)
    BY DEF AnswerTorn, CloseAt, loanVars
  <2> QED BY <2>1, PostedAllocation DEF Inv, Types
<1>6. PaymentMoves(p)
  BY <1>1, <1>2 DEF PaymentMoves
<1>7. RequestMoves(p)
  BY <1>1 DEF RequestMoves
<1>8. DebitWaits(p)
  BY <1>3 DEF DebitWaits
<1>9. GatewayMovesOn(p)
  BY <1>1, <1>4 DEF GatewayMovesOn
<1> QED BY <1>6, <1>7, <1>8, <1>9 DEF Moves

LEMMA ReverseMove ==
    ASSUME Inv, Rows, NEW p \in Payments, NotifyReversal(p) \/ ReverseCash(p)
    PROVE  Moves(p)
<1>1. request' = request /\ gateway' = gateway /\ payment[p].status = "succeeded" /\ Reverse(p)
  BY DEF NotifyReversal, ReverseCash
<1>2. SetPayment(p, "reversed") /\ allocation' = allocation
  BY <1>1 DEF Reverse, RestoreQuoted, Unallocate
<1>3. request'[p].stage = "calling" /\ request[p].door = "debit" => FALSE
  BY <1>1 DEF Rows, RowsInv
<1>6. PaymentMoves(p)
  BY <1>1, <1>2 DEF PaymentMoves
<1>7. RequestMoves(p)
  BY <1>1 DEF RequestMoves
<1>8. DebitWaits(p)
  BY <1>3 DEF DebitWaits
<1>9. GatewayMovesOn(p)
  BY <1>1, <1>2 DEF GatewayMovesOn
<1> QED BY <1>6, <1>7, <1>8, <1>9 DEF Moves

LEMMA StatusMove ==
    ASSUME Inv, Rows, NEW p \in Payments, NotifyStatus(p)
    PROVE  Moves(p)
<1>1. /\ request' = request /\ gateway' = gateway /\ allocation' = allocation /\ payment[p].status # "absent"
      /\ \E s \in {"processing", "failed", "reversed"} : SetPayment(p, s)
  BY DEF NotifyStatus, Matched, loanVars, Inv, Types, RestOK
<1>2. request'[p].stage = "calling" /\ request[p].door = "debit" => FALSE
  BY <1>1 DEF NotifyStatus, Matched
<1>6. PaymentMoves(p)
  BY <1>1 DEF PaymentMoves
<1>7. RequestMoves(p)
  BY <1>1 DEF RequestMoves
<1>8. DebitWaits(p)
  BY <1>2 DEF DebitWaits
<1>9. GatewayMovesOn(p)
  BY <1>1 DEF GatewayMovesOn
<1> QED BY <1>6, <1>7, <1>8, <1>9 DEF Moves

LEMMA GatewayMove ==
    ASSUME Inv, Rows, NEW p \in Payments, GatewayTakes(p) \/ GatewayMoves(p)
    PROVE  Moves(p)
<1>1. request' = request /\ payment' = payment /\ allocation' = allocation
  BY DEF GatewayTakes, GatewayMoves, ledgerVars
<1>2. \A o \in Payments \ {p} : gateway'[o] = gateway[o]
  BY DEF GatewayTakes, GatewayMoves, Inv, Types, RestOK
<1>3. /\ ~payment[p].cash /\ payment[p].status # "absent"
      /\ gateway[p] \in {"succeeded", "reversed"} => gateway'[p] \in {"succeeded", "reversed"}
  BY DEF GatewayTakes, GatewayMoves, Inv, Types, RestOK, RequestInv, Rows, RowsInv
<1>6. PaymentMoves(p)
  BY <1>1 DEF PaymentMoves
<1>7. RequestMoves(p)
  BY <1>1 DEF RequestMoves
<1>8. DebitWaits(p)
  BY <1>1 DEF DebitWaits
<1>9. GatewayMovesOn(p)
  BY <1>1, <1>2, <1>3 DEF GatewayMovesOn
<1> QED BY <1>6, <1>7, <1>8, <1>9 DEF Moves

LEMMA MovingSteps ==
    ASSUME Inv, Rows, NEW p \in Payments,
           \/ StartSettlement(p) \/ FindExpired(p) \/ IntentUnavailable(p) \/ Crash(p)
           \/ AnswerPending(p) \/ AnswerLost(p) \/ AnswerFailed(p) \/ AnswerUnusable(p)
           \/ AnswerSucceeded(p) \/ AnswerTorn(p) \/ FinishCheckout(p) \/ NotifySuccess(p)
           \/ NotifyReversal(p) \/ ReverseCash(p) \/ NotifyStatus(p)
           \/ GatewayTakes(p) \/ GatewayMoves(p)
    PROVE  Moves(p)
BY RequestMove, AnswerMove, FinalizeMove, TornMove, ReverseMove, StatusMove, GatewayMove

Idle == UNCHANGED <<payment, request, gateway, allocation>>

(* Every step moves one payment on, creates one, loads or links a request, *)
(* or leaves these rows alone.                                             *)
LEMMA KindsOfStep ==
    ASSUME Inv, Rows, [Next]_vars
    PROVE  \/ Idle
           \/ \E p \in Payments :
                \/ Moves(p) \/ Creates(p, NoQuote)
                \/ request[p].quote \in Quotes /\ Creates(p, request[p].quote)
                \/ \E q \in Quotes, door \in {"branch", "checkout", "counter"} : LoadQuote(p, q, door)
                \/ LinkCheckout(p)
<1>1. ASSUME NEW p \in Payments, RequestStep(p)
      PROVE  \/ Moves(p) \/ Creates(p, NoQuote)
             \/ request[p].quote \in Quotes /\ Creates(p, request[p].quote)
             \/ \E q \in Quotes, door \in {"branch", "checkout", "counter"} : LoadQuote(p, q, door)
             \/ LinkCheckout(p)
  BY <1>1, MovingSteps, RepayCreates, SettlementCreates DEF RequestStep, Collect, Debit
<1>2. ASSUME NEW p \in Payments, Notify(p) \/ ReverseCash(p) \/ GatewayTakes(p) \/ GatewayMoves(p)
      PROVE  Moves(p)
  BY <1>2, MovingSteps DEF Notify
<1>3. CASE \/ UNCHANGED vars \/ SubmitDay \/ OpenDay
           \/ \E q \in Quotes, r \in Revised : MakeQuote(q, r)
  BY <1>3 DEF vars, SubmitDay, OpenDay, MakeQuote, ledgerVars, Idle
<1> QED BY <1>1, <1>2, <1>3 DEF Next

LEMMA RowsStep == Inv /\ Rows /\ [Next]_vars => Rows'
<1> SUFFICES ASSUME Inv, Rows, [Next]_vars PROVE Rows'
  OBVIOUS
<1>1. QuotesKept
  BY HistoryStays
<1>2. CASE Idle
  BY <1>1, <1>2, RowStands DEF Rows, Idle
<1> QED BY <1>1, <1>2, KindsOfStep, MovedRow, NewRow, LoadRows, LinkRows

LEMMA InitRows == Init => Rows
BY InstallmentsAssumption, NoQuoteAssumption
   DEF Init, Rows, RowsInv, NoRequest, NoPayment, Allocated

-----------------------------------------------------------------------------
(* Every quote is settled by one request at most.                          *)

Offered == \A q \in Quotes : Made(q) => quote[q].revised \in Revised

(* A mark on the quote that a request asks for or a payment names; a       *)
(* settled quote loses its status in a reversal, or it is noted.           *)
Undoes(p, q) ==
    /\ payment[p].link = q /\ payment[p].status = "succeeded"
    /\ SetPayment(p, "reversed") /\ RestoreQuoted(q)
    /\ upset' = upset

QuoteMoves(p) ==
    \E q \in Quotes, s \in {"processing", "settled", "failed", "expired", "reversed"} :
      /\ SetQuote(q, s) /\ q \in {request[p].quote, payment[p].link}
      /\ quote[q].status = "settled" =>
           \/ s = "settled" \/ Undoes(p, q)
           \/ upset' \cap {"stale request", "torn commit", "lost settlement"} # {}

LEMMA KindsOfQuoteStep ==
    ASSUME Inv, [Next]_vars
    PROVE  \/ quote' = quote
           \/ \E q \in Quotes, r \in Revised : MakeQuote(q, r)
           \/ \E p \in Payments : QuoteMoves(p)
<1>1. ASSUME NEW p \in Payments, RequestStep(p) PROVE quote' = quote \/ QuoteMoves(p)
  <2>1. CASE StartSettlement(p) \/ FindExpired(p)
    BY <2>1 DEF StartSettlement, FindExpired, Noting, Payable, QuoteMoves, Inv, RequestInv
  <2>2. CASE FailQuote(p)
    BY <2>2 DEF FailQuote, Noting, SettlesBy, QuoteMoves
  <2>3. CASE SettleInCash(p)
    BY <2>3 DEF SettleInCash, Settle, ledgerButPayment, QuoteMoves, Inv, RequestInv
  <2>4. CASE AnswerSucceeded(p) \/ FinishCheckout(p)
    BY <2>4
    DEF AnswerSucceeded, FinishCheckout, Finalize, Settle, Repaid, ledgerButPayment, QuoteMoves
  <2>5. CASE AnswerTorn(p)
    <3>1. upset' \cap {"stale request", "torn commit", "lost settlement"} # {}
      BY <2>5 DEF AnswerTorn
    <3>2. quote' = quote \/ (SetQuote(request[p].quote, "failed") /\ request[p].quote \in Quotes)
      BY <2>5 DEF AnswerTorn, Inv, RequestInv
    <3> QED BY <3>1, <3>2 DEF QuoteMoves
  <2> QED
    BY <1>1, <2>1, <2>2, <2>3, <2>4, <2>5
    DEF RequestStep, RepayInCash, Collect, Debit, AskGateway, LoadQuote, RecordIntent,
        IntentUnavailable, Crash, AnswerPending, AnswerFailed, AnswerLost, AnswerUnusable,
        LinkCheckout, ledgerVars
<1>2. ASSUME NEW p \in Payments, Notify(p) \/ ReverseCash(p) PROVE quote' = quote \/ QuoteMoves(p)
  <2>1. CASE NotifySuccess(p)
    BY <2>1 DEF NotifySuccess, Finalize, Settle, Repaid, ledgerButPayment, QuoteMoves
  <2>2. CASE NotifyReversal(p) \/ ReverseCash(p)
    <3>1. payment[p].status = "succeeded" /\ Reverse(p)
      BY <2>2 DEF NotifyReversal, ReverseCash
    <3>2. CASE Unallocate(p)
      BY <3>2 DEF Unallocate
    <3>3. CASE payment[p].link \in Quotes /\ RestoreQuoted(payment[p].link) /\ upset' = upset
      BY <3>1, <3>3 DEF Reverse, RestoreQuoted, QuoteMoves, Undoes
    <3> QED BY <3>1, <3>2, <3>3 DEF Reverse
  <2>3. CASE NotifyStatus(p)
    BY <2>3 DEF NotifyStatus, QuoteMoves
  <2> QED BY <1>2, <2>1, <2>2, <2>3 DEF Notify
<1>3. CASE \/ UNCHANGED vars \/ SubmitDay \/ OpenDay
           \/ \E p \in Payments : GatewayTakes(p) \/ GatewayMoves(p)
  BY <1>3 DEF vars, SubmitDay, OpenDay, GatewayTakes, GatewayMoves, ledgerVars
<1> QED BY <1>1, <1>2, <1>3 DEF Next

LEMMA MovedQuotes ==
    ASSUME Inv, Rows, NEW p \in Payments, QuoteMoves(p), NEW q \in Quotes
    PROVE  /\ quote'[q].revised = quote[q].revised /\ quote'[q].was = quote[q].was
           /\ Made(q)' => Made(q)
           /\ quote[q].status = "settled" =>
                \/ quote'[q].status = "settled" \/ Undoes(p, q)
                \/ upset' \cap {"stale request", "torn commit", "lost settlement"} # {}
<1>1. PICK o \in Quotes, s \in {"processing", "settled", "failed", "expired", "reversed"} :
         /\ SetQuote(o, s) /\ o \in {request[p].quote, payment[p].link}
         /\ quote[o].status = "settled" =>
              \/ s = "settled" \/ Undoes(p, o)
              \/ upset' \cap {"stale request", "torn commit", "lost settlement"} # {}
  BY DEF QuoteMoves
<1>2. Made(o)
  BY <1>1 DEF Rows, RowsInv
<1>3. \A x \in Quotes :
         /\ quote'[x].status = (IF x = o THEN s ELSE quote[x].status)
         /\ quote'[x].revised = quote[x].revised /\ quote'[x].was = quote[x].was
  <2>1. SetQuote(o, s) /\ QuotesOK
    BY <1>1 DEF Inv, Types
  <2> QED BY <2>1, SetQuoteTypes
<1> QED BY <1>1, <1>2, <1>3 DEF Made

LEMMA NewQuote ==
    ASSUME Inv, Rows, [Next]_vars, NEW q \in Quotes, ~Made(q), Made(q)'
    PROVE  \E r \in Revised : MakeQuote(q, r)
<1>1. ASSUME NEW o \in Quotes, NEW r \in Revised, MakeQuote(o, r) PROVE MakeQuote(q, r)
  <2>1. o = q
    BY <1>1, OfferMakes DEF Made
  <2> QED BY <1>1, <2>1
<1>2. quote' # quote
  BY DEF Made
<1> QED BY <1>1, <1>2, KindsOfQuoteStep, MovedQuotes

LEMMA OfferedStep == Inv /\ Rows /\ Offered /\ [Next]_vars => Offered'
<1> SUFFICES ASSUME Inv, Rows, Offered, [Next]_vars, NEW q \in Quotes, Made(q)'
             PROVE quote'[q].revised \in Revised
  BY DEF Offered
<1>1. CASE Made(q)
  BY <1>1, HistoryStays DEF Offered, QuotesKept
<1>2. CASE ~Made(q)
  BY <1>2, NewQuote, OfferMakes
<1> QED BY <1>1, <1>2

LEMMA BegunBefore ==
    ASSUME Inv, Rows, [Next]_vars, NEW p \in Payments, NEW q \in Quotes, Begun(p, q)'
    PROVE  Begun(p, q) \/ (StartSettlement(p) /\ request[p].quote = q)
<1>1. CASE Idle
  BY <1>1 DEF Idle, Begun
<1>2. ASSUME NEW o \in Payments, Moves(o)
      PROVE  Begun(p, q) \/ (StartSettlement(p) /\ request[p].quote = q)
  BY <1>2, MovedViews DEF Begun
<1>3. ASSUME NEW o \in Payments, NEW x \in Quotes \cup {NoQuote}, Creates(o, x),
             x \in Quotes => Begun(o, x)
      PROVE  Begun(p, q)
  BY <1>3, NoQuoteAssumption DEF Creates, Begun
<1>4. ASSUME NEW o \in Payments, NEW x \in Quotes, NEW door \in {"branch", "checkout", "counter"},
             LoadQuote(o, x, door)
      PROVE  Begun(p, q)
  <2>1. /\ request'[o].stage = "loaded" /\ payment' = payment /\ payment[o].status = "absent"
        /\ \A y \in Payments \ {o} : request'[y] = request[y]
    BY <1>4, NewRequestTypes DEF LoadQuote, NextInNumber, Inv, Types, RequestInv
  <2> QED BY <2>1 DEF Begun
<1>5. ASSUME NEW o \in Payments, LinkCheckout(o) PROVE Begun(p, q)
  <2>1. /\ \A y \in Payments \ {o} : payment'[y] = payment[y] /\ request'[y] = request[y]
        /\ request'[o].quote = request[o].quote /\ payment[o].status # "absent"
    BY <1>5 DEF LinkCheckout, SetStage, Inv, Types, PaymentsOK, RequestsOK, RequestType, Rows, RowsInv
  <2> QED BY <2>1 DEF Begun
<1>6. ASSUME NEW o \in Payments, request[o].quote \in Quotes, Creates(o, request[o].quote)
      PROVE  Begun(p, q)
  <2>1. Begun(o, request[o].quote)
    BY <1>6 DEF Creates
  <2> QED BY <1>3, <1>6, <2>1
<1>7. ASSUME NEW o \in Payments, Creates(o, NoQuote) PROVE Begun(p, q)
  BY <1>3, <1>7, NoQuoteAssumption
<1> QED BY <1>1, <1>2, <1>4, <1>5, <1>6, <1>7, KindsOfStep

LEMMA UniqueStep == Inv /\ Rows /\ Unique /\ [Next]_vars => Unique'
<1> SUFFICES ASSUME Inv, Rows, Unique, [Next]_vars, "stale request" \notin upset',
                    NEW q \in Quotes, NEW p \in Payments, Begun(p, q)'
             PROVE  /\ quote'[q].status \notin {"absent", "quoted"}
                    /\ \A o \in Payments : Begun(o, q)' => o = p
  BY DEF Unique, Without
<1>1. QuotesKept /\ Without({"stale request"})
  BY HistoryStays DEF Without
<1>2. ASSUME NEW x \in Payments, StartSettlement(x), request[x].quote = q
      PROVE  /\ quote[q].status = "quoted" /\ quote'[q].status = "processing"
             /\ \A o \in Payments : Begun(o, q)' => o = x
  <2>1. quote[q].status = "quoted"
    BY <1>2 DEF StartSettlement, Noting, Payable
  <2>2. quote'[q].status = "processing"
    BY <1>2, SetQuoteTypes DEF StartSettlement, Inv, Types
  <2>3. ASSUME NEW o \in Payments, Begun(o, q)', o # x PROVE FALSE
    <3>1. ~Begun(o, q)
      BY <1>1, <2>1 DEF Unique
    <3>2. StartSettlement(o)
      BY <2>3, <3>1, BegunBefore
    <3>3. request[o].stage = "loaded" /\ payment' = payment
      BY <3>2 DEF StartSettlement
    <3>4. request'[o].stage = "loaded"
      <4>1. RequestsOK /\ SetStage(x, "started")
        BY <1>2 DEF StartSettlement, Inv, Types
      <4>2. request'[o].stage = request[o].stage
        BY <2>3, <4>1, SetStageTypes
      <4> QED BY <3>3, <4>2
    <3> QED BY <2>3, <3>1, <3>3, <3>4 DEF Begun, Inv, RequestInv
  <2> QED BY <2>1, <2>2, <2>3
<1>3. CASE Begun(p, q)
  <2>1. quote[q].status \notin {"absent", "quoted"} /\ \A o \in Payments : Begun(o, q) => o = p
    BY <1>1, <1>3 DEF Unique
  <2>2. quote'[q].status \notin {"absent", "quoted"}
    BY <1>1, <2>1 DEF QuotesKept, Made
  <2>3. ASSUME NEW o \in Payments, Begun(o, q)' PROVE Begun(o, q)
    BY <2>1, <2>3, <1>2, BegunBefore
  <2> QED BY <2>1, <2>2, <2>3
<1>4. CASE StartSettlement(p) /\ request[p].quote = q
  BY <1>2, <1>4
<1> QED BY <1>3, <1>4, BegunBefore

LEMMA LinkedStep == Inv /\ Rows /\ Linked /\ [Next]_vars => Linked'
<1> SUFFICES ASSUME Inv, Rows, Linked, [Next]_vars, "unlinked settlement" \notin upset',
                    NEW p \in Payments, request'[p].quote \in Quotes, payment'[p].link = NoQuote,
                    payment'[p].status = "succeeded"
             PROVE  FALSE
  BY DEF Linked, Without
<1>1. Without({"unlinked settlement"})
  BY HistoryStays DEF Without
<1>2. ~(request[p].quote \in Quotes /\ payment[p].link = NoQuote /\ payment[p].status = "succeeded")
  BY <1>1 DEF Linked
<1>3. CASE Idle
  BY <1>2, <1>3 DEF Idle
<1>4. ASSUME NEW o \in Payments, Moves(o) PROVE FALSE
  BY <1>2, <1>4, MovedViews, NoQuoteAssumption DEF SuccessIsNoted
<1>5. ASSUME NEW o \in Payments, NEW x \in Quotes \cup {NoQuote}, Creates(o, x) PROVE FALSE
  BY <1>2, <1>5, NoQuoteAssumption DEF Creates
<1>6. ASSUME NEW o \in Payments, NEW x \in Quotes, NEW door \in {"branch", "checkout", "counter"},
             LoadQuote(o, x, door)
      PROVE  FALSE
  <2>1. /\ payment' = payment /\ payment[o].status = "absent"
        /\ \A y \in Payments \ {o} : request'[y] = request[y]
    <3>1. RequestsOK /\ NewRequest(o, "loaded", door, x)
      BY <1>6 DEF LoadQuote, Inv, Types
    <3>2. \A y \in Payments \ {o} : request'[y] = request[y]
      BY <3>1 DEF NewRequest, RequestsOK
    <3> QED BY <1>6, <3>2 DEF LoadQuote, NextInNumber, Inv, RequestInv
  <2> QED BY <1>2, <2>1
<1>7. ASSUME NEW o \in Payments, LinkCheckout(o) PROVE FALSE
  <2>1. /\ \A y \in Payments \ {o} : payment'[y] = payment[y] /\ request'[y] = request[y]
        /\ payment'[o].link = request[o].quote /\ request[o].quote \in Quotes
    <3>1. request[o].quote \in Quotes
      BY <1>7 DEF LinkCheckout, Inv, RequestInv
    <3>2. \A y \in Payments \ {o} : payment'[y] = payment[y] /\ request'[y] = request[y]
      BY <1>7 DEF LinkCheckout, SetStage, Inv, Types, PaymentsOK, RequestsOK
    <3>3. payment'[o].link = request[o].quote
      BY <1>7 DEF LinkCheckout, Inv, Types, PaymentsOK, PaymentType
    <3> QED BY <3>1, <3>2, <3>3
  <2> QED BY <1>2, <2>1, NoQuoteAssumption
<1>8. NoQuote \in Quotes \cup {NoQuote}
  OBVIOUS
<1> QED BY <1>3, <1>4, <1>5, <1>6, <1>7, <1>8, KindsOfStep

(* A payment that has just succeeded for a quote has settled it.           *)
LEMMA NewSuccess ==
    ASSUME Inv, Rows, [Next]_vars, NEW p \in Payments, NEW q \in Quotes,
           payment'[p].link = q, payment'[p].status = "succeeded"
    PROVE  \/ payment[p].link = q /\ payment[p].status = "succeeded"
           \/ quote'[q].status = "settled" \/ "torn commit" \in upset'
           \/ request[p].quote = q /\ payment[p].link = NoQuote /\ payment[p].status = "succeeded"
<1> DEFINE Goal == \/ payment[p].link = q /\ payment[p].status = "succeeded"
                   \/ quote'[q].status = "settled" \/ "torn commit" \in upset'
                   \/ /\ request[p].quote = q /\ payment[p].link = NoQuote
                      /\ payment[p].status = "succeeded"
<1>1. ASSUME payment' = payment PROVE Goal
  BY <1>1
<1>2. ASSUME NEW o \in Payments, NEW s \in {"absent", "processing", "failed", "reversed"}, SetPayment(o, s)
      PROVE Goal
  BY <1>2, SetPaymentTypes DEF Inv, Types
<1>3. ASSUME NEW o \in Payments, Finalize(o) PROVE Goal
  <2>1. /\ payment'[o].link = payment[o].link
        /\ \A y \in Payments \ {o} : payment'[y].status = payment[y].status
                                       /\ payment'[y].link = payment[y].link
    BY <1>3, FinalizeTypes
  <2>2. CASE p = o
    <3>1. payment[p].link = q
      BY <2>1, <2>2
    <3>2. CASE AlreadyDone(p) /\ quote' = quote
      BY <3>1, <3>2 DEF AlreadyDone
    <3>3. CASE Settle(p, q)
      BY <3>3, SetQuoteTypes DEF Settle, Inv, Types
    <3> QED BY <1>3, <2>2, <3>1, <3>2, <3>3, NoQuoteAssumption DEF Finalize, ledgerButPayment
  <2> QED BY <2>1, <2>2
<1>4. ASSUME NEW o \in Payments, SettleInCash(o) PROVE Goal
  <2>1. request[o].quote \in Quotes /\ Amount(request[o].quote) \in Nat
    BY <1>4, AmountsAreNat DEF SettleInCash, Inv, Types, RequestInv
  <2>2. \A y \in Payments \ {o} : payment'[y] = payment[y]
    BY <1>4 DEF SettleInCash, NewPayment, Inv, Types, PaymentsOK
  <2>3. payment'[o].link = request[o].quote
    BY <1>4 DEF SettleInCash, NewPayment, Inv, Types, PaymentsOK
  <2>4. quote'[request[o].quote].status = "settled"
    <3>1. CASE quote[request[o].quote].status = "settled"
      BY <1>4, <3>1 DEF SettleInCash, ledgerButPayment
    <3>2. CASE Settle(o, request[o].quote)
      BY <2>1, <3>2, SetQuoteTypes DEF Settle, Inv, Types
    <3> QED BY <1>4, <3>1, <3>2 DEF SettleInCash
  <2> QED BY <2>2, <2>3, <2>4
<1>5. ASSUME NEW o \in Payments, Creates(o, NoQuote) PROVE Goal
  BY <1>5, NoQuoteAssumption DEF Creates
<1>6. ASSUME NEW o \in Payments, RecordIntent(o) PROVE Goal
  <2>1. \A y \in Payments \ {o} : payment'[y] = payment[y]
    BY <1>6 DEF RecordIntent, NewPayment, Inv, Types, PaymentsOK
  <2>2. payment'[o].status = "processing"
    BY <1>6 DEF RecordIntent, NewPayment, Inv, Types, PaymentsOK
  <2> QED BY <2>1, <2>2
<1>7. ASSUME NEW o \in Payments, LinkCheckout(o) PROVE Goal
  <2>1. /\ \A y \in Payments \ {o} : payment'[y] = payment[y]
        /\ payment'[o].link = request[o].quote /\ payment[o].link = NoQuote
        /\ payment'[o].status = payment[o].status
    BY <1>7 DEF LinkCheckout, Inv, Types, PaymentsOK, PaymentType, RequestInv
  <2> QED BY <2>1
<1>8. ASSUME NEW o \in Payments, AnswerTorn(o) PROVE Goal
  BY <1>8 DEF AnswerTorn
<1>9. ASSUME NEW o \in Payments, RequestStep(o) PROVE Goal
  <2>1. CASE \E a \in Tenders : RepayInCash(o, a) \/ Collect(o, a) \/ Debit(o, a)
    BY <2>1, <1>5, RepayCreates DEF Collect, Debit
  <2>2. CASE AnswerFailed(o) \/ AnswerUnusable(o)
    BY <2>2, <1>1, <1>2 DEF AnswerFailed, AnswerUnusable
  <2>3. CASE AnswerSucceeded(o) \/ FinishCheckout(o)
    BY <2>3, <1>3 DEF AnswerSucceeded, FinishCheckout
  <2> HIDE DEF Goal
  <2> QED BY <1>9, <2>1, <2>2, <2>3, <1>1, <1>4, <1>6, <1>7, <1>8
          DEF RequestStep, LoadQuote, StartSettlement, FindExpired, IntentUnavailable, Crash,
              AnswerPending, AnswerLost, ledgerVars
<1>10. ASSUME NEW o \in Payments, Notify(o) \/ ReverseCash(o) PROVE Goal
  <2>1. CASE NotifySuccess(o)
    BY <2>1, <1>3 DEF NotifySuccess
  <2>2. CASE NotifyReversal(o) \/ ReverseCash(o)
    BY <2>2, <1>2 DEF NotifyReversal, ReverseCash, Reverse
  <2>3. CASE NotifyStatus(o)
    <3>1. gateway[o] \in {"processing", "failed", "reversed"} /\ SetPayment(o, gateway[o])
      BY <2>3 DEF NotifyStatus, Matched, Inv, Types, RestOK
    <3> QED BY <3>1, <1>2
  <2> HIDE DEF Goal
  <2> QED BY <1>10, <2>1, <2>2, <2>3 DEF Notify
<1>11. ASSUME \/ UNCHANGED vars \/ SubmitDay \/ OpenDay
              \/ \E o \in Payments : GatewayTakes(o) \/ GatewayMoves(o)
              \/ \E o \in Quotes, r \in Revised : MakeQuote(o, r)
       PROVE  Goal
  BY <1>11, <1>1 DEF vars, SubmitDay, OpenDay, GatewayTakes, GatewayMoves, ledgerVars, MakeQuote
<1> HIDE DEF Goal
<1>12. Goal
  BY <1>9, <1>10, <1>11 DEF Next
<1> QED BY <1>12 DEF Goal

LEMMA SettledBefore ==
    ASSUME Inv, Rows, [Next]_vars, NEW q \in Quotes, quote[q].status = "settled"
    PROVE  \/ quote'[q].status = "settled"
           \/ \E p \in Payments : Undoes(p, q)
           \/ upset' \cap {"stale request", "torn commit", "lost settlement"} # {}
<1>1. CASE quote' = quote
  BY <1>1
<1>2. ASSUME NEW o \in Quotes, NEW r \in Revised, MakeQuote(o, r) PROVE quote'[q].status = "settled"
  <2>1. q # o
    BY <1>2 DEF MakeQuote
  <2> QED BY <1>2, <2>1, OfferMakes
<1>3. ASSUME NEW p \in Payments, QuoteMoves(p)
      PROVE  \/ quote'[q].status = "settled" \/ Undoes(p, q)
             \/ upset' \cap {"stale request", "torn commit", "lost settlement"} # {}
  BY <1>3, MovedQuotes
<1> QED BY <1>1, <1>2, <1>3, KindsOfQuoteStep

SettlesInv == Rows /\ Offered /\ Unique /\ Linked /\ SuccessSettles

LEMMA SuccessStep == Inv /\ SettlesInv /\ [Next]_vars => SuccessSettles'
<1> DEFINE Excuses == {"stale request", "torn commit", "unlinked settlement", "lost settlement"}
<1> SUFFICES ASSUME Inv, SettlesInv, [Next]_vars, upset' \cap Excuses = {},
                    NEW q \in Quotes, NEW p \in Payments,
                    payment'[p].link = q, payment'[p].status = "succeeded"
             PROVE  quote'[q].status = "settled"
  BY DEF SuccessSettles, PaidBy
<1>1. Rows /\ Unique /\ Linked /\ SuccessSettles
  BY DEF SettlesInv
<1>2. Without(Excuses) /\ Without({"stale request"}) /\ Without({"unlinked settlement"})
  BY HistoryStays DEF Without
<1>3. CASE payment[p].link = q /\ payment[p].status = "succeeded"
  <2>1. quote[q].status = "settled"
    BY <1>1, <1>2, <1>3 DEF SuccessSettles, PaidBy, Without
  <2>2. ASSUME NEW o \in Payments, Undoes(o, q) PROVE FALSE
    <3>1. Begun(p, q) /\ Begun(o, q)
      BY <1>1, <1>3, <2>2 DEF Undoes, Begun, Rows, RowsInv
    <3>2. o = p
      BY <1>1, <1>2, <3>1 DEF Unique
    <3>3. payment'[o].status = "reversed"
      BY <2>2 DEF Undoes, SetPayment, Inv, Types, PaymentsOK, PaymentType
    <3> QED BY <3>2, <3>3
  <2>3. upset' \cap {"stale request", "torn commit", "lost settlement"} = {}
    OBVIOUS
  <2>4. Rows
    BY <1>1
  <2> HIDE DEF Excuses
  <2> QED BY <2>1, <2>2, <2>3, <2>4, SettledBefore
<1>4. ~(request[p].quote = q /\ payment[p].link = NoQuote /\ payment[p].status = "succeeded")
  BY <1>1, <1>2 DEF Linked
<1> QED BY <1>1, <1>3, <1>4, NewSuccess

LEMMA InitSettles == Init => SettlesInv
<1> SUFFICES ASSUME Init PROVE SettlesInv
  OBVIOUS
<1>1. \A p \in Payments : payment[p].status = "absent" /\ request[p].quote = NoQuote
                            /\ request[p].stage = "none"
  BY DEF Init, NoPayment, NoRequest
<1>2. \A q \in Quotes : ~Made(q)
  BY DEF Init, NoOffer, Made
<1>3. Offered /\ Unique /\ Linked
  BY <1>1, <1>2, NoQuoteAssumption DEF Offered, Unique, Linked, Begun
<1>4. SuccessSettles
  BY <1>1 DEF SuccessSettles, PaidBy
<1> QED BY <1>3, <1>4, InitRows DEF SettlesInv

LEMMA SettlesStep == Inv /\ SettlesInv /\ [Next]_vars => SettlesInv'
BY RowsStep, OfferedStep, UniqueStep, LinkedStep, SuccessStep DEF SettlesInv

LEMMA Settles == Spec => []SettlesInv
BY Invariant, InitSettles, SettlesStep, PTL DEF Spec

(* A successful payment that names a quote has settled it, for any number  *)
(* of quotes and payments (finalize_gateway_payment,                       *)
(* finalize_early_settlement_payment).                                     *)
THEOREM PaidQuotesSettle == Spec => []SuccessSettles
<1>1. SettlesInv => SuccessSettles
  BY DEF SettlesInv
<1> QED BY Settles, <1>1, PTL

-----------------------------------------------------------------------------
(* What a step does to the loan.                                           *)

LoanStill ==
    /\ loan' = loan /\ waived' = waived /\ allocation' = allocation
    /\ \A q \in Quotes : quote'[q].status = "settled" => quote[q].status = "settled"

OnlyPayment(p) == \A o \in Payments \ {p} : payment'[o] = payment[o]

(* An ordinary payment succeeds, and is counted unless it was before.      *)
Counts(p) ==
    /\ OnlyPayment(p) /\ quote' = quote /\ gateway' = gateway
    /\ payment[p].status # "succeeded" /\ payment'[p].status = "succeeded"
    /\ payment'[p].link = NoQuote /\ payment'[p].amount \in Nat
    /\ payment[p].status # "absent" => payment'[p].amount = payment[p].amount
    /\ \/ Allocate(p, payment'[p].amount)
       \/ Allocated(p) /\ gateway[p] = "succeeded" /\ loan' = loan /\ waived' = waived /\ allocation' = allocation
    /\ loan.status = "active" \/ "late repayment" \in upset'

(* A payment succeeds for a quote and settles it.                          *)
Fulfils(p, q) ==
    /\ OnlyPayment(p) /\ Settle(p, q) /\ gateway' = gateway
    /\ payment'[p].status = "succeeded" /\ payment'[p].link = q
    /\ payment'[p].amount = Amount(q) /\ Made(q) /\ Amount(q) > 0
    /\ payment[p].status # "absent" => payment'[p].amount = payment[p].amount /\ payment[p].link = q

(* A success that is committed in part.                                    *)
Tears(p) ==
    /\ "torn commit" \in upset'
    /\ \A q \in Quotes : quote'[q].status = "settled" => quote[q].status = "settled"
    /\ \/ loan' = loan \/ Allocate(p, payment[p].amount)
       \/ \E q \in Quotes : Made(q) /\ Amount(q) > 0 /\ StillAsQuoted(q) /\ CloseAt(q)

(* A payment is taken back as an ordinary repayment.                       *)
TakesBack(p) ==
    /\ payment[p].status = "succeeded" /\ SetPayment(p, "reversed") /\ Unallocate(p)
    /\ ~(payment[p].link \in Quotes /\ quote[payment[p].link].status = "settled")
    /\ BesideSettlement(p) => "old reversal" \in upset'
    /\ gateway' = gateway /\ gateway[p] # "succeeded"

(* A payment is taken back, and its settlement with it.                    *)
Unsettles(p, q) ==
    /\ Undoes(p, q) /\ quote[q].status = "settled"
    /\ gateway' = gateway /\ gateway[p] # "succeeded"

LEMMA FinalizeKinds ==
    ASSUME Inv, Rows, NEW p \in Payments, Finalize(p), gateway' = gateway,
           gateway[p] = "succeeded" \/ payment[p].link \in Quotes, payment[p].status # "absent"
    PROVE  \/ AlreadyDone(p) /\ UNCHANGED ledgerButPayment
           \/ Counts(p) \/ \E q \in Quotes : Fulfils(p, q)
<1>1. /\ OnlyPayment(p) /\ payment'[p].status = "succeeded"
      /\ payment'[p].link = payment[p].link /\ payment'[p].amount = payment[p].amount
      /\ payment[p].amount \in Nat
  <2>1. SetPayment(p, "succeeded") /\ PaymentsOK
    BY DEF Finalize, Inv, Types
  <2>2. OnlyPayment(p)
    BY <2>1 DEF OnlyPayment, SetPayment, PaymentsOK
  <2>3. payment[p].amount \in Nat
    BY <2>1 DEF PaymentsOK, PaymentType
  <2> QED BY <2>1, <2>2, <2>3, SetPaymentTypes
<1>2. CASE AlreadyDone(p) /\ UNCHANGED ledgerButPayment
  BY <1>2
<1>3. ASSUME payment[p].link \in Quotes, Settle(p, payment[p].link)
      PROVE  Fulfils(p, payment[p].link)
  <2>1. /\ Made(payment[p].link) /\ Amount(payment[p].link) > 0
        /\ payment[p].amount = Amount(payment[p].link)
    BY <1>3 DEF Rows, RowsInv
  <2> QED BY <1>1, <1>3, <2>1 DEF Fulfils
<1>4. ASSUME ~AlreadyDone(p), payment[p].link = NoQuote, Repaid(p),
             loan.status = "completed" => "late repayment" \in upset'
      PROVE  Counts(p)
  <2>1. payment[p].status # "succeeded"
    BY <1>4, NoQuoteAssumption DEF AlreadyDone
  <2>2. loan.status = "active" \/ "late repayment" \in upset'
    BY <1>4 DEF Inv, Types, LoanOK, LoanType
  <2>3. gateway[p] = "succeeded"
    BY <1>4, NoQuoteAssumption
  <2> QED BY <1>1, <1>4, <2>1, <2>2, <2>3 DEF Repaid, AllocateOnce, Counts
<1> QED BY <1>2, <1>3, <1>4 DEF Finalize

LEMMA CounterKinds ==
    ASSUME Inv, Rows, NEW p \in Payments, SettleInCash(p)
    PROVE  \/ \E q \in Quotes : Fulfils(p, q)
           \/ /\ UNCHANGED ledgerButPayment
              /\ request[p].quote \in Quotes /\ quote[request[p].quote].status = "settled"
              /\ Begun(p, request[p].quote) /\ payment[p].status = "absent"
<1> USE DEF Inv, Types
<1> DEFINE q == request[p].quote
           amt == Amount(q)
<1>1. /\ q \in Quotes /\ payment[p].status = "absent" /\ Made(q) /\ amt > 0
  BY DEF SettleInCash, RequestInv, Rows, RowsInv
<1>2. NewPayment(p, amt, "succeeded", q, TRUE) /\ gateway' = gateway
  BY DEF SettleInCash
<1>3. Settle(p, q) \/ UNCHANGED ledgerButPayment
  BY DEF SettleInCash
<1> HIDE DEF amt
<1>4. OnlyPayment(p) /\ payment'[p].status = "succeeded" /\ payment'[p].link = q
      /\ payment'[p].amount = amt
  BY <1>2 DEF NewPayment, OnlyPayment, PaymentsOK
<1>5. Settle(p, q) => Fulfils(p, q)
  BY <1>1, <1>2, <1>4 DEF Fulfils, amt
<1>6. ~Settle(p, q) => UNCHANGED ledgerButPayment /\ quote[q].status = "settled"
  BY DEF SettleInCash
<1>7. Begun(p, q)
  BY DEF SettleInCash, Begun
<1> QED BY <1>1, <1>5, <1>6, <1>7

LEMMA CashCounts ==
    ASSUME Inv, Rows, NEW p \in Payments, NEW a \in Tenders, RepayInCash(p, a) PROVE Counts(p)
<1> USE DEF Inv, Types
<1> DEFINE amt == Applied(a)
<1>1. amt \in Nat
  BY AmountsAssumption, AmountsAreNat
<1>2. /\ NewPayment(p, amt, "succeeded", NoQuote, TRUE) /\ Allocate(p, amt)
      /\ gateway' = gateway /\ quote' = quote /\ loan.status = "active"
      /\ payment[p].status = "absent"
  BY DEF RepayInCash, NextInNumber, RequestInv
<1> HIDE DEF amt
<1>3. OnlyPayment(p) /\ payment'[p].status = "succeeded" /\ payment'[p].link = NoQuote
      /\ payment'[p].amount = amt
  BY <1>2 DEF NewPayment, OnlyPayment, PaymentsOK
<1> QED BY <1>1, <1>2, <1>3 DEF Counts

LEMMA TornTears ==
    ASSUME Inv, Rows, NEW p \in Payments, AnswerTorn(p) PROVE Tears(p)
<1> USE DEF Inv, Types
<1>1. "torn commit" \in upset'
  BY DEF AnswerTorn
<1>2. SetQuote(request[p].quote, "failed") \/ quote' = quote
  BY DEF AnswerTorn
<1>3. \A q \in Quotes : quote'[q].status = "settled" => quote[q].status = "settled"
  BY <1>2, SetQuoteTypes
<1>4. \/ loan' = loan \/ Allocate(p, payment[p].amount)
      \/ \E q \in Quotes : Made(q) /\ Amount(q) > 0 /\ StillAsQuoted(q) /\ CloseAt(q)
  <2>1. CASE AllocateOnce(p)
    BY <2>1 DEF AllocateOnce
  <2>2. CASE request[p].door = "branch" /\ StillAsQuoted(request[p].quote) /\ CloseAt(request[p].quote)
    <3>1. request[p].quote \in Quotes
      BY <2>2 DEF AnswerTorn, RequestInv
    <3>2. Made(request[p].quote) /\ Amount(request[p].quote) > 0
      BY <3>1 DEF Rows, RowsInv
    <3> QED BY <2>2, <3>1, <3>2
  <2> QED BY <2>1, <2>2 DEF AnswerTorn, loanVars
<1> QED BY <1>1, <1>3, <1>4 DEF Tears

LEMMA RequestKinds ==
    ASSUME Inv, Rows, NEW p \in Payments, RequestStep(p)
    PROVE  LoanStill \/ Counts(p) \/ Tears(p) \/ \E q \in Quotes : Fulfils(p, q)
<1> USE DEF Inv, Types
<1>1. CASE StartSettlement(p) \/ FindExpired(p)
  <2>1. PICK s \in {"processing", "expired"} : SetQuote(request[p].quote, s)
    BY <1>1 DEF StartSettlement, FindExpired
  <2> QED BY <1>1, <2>1, SetQuoteTypes DEF StartSettlement, FindExpired, LoanStill
<1>2. CASE IntentUnavailable(p) \/ AnswerFailed(p) \/ AnswerLost(p) \/ AnswerUnusable(p)
  <2>1. SetQuote(request[p].quote, "failed") \/ quote' = quote
    BY <1>2 DEF IntentUnavailable, AnswerFailed, AnswerLost, AnswerUnusable, FailQuote
  <2>2. \A q \in Quotes : quote'[q].status = "settled" => quote[q].status = "settled"
    BY <2>1, SetQuoteTypes
  <2> QED BY <1>2, <2>2
          DEF IntentUnavailable, AnswerFailed, AnswerLost, AnswerUnusable, LoanStill, loanVars
<1>3. CASE SettleInCash(p)
  BY <1>3, CounterKinds DEF LoanStill, ledgerButPayment
<1>4. ASSUME NEW a \in Tenders, RepayInCash(p, a) PROVE Counts(p)
  BY <1>4, CashCounts
<1>5. CASE AnswerSucceeded(p) \/ FinishCheckout(p)
  <2>1. /\ payment[p].status # "absent"
        /\ gateway[p] = "succeeded" \/ payment[p].link \in Quotes
    BY <1>5 DEF AnswerSucceeded, FinishCheckout, RequestInv, Rows, RowsInv
  <2>2. Finalize(p) /\ gateway' = gateway
    BY <1>5 DEF AnswerSucceeded, FinishCheckout
  <2> QED BY <2>1, <2>2, FinalizeKinds DEF LoanStill, ledgerButPayment
<1>6. CASE AnswerTorn(p)
  BY <1>6, TornTears
<1>7. CASE RecordIntent(p) \/ Crash(p) \/ AnswerPending(p) \/ LinkCheckout(p)
  BY <1>7 DEF LoadQuote, RecordIntent, Crash, AnswerPending, LinkCheckout, LoanStill,
              ledgerVars, loanVars
<1>8. ASSUME NEW q, NEW door, LoadQuote(p, q, door) PROVE LoanStill
  BY <1>8 DEF LoadQuote, LoanStill
<1>9. ASSUME NEW a, NEW door, AskGateway(p, a, door) PROVE LoanStill
  BY <1>9 DEF AskGateway, LoanStill
<1> QED BY <1>1, <1>2, <1>3, <1>4, <1>5, <1>6, <1>7, <1>8, <1>9 DEF RequestStep, Collect, Debit

LEMMA ReversalKinds ==
    ASSUME Inv, Rows, NEW p \in Payments, NotifyReversal(p) \/ ReverseCash(p)
    PROVE  TakesBack(p) \/ \E q \in Quotes : Unsettles(p, q)
<1>1. /\ payment[p].status = "succeeded" /\ Reverse(p)
      /\ gateway' = gateway /\ gateway[p] # "succeeded"
  BY DEF NotifyReversal, ReverseCash, Rows, RowsInv
<1>2. CASE payment[p].link \in Quotes /\ quote[payment[p].link].status = "settled"
  BY <1>1, <1>2 DEF Reverse, Undoes, Unsettles
<1>3. CASE ~(payment[p].link \in Quotes /\ quote[payment[p].link].status = "settled")
  BY <1>1, <1>3 DEF Reverse, TakesBack, Noting
<1> QED BY <1>2, <1>3

LEMMA KindsOfLoanStep ==
    ASSUME Inv, Rows, [Next]_vars
    PROVE  \/ LoanStill
           \/ \E p \in Payments :
                \/ Counts(p) \/ Tears(p) \/ TakesBack(p)
                \/ \E q \in Quotes : Fulfils(p, q)
                \/ \E q \in Quotes : Unsettles(p, q)
<1>1. ASSUME NEW p \in Payments, NotifySuccess(p)
      PROVE  LoanStill \/ Counts(p) \/ \E q \in Quotes : Fulfils(p, q)
  BY <1>1, FinalizeKinds DEF NotifySuccess, Matched, LoanStill, ledgerButPayment
<1>2. ASSUME NEW p \in Payments, NotifyReversal(p) \/ ReverseCash(p)
      PROVE  TakesBack(p) \/ \E q \in Quotes : Unsettles(p, q)
  BY <1>2, ReversalKinds
<1>3. ASSUME NEW p \in Payments, NotifyStatus(p) PROVE LoanStill
  <2>1. SetQuote(payment[p].link, "failed") \/ quote' = quote
    BY <1>3 DEF NotifyStatus
  <2>2. \A q \in Quotes : quote'[q].status = "settled" => quote[q].status = "settled"
    BY <2>1, SetQuoteTypes DEF Inv, Types
  <2> QED BY <1>3, <2>2 DEF NotifyStatus, LoanStill, loanVars
<1>4. ASSUME NEW q \in Quotes, NEW r \in Revised, MakeQuote(q, r) PROVE LoanStill
  BY <1>4, OfferMakes DEF MakeQuote, LoanStill
<1>5. CASE \/ UNCHANGED vars \/ SubmitDay \/ OpenDay
           \/ \E p \in Payments : GatewayTakes(p) \/ GatewayMoves(p)
  BY <1>5 DEF vars, SubmitDay, OpenDay, GatewayTakes, GatewayMoves, ledgerVars, LoanStill
<1> QED BY <1>1, <1>2, <1>3, <1>4, <1>5, RequestKinds DEF Next, Notify

-----------------------------------------------------------------------------
(* A loan is settled once, and stays closed at the quoted sum.             *)

(* None of the four things happened that the two properties excuse.        *)
Orderly == Without({"torn commit", "late repayment", "old reversal"}) /\ ~SameSums

SettledOnce ==
    Orderly =>
      \A q \in SettledQuotes :
        /\ loan = [status |-> "completed", total |-> quote[q].revised, paid |-> quote[q].revised]
        /\ \A o \in SettledQuotes : o = q

LEMMA QuoteNumbers ==
    ASSUME Inv, NEW q \in Quotes
    PROVE  /\ quote[q].revised \in Nat /\ quote[q].was.paid \in Nat /\ quote[q].was.total \in Nat
           /\ Amount(q) > 0 => quote[q].was.paid < quote[q].revised
                                 /\ Amount(q) = quote[q].revised - quote[q].was.paid
           /\ loan.paid \in Nat /\ loan.total \in Nat
<1>1. quote[q].revised \in Nat /\ quote[q].was.paid \in Nat /\ quote[q].was.total \in Nat
      /\ loan.paid \in Nat /\ loan.total \in Nat
  BY DEF Inv, Types, QuotesOK, QuoteType, WasType, LoanOK, LoanType
<1> QED BY <1>1 DEF Amount, Monus

(* Quotes that share a sum keep sharing it.                                *)
LEMMA OrderlyBefore ==
    ASSUME Inv, [Next]_vars, Orderly'
    PROVE  /\ Orderly /\ QuotesKept
           /\ "torn commit" \notin upset' /\ "late repayment" \notin upset'
           /\ "old reversal" \notin upset'
<1>1. QuotesKept /\ upset \subseteq upset'
  BY HistoryStays
<1>2. Without({"torn commit", "late repayment", "old reversal"})' /\ ~SameSums'
  BY DEF Orderly
<1>3. ASSUME SameSums PROVE FALSE
  <2>1. PICK q \in Quotes, o \in Quotes :
           q # o /\ Made(q) /\ Made(o) /\ quote[q].revised = quote[o].was.paid
    BY <1>3 DEF SameSums, Made
  <2>2. Made(q)' /\ Made(o)' /\ quote'[q].revised = quote'[o].was.paid
    BY <1>1, <2>1 DEF QuotesKept
  <2> QED BY <1>2, <2>1, <2>2 DEF SameSums, Made
<1> QED BY <1>1, <1>2, <1>3 DEF Orderly, Without

(* A payment that is taken back beside a settlement is noted.              *)
LEMMA TakenBackAlone ==
    ASSUME Inv, NEW p \in Payments, TakesBack(p), "old reversal" \notin upset'
    PROVE  SettledQuotes = {} /\ ~BesideSettlement(p)
<1>1. ~BesideSettlement(p)
  BY DEF TakesBack
<1>2. ASSUME NEW q \in SettledQuotes PROVE FALSE
  <2>1. PICK o \in Payments : payment[o].link = q /\ payment[o].status = "succeeded"
    BY <1>2 DEF Inv, SettledIsPaid, PaidBy
  <2>2. q \in Quotes /\ quote[q].status = "settled"
    BY <1>2 DEF SettledQuotes
  <2>3. o # p
    BY <2>1, <2>2 DEF TakesBack
  <2> QED BY <1>1, <2>1, <2>2, <2>3 DEF BesideSettlement
<1> QED BY <1>1, <1>2

(* A payment that undoes its settlement leaves no other.                   *)
LEMMA UndoneQuotes ==
    ASSUME Inv, NEW p \in Payments, NEW q \in Quotes, Undoes(p, q)
    PROVE  /\ \A o \in Quotes : quote'[o].status = (IF o = q THEN "reversed" ELSE quote[o].status)
           /\ \A o \in Quotes : quote'[o].revised = quote[o].revised /\ quote'[o].was = quote[o].was
BY SetQuoteTypes DEF Undoes, RestoreQuoted, Inv, Types

LEMMA FulfilledQuotes ==
    ASSUME Inv, NEW p \in Payments, NEW q \in Quotes, Fulfils(p, q)
    PROVE  /\ \A o \in Quotes : quote'[o].status = (IF o = q THEN "settled" ELSE quote[o].status)
           /\ \A o \in Quotes : quote'[o].revised = quote[o].revised /\ quote'[o].was = quote[o].was
           /\ loan' = [status |-> "completed", total |-> quote[q].revised, paid |-> quote[q].revised]
           /\ loan.paid = quote[q].was.paid /\ loan.paid < quote[q].revised
           /\ quote[q].revised - loan.paid = Amount(q)
<1>1. SetQuote(q, "settled") /\ CloseAt(q) /\ StillAsQuoted(q) /\ Amount(q) > 0
  BY DEF Fulfils, Settle
<1> QED BY <1>1, SetQuoteTypes, QuoteNumbers DEF Inv, Types, CloseAt, StillAsQuoted

LEMMA CountedLoan ==
    ASSUME Inv, NEW p, NEW a \in Nat, Allocate(p, a)
    PROVE  /\ loan'.paid = loan.paid + a /\ loan'.total = loan.total /\ waived' = waived
           /\ loan'.status = "active" => loan.status = "active"
<1>1. loan \in LoanType
  BY DEF Inv, Types, LoanOK
<1> QED BY <1>1 DEF Allocate, LoanType, StatusOfLoan

LEMMA NotBelowItself == ASSUME NEW n \in Nat PROVE ~(n < n)
OBVIOUS

(* A loan that stands at what one quote makes of it is not the loan of     *)
(* another quote, nor the one that this quote was made for.                *)
LEMMA NotThisLoan ==
    ASSUME Inv, ~SameSums, NEW o \in Quotes, Made(o), loan.paid = quote[o].revised,
           NEW q \in Quotes, Made(q), Amount(q) > 0
    PROVE  ~StillAsQuoted(q)
<1> SUFFICES ASSUME loan.paid = quote[q].was.paid PROVE FALSE
  BY DEF StillAsQuoted
<1>1. CASE o = q
  BY <1>1, QuoteNumbers, NotBelowItself
<1>2. CASE o # q
  BY <1>2 DEF SameSums, Made
<1> QED BY <1>1, <1>2

(* Nothing is settled at the moment a quote is fulfilled.                  *)
LEMMA NothingSettled ==
    ASSUME Inv, SettledOnce, Orderly, NEW q \in Quotes, Made(q), Amount(q) > 0, StillAsQuoted(q)
    PROVE  SettledQuotes = {}
<1> SUFFICES ASSUME NEW o \in Quotes, quote[o].status = "settled" PROVE FALSE
  BY DEF SettledQuotes
<1>1. PICK r : r = quote[o].revised
  OBVIOUS
<1>2. loan = [status |-> "completed", total |-> r, paid |-> r]
  BY <1>1 DEF SettledOnce, SettledQuotes
<1>3. loan.paid = quote[o].revised /\ Made(o)
  BY <1>1, <1>2 DEF Made
<1> QED BY <1>3, NotThisLoan DEF Orderly

LEMMA SettledOnceStep == Inv /\ Rows /\ SettledOnce /\ [Next]_vars => SettledOnce'
<1> SUFFICES ASSUME Inv, Rows, SettledOnce, [Next]_vars, Orderly',
                    NEW q \in Quotes, quote'[q].status = "settled"
             PROVE  /\ loan' = [status |-> "completed", total |-> quote'[q].revised,
                                paid |-> quote'[q].revised]
                    /\ \A o \in Quotes : quote'[o].status = "settled" => o = q
  BY DEF SettledOnce, SettledQuotes
<1>1. /\ Orderly /\ QuotesKept
      /\ "torn commit" \notin upset' /\ "late repayment" \notin upset' /\ "old reversal" \notin upset'
  BY OrderlyBefore
<1>2. \A o \in Quotes : quote[o].status = "settled" =>
         /\ loan = [status |-> "completed", total |-> quote[o].revised, paid |-> quote[o].revised]
         /\ quote'[o].revised = quote[o].revised
         /\ \A x \in Quotes : quote[x].status = "settled" => x = o
  BY <1>1 DEF SettledOnce, SettledQuotes, QuotesKept, Made
<1>3. CASE LoanStill
  BY <1>2, <1>3 DEF LoanStill
<1>4. ASSUME NEW p \in Payments, Counts(p) PROVE FALSE
  <2>1. loan.status = "active" /\ quote' = quote
    BY <1>1, <1>4 DEF Counts
  <2>2. quote[q].status = "settled"
    BY <2>1
  <2> DEFINE r == quote[q].revised
  <2>3. loan = [status |-> "completed", total |-> r, paid |-> r]
    BY <1>2, <2>2
  <2> HIDE DEF r
  <2>4. loan.status = "completed"
    BY <2>3
  <2> QED BY <2>1, <2>4
<1>5. ASSUME NEW p \in Payments, Tears(p) PROVE FALSE
  BY <1>1, <1>5 DEF Tears
<1>6. ASSUME NEW p \in Payments, TakesBack(p) PROVE FALSE
  <2>1. SettledQuotes = {} /\ quote' = quote
    BY <1>1, <1>6, TakenBackAlone DEF TakesBack, Unallocate
  <2> QED BY <2>1 DEF SettledQuotes
<1>7. ASSUME NEW p \in Payments, NEW x \in Quotes, Fulfils(p, x)
      PROVE  q = x /\ \A o \in Quotes : quote'[o].status = "settled" => o = q
  <2>1. SettledQuotes = {}
    BY <1>1, <1>7, NothingSettled DEF Fulfils, Settle
  <2> QED BY <1>7, <2>1, FulfilledQuotes DEF SettledQuotes
<1>8. ASSUME NEW p \in Payments, Fulfils(p, q)
      PROVE  loan' = [status |-> "completed", total |-> quote'[q].revised, paid |-> quote'[q].revised]
  BY <1>8, FulfilledQuotes
<1>9. ASSUME NEW p \in Payments, NEW x \in Quotes, Undoes(p, x), quote[x].status = "settled"
      PROVE  FALSE
  BY <1>2, <1>9, UndoneQuotes
<1> QED BY <1>3, <1>4, <1>5, <1>6, <1>7, <1>8, <1>9, KindsOfLoanStep DEF Unsettles

LEMMA InitNoneSettled ==
    ASSUME Init
    PROVE  /\ SettledQuotes = {} /\ \A q \in Quotes : ~Made(q)
           /\ loan.total = Contract /\ waived = {} /\ loan.paid = 0
BY DEF Init, NoOffer, SettledQuotes, Made

LEMMA SettledOnceHolds == Spec => []SettledOnce
<1>1. Init => SettledOnce
  BY InitNoneSettled DEF SettledOnce
<1>2. Inv /\ SettlesInv /\ SettledOnce /\ [Next]_vars => SettledOnce'
  BY SettledOnceStep DEF SettlesInv
<1> QED BY <1>1, <1>2, Invariant, Settles, PTL DEF Spec

LEMMA AtMostOne ==
    ASSUME NEW S, \A a, b \in S : b = a PROVE Cardinality(S) <= 1
<1>1. CASE S = {}
  BY <1>1, FS_EmptySet
<1>2. ASSUME NEW a \in S PROVE Cardinality(S) <= 1
  <2>1. S = {a}
    BY <1>2
  <2>2. Cardinality({a}) = 1
    BY FS_Singleton
  <2> QED BY <2>1, <2>2
<1> QED BY <1>1, <1>2

(* A loan is settled at most once (finalize_early_settlement_payment),     *)
(* whatever quotes are given up and paid after all and whatever their      *)
(* totals are, as long as no quote's total is the sum that another quote   *)
(* was made at, and no success was torn, no money late and no payment      *)
(* taken back beside a settlement.                                         *)
THEOREM SettledAtMostOnce == Spec => []OneSettlement
<1>1. ASSUME SettledOnce PROVE OneSettlement
  <2> SUFFICES ASSUME Orderly PROVE Cardinality(SettledQuotes) <= 1
    BY DEF OneSettlement, Orderly, Without
  <2>1. \A q, o \in SettledQuotes : o = q
    BY <1>1 DEF SettledOnce
  <2> QED BY <2>1, AtMostOne
<1> QED BY <1>1, SettledOnceHolds, PTL

(* While a settlement stands, the loan is closed at exactly the quoted sum *)
(* (finalize_early_settlement_payment), also when reversals, repayments    *)
(* and debits arrive under it, with the same excuses.                      *)
THEOREM SettledLoanStaysClosed == Spec => []ClosedAtTheQuote
<1>1. SettledOnce => ClosedAtTheQuote
  BY DEF SettledOnce, ClosedAtTheQuote, Orderly, Without
<1> QED BY <1>1, SettledOnceHolds, PTL

-----------------------------------------------------------------------------
(* Interest is rebated only while a settlement stands.                     *)

Whole == loan.total = Contract /\ waived = {}

RebateInv ==
    Without({"stale request", "torn commit", "lost settlement", "old reversal"}) =>
      /\ loan.status = "active" \/ SettledQuotes = {} => Whole
      /\ \A q \in Quotes : Made(q) => quote[q].was.total = Contract /\ quote[q].was.waived = {}

LEMMA RebateStep == Inv /\ Rows /\ RebateInv /\ [Next]_vars => RebateInv'
<1> DEFINE Excuses == {"stale request", "torn commit", "lost settlement", "old reversal"}
<1> SUFFICES ASSUME Inv, Rows, RebateInv, [Next]_vars, upset' \cap Excuses = {}
             PROVE  /\ loan'.status = "active" \/ SettledQuotes' = {} => Whole'
                    /\ \A q \in Quotes : Made(q)' =>
                          quote'[q].was.total = Contract /\ quote'[q].was.waived = {}
  BY DEF RebateInv, Without, Contract, Total
<1>1. /\ Without(Excuses) /\ QuotesKept
      /\ "torn commit" \notin upset' /\ "old reversal" \notin upset'
      /\ upset' \cap {"stale request", "torn commit", "lost settlement"} = {}
  BY HistoryStays DEF Without
<1>2. /\ loan.status = "active" \/ SettledQuotes = {} => Whole
      /\ \A q \in Quotes : Made(q) => quote[q].was.total = Contract /\ quote[q].was.waived = {}
  BY <1>1 DEF RebateInv
<1> HIDE DEF Excuses
<1>3. ASSUME NEW q \in Quotes, Made(q)'
      PROVE  quote'[q].was.total = Contract /\ quote'[q].was.waived = {}
  <2>1. CASE Made(q)
    BY <1>1, <1>2, <2>1 DEF QuotesKept
  <2>2. CASE ~Made(q)
    <3>1. PICK r \in Revised : MakeQuote(q, r)
      BY <1>3, <2>2, NewQuote
    <3>2. Whole
      BY <1>2, <3>1 DEF MakeQuote
    <3>3. quote'[q].was = [total |-> loan.total, paid |-> loan.paid, inst |-> paid, waived |-> waived]
      BY <3>1, OfferMakes
    <3> QED BY <3>2, <3>3 DEF Whole
  <2> QED BY <2>1, <2>2
<1>4. ASSUME NEW p \in Payments, NEW q \in Quotes, Undoes(p, q), quote[q].status = "settled"
      PROVE  Whole'
  <2>1. loan'.total = quote[q].was.total /\ waived' = quote[q].was.waived
    BY <1>4 DEF Undoes, RestoreQuoted
  <2>2. Made(q)
    BY <1>4 DEF Made
  <2> QED BY <1>2, <2>1, <2>2 DEF Whole, Contract, Total
<1>5. SettledQuotes' = {} =>
         \/ SettledQuotes = {}
         \/ \E p \in Payments, q \in Quotes : Undoes(p, q) /\ quote[q].status = "settled"
  BY <1>1, SettledBefore DEF SettledQuotes
<1>6. ASSUME loan'.total = loan.total, waived' = waived, loan'.status = "active" => loan.status = "active",
             loan'.status = "active" \/ SettledQuotes' = {}
      PROVE  Whole'
  <2>1. CASE Whole
    BY <1>6, <2>1 DEF Whole, Contract, Total
  <2> QED BY <1>2, <1>4, <1>5, <1>6, <2>1
<1>7. CASE LoanStill
  BY <1>3, <1>6, <1>7 DEF LoanStill
<1>8. ASSUME NEW p \in Payments, Counts(p)
      PROVE  loan'.status = "active" \/ SettledQuotes' = {} => Whole'
  <2>1. CASE loan' = loan /\ waived' = waived
    BY <1>6, <2>1
  <2>2. CASE Allocate(p, payment'[p].amount)
    BY <1>6, <1>8, <2>2, CountedLoan DEF Counts
  <2> QED BY <1>8, <2>1, <2>2 DEF Counts
<1>9. ASSUME NEW p \in Payments, Tears(p) PROVE FALSE
  BY <1>1, <1>9 DEF Tears
<1>10. ASSUME NEW p \in Payments, TakesBack(p) PROVE Whole'
  <2>1. SettledQuotes = {} /\ waived' = waived /\ loan'.total = loan.total
    <3>1. loan \in LoanType
      BY DEF Inv, Types, LoanOK
    <3> QED BY <1>1, <1>10, <3>1, TakenBackAlone DEF TakesBack, Unallocate, LoanType
  <2> QED BY <1>2, <2>1 DEF Whole, Contract, Total
<1>11. ASSUME NEW p \in Payments, NEW q \in Quotes, Fulfils(p, q)
       PROVE  loan'.status # "active" /\ SettledQuotes' # {}
  BY <1>11, FulfilledQuotes DEF SettledQuotes
<1> QED BY <1>3, <1>4, <1>7, <1>8, <1>9, <1>10, <1>11, KindsOfLoanStep DEF Unsettles

(* Undoing a settlement brings back the whole contract                     *)
(* (reverse_early_settlement): a rebate, or a waived installment, stands   *)
(* only beside a settled quote, whatever settlement dates are on offer.    *)
THEOREM RebateNeedsSettlement == Spec => []RebateIsSettled
<1>1. Init => RebateInv
  BY InitNoneSettled DEF RebateInv, Whole
<1>2. SettlesInv => Rows
  BY DEF SettlesInv
<1>3. ASSUME Inv, RebateInv PROVE RebateIsSettled
  <2> SUFFICES ASSUME upset \cap {"stale request", "torn commit", "lost settlement", "old reversal"} = {},
                      SettledQuotes = {}
               PROVE  ~(loan.total < Contract) /\ waived = {}
    BY DEF RebateIsSettled
  <2>1. loan.total = Contract /\ waived = {}
    BY <1>3 DEF RebateInv, Without, Whole
  <2>2. loan.total \in Nat
    BY <1>3 DEF Inv, Types, LoanOK, LoanType
  <2> QED BY <2>1, <2>2, NotBelowItself
<1> QED BY <1>1, <1>2, <1>3, RebateStep, Invariant, Settles, PTL DEF Spec

-----------------------------------------------------------------------------
(* A success stands until the payment is taken back.                       *)

Stand ==
    \A p \in Payments : payment[p].status = "succeeded" =>
        /\ payment'[p].status = "succeeded" /\ payment'[p].link = payment[p].link
        /\ payment'[p].amount = payment[p].amount

LEMMA StandsByStatus ==
    ASSUME Inv, NEW p \in Payments,
           NEW s \in {"absent", "processing", "succeeded", "failed", "reversed"}, SetPayment(p, s),
           s = "succeeded" \/ payment[p].status # "succeeded"
    PROVE  Stand
BY SetPaymentTypes DEF Inv, Types, Stand

LEMMA StandsBesideNew ==
    ASSUME NEW p \in Payments, NEW q, Creates(p, q) PROVE Stand
BY DEF Creates, Stand

LEMMA SuccessStands ==
    ASSUME Inv, Rows, Linked, Without({"unlinked settlement"}), [Next]_vars
    PROVE  Stand \/ \E p \in Payments : TakesBack(p) \/ \E q \in Quotes : Unsettles(p, q)
<1>1. ASSUME payment' = payment PROVE Stand
  BY <1>1 DEF Stand
<1>2. ASSUME NEW p \in Payments, SetPayment(p, "succeeded") PROVE Stand
  BY <1>2, StandsByStatus
<1>3. ASSUME NEW p \in Payments, NEW s \in {"processing", "failed", "reversed"}, SetPayment(p, s),
             payment[p].status # "succeeded"
      PROVE  Stand
  BY <1>3, StandsByStatus
<1>4. ASSUME NEW p \in Payments, AnswerFailed(p) PROVE Stand
  <2>1. RequestInv(p)
    BY DEF Inv
  <2>2. payment[p].status # "succeeded"
    BY <1>4, <2>1 DEF AnswerFailed, RequestInv
  <2> QED BY <1>3, <1>4, <2>2 DEF AnswerFailed
<1>5. ASSUME NEW p \in Payments, AnswerUnusable(p) PROVE Stand
  <2>1. RequestInv(p) /\ RowsInv(p)
    BY DEF Inv, Rows
  <2>2. CASE request[p].door = "checkout"
    <3>1. request[p].quote \in Quotes /\ payment[p].link = NoQuote
      BY <1>5, <2>1, <2>2 DEF AnswerUnusable, RequestInv
    <3>2. payment[p].status # "succeeded"
      BY <3>1 DEF Linked
    <3> QED BY <1>3, <1>5, <2>2, <3>2 DEF AnswerUnusable
  <2>3. CASE request[p].door = "debit"
    <3>1. payment[p].status # "succeeded"
      BY <1>5, <2>1, <2>3 DEF AnswerUnusable, RowsInv
    <3> QED BY <1>3, <1>5, <2>3, <3>1 DEF AnswerUnusable
  <2> QED BY <1>1, <1>5, <2>2, <2>3 DEF AnswerUnusable
<1>6. ASSUME NEW p \in Payments, AnswerTorn(p) PROVE Stand
  <2>1. CASE SetPayment(p, "failed") /\ request[p].door = "debit"
    <3>1. RequestInv(p) /\ RowsInv(p)
      BY DEF Inv, Rows
    <3>2. payment[p].status # "succeeded"
      BY <1>6, <2>1, <3>1 DEF AnswerTorn, RowsInv
    <3> QED BY <1>3, <2>1, <3>2
  <2> QED BY <1>2, <1>6, <2>1 DEF AnswerTorn
<1>7. ASSUME NEW p \in Payments, LinkCheckout(p) PROVE Stand
  <2>1. request[p].quote \in Quotes /\ payment[p].link = NoQuote
    <3>1. RequestInv(p)
      BY DEF Inv
    <3> QED BY <1>7, <3>1 DEF LinkCheckout, RequestInv
  <2>2. payment[p].status # "succeeded"
    BY <2>1 DEF Linked
  <2>3. \A o \in Payments \ {p} : payment'[o] = payment[o]
    BY <1>7 DEF LinkCheckout, Inv, Types, PaymentsOK
  <2> QED BY <2>2, <2>3 DEF Stand
<1>8. ASSUME NEW p \in Payments, RequestStep(p) PROVE Stand
  <2>1. CASE \E a \in Tenders : RepayInCash(p, a) \/ Collect(p, a) \/ Debit(p, a)
    BY <2>1, RepayCreates, StandsBesideNew DEF Collect, Debit
  <2>2. CASE SettleInCash(p) \/ RecordIntent(p)
    BY <2>2, SettlementCreates, StandsBesideNew
  <2>3. CASE AnswerSucceeded(p) \/ FinishCheckout(p)
    BY <1>2, <2>3 DEF AnswerSucceeded, FinishCheckout, Finalize
  <2> QED BY <1>1, <1>4, <1>5, <1>6, <1>7, <1>8, <2>1, <2>2, <2>3
          DEF RequestStep, LoadQuote, StartSettlement, FindExpired, IntentUnavailable, Crash,
              AnswerPending, AnswerLost, ledgerVars
<1>9. ASSUME NEW p \in Payments, NotifySuccess(p) PROVE Stand
  BY <1>2, <1>9 DEF NotifySuccess, Finalize
<1>10. ASSUME NEW p \in Payments, NotifyStatus(p) PROVE Stand
  <2>1. /\ gateway[p] \in {"processing", "failed", "reversed"} /\ SetPayment(p, gateway[p])
        /\ payment[p].status # "succeeded"
    BY <1>10 DEF NotifyStatus, Matched, Inv, Types, RestOK
  <2> QED BY <1>3, <2>1
<1>11. ASSUME NEW p \in Payments, NotifyReversal(p) \/ ReverseCash(p)
       PROVE  TakesBack(p) \/ \E q \in Quotes : Unsettles(p, q)
  BY <1>11, ReversalKinds
<1>12. CASE \/ UNCHANGED vars \/ SubmitDay \/ OpenDay
            \/ \E p \in Payments : GatewayTakes(p) \/ GatewayMoves(p)
            \/ \E q \in Quotes, r \in Revised : MakeQuote(q, r)
  BY <1>1, <1>12 DEF vars, SubmitDay, OpenDay, GatewayTakes, GatewayMoves, ledgerVars, MakeQuote
<1> QED BY <1>8, <1>9, <1>10, <1>11, <1>12 DEF Next, Notify

-----------------------------------------------------------------------------
(* The loan credits no more than what stands.                              *)

Ordinary(p) == IF payment[p].link = NoQuote THEN Standing(p) ELSE 0
OrdinaryMoney == SumFunctionOnSet([p \in Payments |-> Ordinary(p)], Payments)

(* The credit that ordinary repayments do not explain is that of p's       *)
(* settlement, which closed the loan.                                      *)
Covers(p) ==
    /\ payment[p].status = "succeeded" /\ payment[p].link \in Quotes
    /\ loan.paid <= OrdinaryMoney + payment[p].amount
    /\ loan.status = "completed" /\ loan.paid = quote[payment[p].link].revised

Credited == loan.paid <= OrdinaryMoney \/ \E p \in Payments : Covers(p)

CreditInv ==
    Orderly /\ Without({"unlinked settlement"}) =>
      Credited /\ \A q \in SettledQuotes : quote[q].was.paid <= OrdinaryMoney

LEMMA OrdinaryTypes ==
    ASSUME Inv, Inv'
    PROVE  /\ OrdinaryMoney \in Nat /\ OrdinaryMoney' \in Nat
           /\ \A p \in Payments : /\ Ordinary(p) \in Nat /\ payment[p].amount \in Nat
                                  /\ Ordinary(p)' \in Nat /\ payment'[p].amount \in Nat
<1>1. \A p \in Payments : /\ Ordinary(p) \in Nat /\ payment[p].amount \in Nat
                          /\ Ordinary(p)' \in Nat /\ payment'[p].amount \in Nat
  BY DEF Inv, Types, PaymentsOK, PaymentType, Ordinary, Standing
<1> DEFINE f == [p \in Payments |-> Ordinary(p)]
           g == [p \in Payments |-> Ordinary(p)']
<1>2. \A p \in Payments : f[p] \in Nat /\ g[p] \in Nat
  BY <1>1
<1> HIDE DEF f, g
<1>3. SumFunctionOnSet(f, Payments) \in Nat /\ SumFunctionOnSet(g, Payments) \in Nat
  BY <1>2, SumNat, PaymentsAreFinite
<1> QED BY <1>1, <1>3 DEF OrdinaryMoney, f, g

LEMMA OrdinaryGrows ==
    ASSUME Inv, Inv', Stand PROVE OrdinaryMoney <= OrdinaryMoney'
<1> DEFINE f == [p \in Payments |-> Ordinary(p)]
           g == [p \in Payments |-> Ordinary(p)']
<1>1. ASSUME NEW p \in Payments PROVE f[p] \in Nat /\ g[p] \in Nat /\ (f[p] = 0 \/ f[p] = g[p])
  <2>1. payment[p].amount \in Nat /\ payment'[p].amount \in Nat
    BY DEF Inv, Types, PaymentsOK, PaymentType
  <2> QED BY <2>1 DEF Ordinary, Standing, Stand
<1> HIDE DEF f, g
<1>2. \A p \in Payments : f[p] \in Int /\ g[p] \in Int /\ f[p] <= g[p]
  BY <1>1
<1>3. SumFunctionOnSet(f, Payments) <= SumFunctionOnSet(g, Payments)
  BY <1>2, SumLeq, PaymentsAreFinite
<1> QED BY <1>3 DEF OrdinaryMoney, f, g

LEMMA OrdinaryMoves ==
    ASSUME Inv, Inv', NEW p \in Payments, OnlyPayment(p)
    PROVE  OrdinaryMoney' = OrdinaryMoney + (Ordinary(p)' - Ordinary(p))
<1> DEFINE f == [o \in Payments |-> Ordinary(o)]
           g == [o \in Payments |-> Ordinary(o)']
<1>1. ASSUME NEW o \in Payments
      PROVE f[o] \in Nat /\ g[o] \in Nat /\ (o # p => f[o] = g[o])
  <2>1. payment[o].amount \in Nat /\ payment'[o].amount \in Nat
    BY DEF Inv, Types, PaymentsOK, PaymentType
  <2> QED BY <2>1 DEF Ordinary, Standing, OnlyPayment
<1>2. f[p] = Ordinary(p) /\ g[p] = Ordinary(p)'
  OBVIOUS
<1> HIDE DEF f, g
<1>3. /\ \A o \in Payments : f[o] \in Int /\ g[o] \in Int
      /\ \A o \in Payments \ {p} : g[o] = f[o]
  BY <1>1
<1>4. SumFunctionOnSet(g, Payments) = SumFunctionOnSet(f, Payments) + (g[p] - f[p])
  BY <1>3, SumChanges, PaymentsAreFinite
<1> QED BY <1>2, <1>4 DEF OrdinaryMoney, f, g

LEMMA PlusKeeps ==
    ASSUME NEW a \in Nat, NEW b \in Nat, NEW c \in Nat, a <= b PROVE a <= b + c
OBVIOUS

LEMMA SelfLeq == ASSUME NEW a \in Nat PROVE a <= a
OBVIOUS

LEMMA LeqLeq ==
    ASSUME NEW a \in Nat, NEW b \in Nat, NEW c \in Nat, a <= b, b <= c PROVE a <= c
OBVIOUS

LEMMA PlusIsNat == ASSUME NEW a \in Nat, NEW b \in Nat PROVE a + b \in Nat
OBVIOUS

LEMMA SumsOfNumbers ==
    ASSUME NEW a \in Nat, NEW b \in Nat, NEW c \in Nat, NEW d \in Nat, NEW m \in Nat
    PROVE  /\ a <= b /\ b + d <= c => a + d <= c
           /\ a <= b + m /\ b + d <= c => a + d <= c + m
           /\ a <= b /\ b <= c => a <= c
           /\ a <= b /\ c - a = m => c <= b + m
           /\ b = c + (0 - m) /\ a <= c => Monus(a, m) <= b
           /\ a <= b + m => Monus(a, m) <= b
BY DEF Monus

LEMMA GapLeq ==
    ASSUME NEW a \in Nat, NEW b \in Nat, NEW c \in Nat, NEW m \in Nat, a <= b, c - a = m
    PROVE  c <= b + m
OBVIOUS

LEMMA AddNothing ==
    ASSUME NEW a \in Nat, NEW b \in Nat
    PROVE  a + (b - 0) = a + b /\ a + (0 - 0) = a /\ a + 0 = a
OBVIOUS

LEMMA CreditStands ==
    ASSUME Inv, Inv', Rows, QuotesKept, Stand, Credited, NEW d \in Nat,
           loan'.paid = loan.paid + d, OrdinaryMoney + d <= OrdinaryMoney',
           loan' = loan \/ loan.status = "active"
    PROVE  Credited'
<1>1. /\ OrdinaryMoney \in Nat /\ OrdinaryMoney' \in Nat /\ loan.paid \in Nat
      /\ \A p \in Payments : payment[p].amount \in Nat
  BY OrdinaryTypes DEF Inv, Types, LoanOK, LoanType
<1>2. CASE loan.paid <= OrdinaryMoney
  <2>1. loan.paid + d <= OrdinaryMoney'
    BY <1>1, <1>2, SumsOfNumbers
  <2> QED BY <2>1 DEF Credited
<1>3. ASSUME NEW p \in Payments, Covers(p) PROVE Covers(p)'
  <2> DEFINE q == payment[p].link
  <2>1. /\ payment'[p].status = "succeeded" /\ payment'[p].link = q
        /\ payment'[p].amount = payment[p].amount /\ q \in Quotes
    BY <1>3 DEF Covers, Stand
  <2>2. Made(q)
    BY <2>1 DEF Rows, RowsInv
  <2>3. quote'[q].revised = quote[q].revised /\ quote[q].revised \in Nat
    BY <2>1, <2>2, QuoteNumbers DEF QuotesKept
  <2>4. /\ loan.status = "completed" /\ loan.paid = quote[q].revised
        /\ loan.paid <= OrdinaryMoney + payment[p].amount
    BY <1>3 DEF Covers
  <2> HIDE DEF q
  <2>5. loan' = loan
    BY <2>4
  <2>6. loan'.paid <= OrdinaryMoney' + payment[p].amount
    BY <1>1, <2>4, SumsOfNumbers
  <2> QED BY <2>1, <2>3, <2>4, <2>5, <2>6 DEF Covers
<1> QED BY <1>2, <1>3 DEF Credited

LEMMA CreditStep ==
    Inv /\ Inv' /\ Rows /\ Linked /\ SettledOnce /\ CreditInv /\ [Next]_vars => CreditInv'
<1> SUFFICES ASSUME Inv, Inv', Rows, Linked, SettledOnce, CreditInv, [Next]_vars,
                    Orderly', "unlinked settlement" \notin upset'
             PROVE  /\ Credited'
                    /\ \A q \in Quotes : quote'[q].status = "settled" =>
                          quote'[q].was.paid <= OrdinaryMoney'
  BY DEF CreditInv, Without, SettledQuotes
<1>1. /\ Orderly /\ Without({"unlinked settlement"}) /\ QuotesKept
      /\ "torn commit" \notin upset' /\ "late repayment" \notin upset' /\ "old reversal" \notin upset'
  BY HistoryStays, OrderlyBefore DEF Without
<1>2. /\ Credited
      /\ \A q \in Quotes : quote[q].status = "settled" =>
            /\ quote[q].was.paid <= OrdinaryMoney /\ quote'[q].was = quote[q].was
            /\ \A o \in Quotes : quote[o].status = "settled" => o = q
  BY <1>1 DEF CreditInv, SettledOnce, SettledQuotes, QuotesKept, Made
<1>3. /\ OrdinaryMoney \in Nat /\ OrdinaryMoney' \in Nat /\ loan.paid \in Nat /\ loan'.paid \in Nat
      /\ \A p \in Payments : /\ payment[p].amount \in Nat /\ payment'[p].amount \in Nat
                             /\ Ordinary(p) \in Nat /\ Ordinary(p)' \in Nat
      /\ \A q \in Quotes : quote[q].was.paid \in Nat /\ quote[q].revised \in Nat
  <2>1. loan.paid \in Nat /\ loan'.paid \in Nat
    BY DEF Inv, Types, LoanOK, LoanType
  <2> QED BY <2>1, OrdinaryTypes, QuoteNumbers
<1>4. ASSUME OrdinaryMoney <= OrdinaryMoney', NEW q \in Quotes, quote'[q].status = "settled",
             \A o \in Quotes : quote'[o].status = "settled" => quote[o].status = "settled"
      PROVE  quote'[q].was.paid <= OrdinaryMoney'
  <2>1. quote[q].was.paid <= OrdinaryMoney /\ quote'[q].was = quote[q].was
    BY <1>2, <1>4
  <2>2. quote[q].was.paid <= OrdinaryMoney'
    BY <1>3, <1>4, <2>1, LeqLeq
  <2> QED BY <2>1, <2>2
<1>5. ASSUME LoanStill, Stand
      PROVE  /\ Credited'
             /\ \A q \in Quotes : quote'[q].status = "settled" => quote'[q].was.paid <= OrdinaryMoney'
  <2>1. OrdinaryMoney <= OrdinaryMoney'
    BY <1>5, OrdinaryGrows
  <2>2. /\ loan'.paid = loan.paid + 0 /\ OrdinaryMoney + 0 <= OrdinaryMoney' /\ 0 \in Nat
        /\ loan' = loan
    BY <1>3, <1>5, <2>1, AddNothing DEF LoanStill
  <2>3. Credited'
    BY <1>1, <1>2, <1>5, <2>2, CreditStands
  <2> QED BY <1>4, <1>5, <2>1, <2>3 DEF LoanStill
<1>6. ASSUME NEW p \in Payments, Counts(p)
      PROVE  /\ Credited'
             /\ \A q \in Quotes : quote'[q].status = "settled" => quote'[q].was.paid <= OrdinaryMoney'
  <2>1. Stand /\ OnlyPayment(p) /\ quote' = quote
    BY <1>6 DEF Counts, OnlyPayment, Stand
  <2> DEFINE a == payment'[p].amount
  <2>2. Ordinary(p) = 0 /\ Ordinary(p)' = a /\ a \in Nat
    BY <1>3, <1>6 DEF Counts, Ordinary, Standing
  <2>3. OrdinaryMoney' = OrdinaryMoney + (a - 0)
    BY <2>1, <2>2, OrdinaryMoves
  <2>4. loan'.paid = loan.paid + a \/ loan' = loan
    BY <1>6, CountedLoan DEF Counts
  <2> HIDE DEF a
  <2>5. OrdinaryMoney' = OrdinaryMoney + a
    <3>1. OrdinaryMoney \in Nat /\ a \in Nat
      BY <1>3, <2>2
    <3>2. OrdinaryMoney + (a - 0) = OrdinaryMoney + a
      BY ONLY <3>1, AddNothing
    <3> QED BY <2>3, <3>2
  <2>6. OrdinaryMoney <= OrdinaryMoney'
    BY <1>3, <2>2, <2>5, SelfLeq, PlusKeeps
  <2>9. loan.status = "active"
    BY <1>1, <1>6 DEF Counts
  <2>7. CASE loan'.paid = loan.paid + a
    <3>1. OrdinaryMoney + a <= OrdinaryMoney'
      BY <1>3, <2>5, SelfLeq
    <3>2. Credited'
      BY <1>1, <1>2, <2>1, <2>2, <2>7, <2>9, <3>1, CreditStands
    <3> QED BY <1>4, <2>1, <2>6, <3>2
  <2>8. CASE loan' = loan
    <3>1. loan'.paid = loan.paid + 0 /\ OrdinaryMoney + 0 <= OrdinaryMoney' /\ 0 \in Nat
      BY <1>3, <2>6, <2>8, AddNothing
    <3>2. Credited'
      BY <1>1, <1>2, <2>1, <2>8, <3>1, CreditStands
    <3> QED BY <1>4, <2>1, <2>6, <3>2
  <2> QED BY <2>4, <2>7, <2>8
<1>7. ASSUME NEW p \in Payments, Tears(p) PROVE FALSE
  BY <1>1, <1>7 DEF Tears
<1>8. ASSUME NEW p \in Payments, NEW x \in Quotes, Fulfils(p, x)
      PROVE  /\ Credited'
             /\ \A q \in Quotes : quote'[q].status = "settled" => quote'[q].was.paid <= OrdinaryMoney'
  <2>1. SettledQuotes = {}
    BY <1>1, <1>8, NothingSettled DEF Fulfils, Settle
  <2>2. \A q \in Quotes : quote'[q].status = "settled" => q = x
    BY <1>8, <2>1, FulfilledQuotes DEF SettledQuotes
  <2>3. Ordinary(p) = 0 /\ Ordinary(p)' = 0
    BY <1>8, NoQuoteAssumption DEF Fulfils, Ordinary, Standing
  <2>4. OrdinaryMoney' = OrdinaryMoney
    <3>1. OrdinaryMoney' = OrdinaryMoney + (0 - 0)
      BY <1>8, <2>3, OrdinaryMoves DEF Fulfils
    <3> QED BY <1>3, <3>1, AddNothing
  <2> DEFINE r == quote[x].revised
             c == loan.paid
             m == Amount(x)
  <2>5. /\ quote'[x].revised = r /\ quote'[x].was = quote[x].was /\ quote[x].was.paid = c
        /\ loan' = [status |-> "completed", total |-> r, paid |-> r]
        /\ c < r /\ r - c = m /\ r \in Nat /\ c \in Nat /\ m \in Nat
    BY <1>3, <1>8, FulfilledQuotes, AmountsAreNat DEF Inv, Types
  <2>6. payment'[p].status = "succeeded" /\ payment'[p].link = x /\ payment'[p].amount = m
    BY <1>8 DEF Fulfils
  <2>7. ASSUME NEW o \in Payments, Covers(o) PROVE FALSE
    <3>1. payment[o].link \in Quotes /\ loan.paid = quote[payment[o].link].revised
      BY <2>7 DEF Covers
    <3>2. Made(payment[o].link)
      BY <3>1 DEF Rows, RowsInv
    <3>3. Made(x) /\ Amount(x) > 0 /\ StillAsQuoted(x)
      BY <1>8 DEF Fulfils, Settle
    <3> QED BY <1>1, <3>1, <3>2, <3>3, NotThisLoan DEF Orderly
  <2>8. c <= OrdinaryMoney
    BY <1>2, <2>7 DEF Credited
  <2> HIDE DEF r, c, m
  <2>9. r <= OrdinaryMoney + m
    BY <1>3, <2>5, <2>8, GapLeq
  <2>10. loan'.paid = r /\ loan'.status = "completed"
    BY <2>5
  <2>12. Covers(p)'
    BY <2>4, <2>5, <2>6, <2>9, <2>10 DEF Covers
  <2> QED BY <2>2, <2>4, <2>5, <2>8, <2>12 DEF Credited
<1>9. ASSUME NEW p \in Payments, NEW x \in Quotes, Unsettles(p, x)
      PROVE  /\ Credited'
             /\ \A q \in Quotes : quote'[q].status # "settled"
  <2>1. /\ quote[x].status = "settled" /\ payment[p].link = x /\ SetPayment(p, "reversed")
        /\ loan'.paid = quote[x].was.paid
    BY <1>9 DEF Unsettles, Undoes, RestoreQuoted
  <2>2. OnlyPayment(p) /\ payment'[p].link = x
    BY <2>1, SetPaymentTypes DEF OnlyPayment, SetPayment, Inv, Types, PaymentsOK
  <2>3. Ordinary(p) = 0 /\ Ordinary(p)' = 0
    BY <2>1, <2>2, NoQuoteAssumption DEF Ordinary
  <2>4. OrdinaryMoney' = OrdinaryMoney
    <3>1. OrdinaryMoney' = OrdinaryMoney + (0 - 0)
      BY <2>2, <2>3, OrdinaryMoves
    <3> QED BY <1>3, <3>1, AddNothing
  <2>5. \A q \in Quotes : quote'[q].status # "settled"
    BY <1>2, <1>9, <2>1, UndoneQuotes DEF Unsettles
  <2> QED BY <1>2, <2>1, <2>4, <2>5 DEF Credited
<1>10. ASSUME NEW p \in Payments, TakesBack(p)
       PROVE  /\ Credited'
              /\ \A q \in Quotes : quote'[q].status # "settled"
  <2>1. SettledQuotes = {} /\ ~BesideSettlement(p) /\ quote' = quote
    BY <1>1, <1>10, TakenBackAlone DEF TakesBack, Unallocate
  <2>2. OnlyPayment(p) /\ payment'[p].status = "reversed" /\ payment'[p].link = payment[p].link
    <3>1. SetPayment(p, "reversed") /\ PaymentsOK
      BY <1>10 DEF TakesBack, Inv, Types
    <3>2. payment'[p].status = "reversed" /\ payment'[p].link = payment[p].link
      BY <3>1, SetPaymentTypes
    <3> QED BY <3>1, <3>2 DEF OnlyPayment, SetPayment, PaymentsOK
  <2> DEFINE m == payment[p].amount
             a == loan.paid
  <2>3. loan'.paid = Monus(a, m)
    <3>1. loan \in LoanType
      BY DEF Inv, Types, LoanOK
    <3> QED BY <1>10, <3>1 DEF TakesBack, Unallocate, LoanType
  <2>4. \A o \in Payments : Covers(o) => o = p
    BY <2>1 DEF Covers, BesideSettlement
  <2>5. m \in Nat /\ a \in Nat
    BY <1>3
  <2>6. CASE payment[p].link = NoQuote
    <3>1. Ordinary(p) = m /\ Ordinary(p)' = 0
      BY <1>10, <2>2, <2>6 DEF Ordinary, Standing, TakesBack
    <3>2. a <= OrdinaryMoney
      BY <1>2, <2>4, <2>6, NoQuoteAssumption DEF Credited, Covers
    <3>3. OrdinaryMoney' = OrdinaryMoney + (0 - m)
      BY <2>2, <3>1, OrdinaryMoves
    <3> HIDE DEF m, a
    <3>4. Monus(a, m) <= OrdinaryMoney'
      BY <1>3, <2>5, <3>2, <3>3, SumsOfNumbers
    <3> QED BY <2>1, <2>3, <3>4 DEF Credited, SettledQuotes
  <2>7. CASE payment[p].link # NoQuote
    <3>1. Ordinary(p) = 0 /\ Ordinary(p)' = 0
      BY <2>2, <2>7 DEF Ordinary
    <3>2. OrdinaryMoney' = OrdinaryMoney
      <4>1. OrdinaryMoney' = OrdinaryMoney + (0 - 0)
        BY <2>2, <3>1, OrdinaryMoves
      <4> QED BY <1>3, <4>1, AddNothing
    <3>3. a <= OrdinaryMoney \/ a <= OrdinaryMoney + m
      BY <1>2, <2>4 DEF Credited, Covers
    <3> HIDE DEF m, a
    <3>4. a <= OrdinaryMoney + m
      BY <1>3, <2>5, <3>3, PlusKeeps
    <3>5. Monus(a, m) <= OrdinaryMoney
      BY <1>3, <2>5, <3>4, SumsOfNumbers
    <3> QED BY <2>1, <2>3, <3>2, <3>5 DEF Credited, SettledQuotes
  <2> QED BY <2>6, <2>7
<1> QED BY <1>1, <1>5, <1>6, <1>7, <1>8, <1>9, <1>10, KindsOfLoanStep, SuccessStands

LEMMA ReceivedIsOrdinary ==
    ASSUME Inv
    PROVE  /\ OrdinaryMoney \in Nat /\ Received \in Nat /\ OrdinaryMoney <= Received
           /\ \A p \in Payments : payment[p].status = "succeeded" /\ payment[p].link \in Quotes =>
                payment[p].amount \in Nat /\ OrdinaryMoney + payment[p].amount <= Received
<1> DEFINE f == [o \in Payments |-> Ordinary(o)]
           g == [o \in Payments |-> Standing(o)]
<1>1. \A o \in Payments : /\ f[o] \in Nat /\ g[o] \in Nat /\ (f[o] = 0 \/ f[o] = g[o])
                          /\ payment[o].amount \in Nat
  BY DEF Inv, Types, PaymentsOK, PaymentType, Ordinary, Standing
<1>2. \A p \in Payments : payment[p].status = "succeeded" /\ payment[p].link \in Quotes =>
         f[p] = 0 /\ g[p] = payment[p].amount
  BY NoQuoteAssumption DEF Ordinary, Standing
<1>3. OrdinaryMoney = SumFunctionOnSet(f, Payments) /\ Received = SumFunctionOnSet(g, Payments)
  BY DEF OrdinaryMoney, Received
<1> HIDE DEF f, g
<1>4. \A o \in Payments : f[o] \in Int /\ g[o] \in Int /\ f[o] <= g[o]
  BY <1>1
<1>5. SumFunctionOnSet(f, Payments) <= SumFunctionOnSet(g, Payments)
  BY <1>4, SumLeq, PaymentsAreFinite
<1>6. SumFunctionOnSet(f, Payments) \in Nat /\ SumFunctionOnSet(g, Payments) \in Nat
  BY <1>1, SumNat, PaymentsAreFinite
<1>7. ASSUME NEW p \in Payments, payment[p].status = "succeeded", payment[p].link \in Quotes
      PROVE  payment[p].amount \in Nat /\ OrdinaryMoney + payment[p].amount <= Received
  <2> DEFINE a == payment[p].amount
             h == [o \in Payments |-> IF o = p THEN a ELSE f[o]]
  <2>1. a \in Nat /\ f[p] = 0 /\ g[p] = a
    BY <1>1, <1>2, <1>7
  <2> HIDE DEF a
  <2>2. /\ \A o \in Payments : h[o] \in Int /\ h[o] <= g[o]
        /\ \A o \in Payments \ {p} : h[o] = f[o]
        /\ h[p] = a
    BY <1>1, <1>4, <2>1
  <2> HIDE DEF h
  <2>3. SumFunctionOnSet(h, Payments) = SumFunctionOnSet(f, Payments) + (h[p] - f[p])
    BY <1>4, <2>2, SumChanges, PaymentsAreFinite
  <2>4. SumFunctionOnSet(h, Payments) <= SumFunctionOnSet(g, Payments)
    BY <1>4, <2>2, SumLeq, PaymentsAreFinite
  <2>5. SumFunctionOnSet(h, Payments) = SumFunctionOnSet(f, Payments) + a
    BY <1>6, <2>1, <2>2, <2>3
  <2> QED BY <1>3, <2>1, <2>4, <2>5 DEF a
<1> QED BY <1>3, <1>5, <1>6, <1>7

(* The loan credits no money that is not a standing successful payment,    *)
(* whatever settlements, reversals and repayments came in between          *)
(* (reverse_loan_payment, reverse_early_settlement), and whatever totals   *)
(* the quotes offer as long as none is the sum another was made at.        *)
THEOREM CreditNeedsMoney == Spec => []CreditIsReceived
<1>1. Init => CreditInv
  <2> SUFFICES ASSUME Init PROVE CreditInv
    OBVIOUS
  <2>1. loan.paid = 0 /\ SettledQuotes = {}
    BY InitNoneSettled
  <2>2. OrdinaryMoney \in Nat
    BY InitInv, ReceivedIsOrdinary
  <2>3. 0 <= OrdinaryMoney
    BY <2>2
  <2> QED BY <2>1, <2>3 DEF CreditInv, Credited
<1>2. Inv /\ Inv' /\ SettlesInv /\ SettledOnce /\ CreditInv /\ [Next]_vars => CreditInv'
  BY CreditStep DEF SettlesInv
<1>3. ASSUME Inv, CreditInv PROVE CreditIsReceived
  <2> SUFFICES ASSUME Orderly, Without({"unlinked settlement"})
               PROVE  loan.paid <= Received
    BY DEF CreditIsReceived, Orderly, Without
  <2>1. Credited
    BY <1>3 DEF CreditInv
  <2>2. loan.paid \in Nat
    BY <1>3 DEF Inv, Types, LoanOK, LoanType
  <2>3. CASE loan.paid <= OrdinaryMoney
    BY <1>3, <2>2, <2>3, ReceivedIsOrdinary, LeqLeq
  <2>4. ASSUME NEW p \in Payments, Covers(p) PROVE loan.paid <= Received
    <3> DEFINE b == OrdinaryMoney + payment[p].amount
    <3>1. payment[p].status = "succeeded" /\ payment[p].link \in Quotes /\ loan.paid <= b
      BY <2>4 DEF Covers
    <3>2. payment[p].amount \in Nat /\ OrdinaryMoney \in Nat /\ Received \in Nat /\ b <= Received
      BY <1>3, <3>1, ReceivedIsOrdinary
    <3>3. b \in Nat
      BY <3>2, PlusIsNat
    <3> HIDE DEF b
    <3> QED BY <2>2, <3>1, <3>2, <3>3, LeqLeq
  <2> QED BY <2>1, <2>3, <2>4 DEF Credited
<1> QED BY <1>1, <1>2, <1>3, SettledOnceHolds, Invariant, Settles, PTL DEF Spec

-----------------------------------------------------------------------------
(* What is held for the loan is credited.                                  *)

(* The payment's money counts: it succeeded, or it is allocated and the    *)
(* gateway still has it.                                                   *)
Holds(p) == payment[p].status = "succeeded" \/ (Allocated(p) /\ gateway[p] = "succeeded")
Held(p) == IF Holds(p) THEN payment[p].amount ELSE 0
HeldMoney == SumFunctionOnSet([p \in Payments |-> Held(p)], Payments)

NoNewMoney ==
    \A p \in Payments : Holds(p)' => Holds(p) /\ payment'[p].amount = payment[p].amount

(* A quote that is settled already is not paid by a second payment.        *)
LEMMA SettledByIt ==
    ASSUME Inv, Rows, Unique, Without({"stale request"}), NEW q \in Quotes,
           quote[q].status = "settled", NEW p \in Payments, Begun(p, q)
    PROVE  payment[p].link = q /\ payment[p].status = "succeeded"
<1>1. PICK o \in Payments : payment[o].link = q /\ payment[o].status = "succeeded"
  BY DEF Inv, SettledIsPaid, SettledQuotes, PaidBy
<1>2. Begun(o, q)
  BY <1>1 DEF Begun, Rows, RowsInv
<1> QED BY <1>1, <1>2 DEF Unique

LEMMA StatusHolds ==
    ASSUME Inv, NEW p \in Payments,
           NEW s \in {"absent", "processing", "succeeded", "failed", "reversed"}, SetPayment(p, s),
           s = "succeeded" => payment[p].status = "succeeded", gateway' = gateway,
           allocation' = allocation
    PROVE  NoNewMoney
<1>1. \A o \in Payments :
         /\ payment'[o].status = (IF o = p THEN s ELSE payment[o].status)
         /\ payment'[o].amount = payment[o].amount
  BY SetPaymentTypes DEF Inv, Types
<1> QED BY <1>1 DEF NoNewMoney, Holds, Allocated

LEMMA RowHolds ==
    ASSUME Rows, NEW p \in Payments, NEW q, Creates(p, q), payment'[p].status # "succeeded",
           allocation' = allocation
    PROVE  NoNewMoney
<1>1. ~Allocated(p)
  BY DEF Creates, Rows, RowsInv
<1> QED BY <1>1 DEF Creates, NoNewMoney, Holds, Allocated

LEMMA FinalizeMoney ==
    ASSUME Inv, Rows, Unique, Without({"stale request"}), NEW p \in Payments, Finalize(p),
           gateway' = gateway, gateway[p] = "succeeded" \/ payment[p].link \in Quotes,
           payment[p].status # "absent"
    PROVE  NoNewMoney \/ Counts(p) \/ \E q \in Quotes : Fulfils(p, q)
<1>1. CASE AlreadyDone(p) /\ UNCHANGED ledgerButPayment
  <2>1. payment[p].status = "succeeded"
    <3>1. CASE payment[p].link \in Quotes
      <4>1. quote[payment[p].link].status = "settled"
        BY <1>1, <3>1 DEF AlreadyDone
      <4>2. Begun(p, payment[p].link)
        BY <3>1 DEF Begun, Rows, RowsInv
      <4> QED BY <3>1, <4>1, <4>2, SettledByIt
    <3>2. CASE payment[p].link \notin Quotes
      BY <1>1, <3>2 DEF AlreadyDone
    <3> QED BY <3>1, <3>2
  <2>2. SetPayment(p, "succeeded") /\ allocation' = allocation
    BY <1>1 DEF Finalize, ledgerButPayment
  <2> QED BY <2>1, <2>2, StatusHolds
<1> QED BY <1>1, FinalizeKinds

(* Every step holds no new money, or posts what it brings.                 *)
LEMMA KindsOfMoneyStep ==
    ASSUME Inv, Rows, Unique, Without({"stale request"}), [Next]_vars
    PROVE  \/ NoNewMoney
           \/ \E p \in Payments : Counts(p) \/ Tears(p) \/ \E q \in Quotes : Fulfils(p, q)
<1>1. ASSUME UNCHANGED <<payment, allocation, gateway>> PROVE NoNewMoney
  BY <1>1 DEF NoNewMoney, Holds, Allocated
<1>2. ASSUME NEW p \in Payments, RequestStep(p)
      PROVE  NoNewMoney \/ Counts(p) \/ Tears(p) \/ \E q \in Quotes : Fulfils(p, q)
  <2>1. CASE \E a \in Tenders : RepayInCash(p, a)
    BY <2>1, CashCounts
  <2>2. ASSUME NEW a \in Tenders, NEW door \in {"collection", "debit"}, AskGateway(p, a, door)
        PROVE  NoNewMoney
    <3>1. Creates(p, NoQuote) /\ allocation' = allocation
      BY <2>2, RepayCreates DEF AskGateway
    <3>2. payment'[p].status # "succeeded"
      BY <2>2 DEF AskGateway, NewPayment, Inv, Types, PaymentsOK
    <3> QED BY <3>1, <3>2, RowHolds
  <2>3. CASE RecordIntent(p)
    <3>1. Creates(p, request[p].quote) /\ allocation' = allocation
      BY <2>3, SettlementCreates DEF RecordIntent
    <3>2. payment'[p].status # "succeeded"
      BY <2>3 DEF RecordIntent, NewPayment, Inv, Types, PaymentsOK
    <3> QED BY <3>1, <3>2, RowHolds
  <2>4. CASE SettleInCash(p)
    <3>1. CASE \E q \in Quotes : Fulfils(p, q)
      BY <3>1
    <3>2. ASSUME request[p].quote \in Quotes, quote[request[p].quote].status = "settled",
                 Begun(p, request[p].quote), payment[p].status = "absent"
          PROVE  FALSE
      BY <3>2, SettledByIt
    <3> QED BY <2>4, <3>1, <3>2, CounterKinds
  <2>5. CASE AnswerSucceeded(p) \/ FinishCheckout(p)
    <3>1. /\ Finalize(p) /\ gateway' = gateway /\ payment[p].status # "absent"
          /\ gateway[p] = "succeeded" \/ payment[p].link \in Quotes
      BY <2>5 DEF AnswerSucceeded, FinishCheckout, Inv, RequestInv, Rows, RowsInv
    <3> QED BY <3>1, FinalizeMoney
  <2>6. CASE AnswerTorn(p)
    BY <2>6, TornTears
  <2>7. CASE AnswerFailed(p) \/ AnswerUnusable(p)
    <3>1. SetPayment(p, "failed") \/ payment' = payment
      BY <2>7 DEF AnswerFailed, AnswerUnusable
    <3>2. gateway' = gateway /\ allocation' = allocation
      BY <2>7 DEF AnswerFailed, AnswerUnusable
    <3> QED BY <1>1, <3>1, <3>2, StatusHolds
  <2>8. CASE LinkCheckout(p)
    <3>1. \A o \in Payments : payment'[o].status = payment[o].status
                                /\ payment'[o].amount = payment[o].amount
      BY <2>8 DEF LinkCheckout, Inv, Types, PaymentsOK, PaymentType
    <3> QED BY <2>8, <3>1 DEF LinkCheckout, NoNewMoney, Holds, Allocated
  <2> QED BY <1>1, <1>2, <2>1, <2>2, <2>3, <2>4, <2>5, <2>6, <2>7, <2>8
          DEF RequestStep, Collect, Debit, LoadQuote, StartSettlement, FindExpired,
              IntentUnavailable, Crash, AnswerPending, AnswerLost, ledgerVars, loanVars
<1>3. ASSUME NEW p \in Payments, NotifySuccess(p)
      PROVE  NoNewMoney \/ Counts(p) \/ \E q \in Quotes : Fulfils(p, q)
  BY <1>3, FinalizeMoney DEF NotifySuccess, Matched
<1>4. ASSUME NEW p \in Payments, NotifyReversal(p) \/ ReverseCash(p) PROVE NoNewMoney
  <2>1. SetPayment(p, "reversed") /\ gateway' = gateway /\ allocation' = allocation
    BY <1>4 DEF NotifyReversal, ReverseCash, Reverse, RestoreQuoted, Unallocate
  <2> QED BY <2>1, StatusHolds
<1>5. ASSUME NEW p \in Payments, NotifyStatus(p) PROVE NoNewMoney
  <2>1. /\ gateway[p] \in {"processing", "failed", "reversed"} /\ SetPayment(p, gateway[p])
        /\ gateway' = gateway /\ allocation' = allocation
    BY <1>5 DEF NotifyStatus, Matched, Inv, Types, RestOK
  <2> QED BY <2>1, StatusHolds
<1>6. ASSUME NEW p \in Payments, GatewayTakes(p) \/ GatewayMoves(p) PROVE NoNewMoney
  <2>1. payment' = payment /\ allocation' = allocation
    BY <1>6 DEF GatewayTakes, GatewayMoves, ledgerVars
  <2>2. \A o \in Payments \ {p} : gateway'[o] = gateway[o]
    BY <1>6 DEF GatewayTakes, GatewayMoves, Inv, Types, RestOK
  <2>3. ASSUME gateway'[p] = "succeeded" PROVE ~Allocated(p)
    <3>1. gateway[p] = "processing"
      BY <1>6, <2>3 DEF GatewayTakes, GatewayMoves, Inv, Types, RestOK
    <3>2. RowsInv(p)
      BY DEF Rows
    <3> QED BY <3>1, <3>2 DEF RowsInv
  <2> QED BY <2>1, <2>2, <2>3 DEF NoNewMoney, Holds, Allocated
<1>7. CASE \/ UNCHANGED vars \/ SubmitDay \/ OpenDay
           \/ \E q \in Quotes, r \in Revised : MakeQuote(q, r)
  BY <1>1, <1>7 DEF vars, SubmitDay, OpenDay, MakeQuote, ledgerVars
<1> QED BY <1>2, <1>3, <1>4, <1>5, <1>6, <1>7 DEF Next, Notify

LEMMA HeldTypes ==
    ASSUME Inv, Inv'
    PROVE  /\ HeldMoney \in Nat /\ HeldMoney' \in Nat
           /\ \A p \in Payments : /\ Held(p) \in Nat /\ payment[p].amount \in Nat
                                  /\ Held(p)' \in Nat /\ payment'[p].amount \in Nat
<1>1. \A p \in Payments : /\ Held(p) \in Nat /\ payment[p].amount \in Nat
                          /\ Held(p)' \in Nat /\ payment'[p].amount \in Nat
  <2>1. \A p \in Payments : payment[p].amount \in Nat /\ payment'[p].amount \in Nat
    BY DEF Inv, Types, PaymentsOK, PaymentType
  <2> QED BY <2>1 DEF Held
<1> DEFINE f == [p \in Payments |-> Held(p)]
           g == [p \in Payments |-> Held(p)']
<1>2. \A p \in Payments : f[p] \in Nat /\ g[p] \in Nat
  BY <1>1
<1> HIDE DEF f, g
<1>3. SumFunctionOnSet(f, Payments) \in Nat /\ SumFunctionOnSet(g, Payments) \in Nat
  BY <1>2, SumNat, PaymentsAreFinite
<1> QED BY <1>1, <1>3 DEF HeldMoney, f, g

LEMMA HeldShrinks ==
    ASSUME Inv, Inv', NoNewMoney PROVE HeldMoney' <= HeldMoney
<1> DEFINE f == [p \in Payments |-> Held(p)]
           g == [p \in Payments |-> Held(p)']
<1>1. ASSUME NEW p \in Payments PROVE f[p] \in Nat /\ g[p] \in Nat /\ (g[p] = 0 \/ g[p] = f[p])
  <2>1. Held(p) \in Nat /\ Held(p)' \in Nat
    BY HeldTypes
  <2>2. Held(p)' = 0 \/ Held(p)' = Held(p)
    BY DEF Held, NoNewMoney
  <2> QED BY <2>1, <2>2
<1> HIDE DEF f, g
<1>2. \A p \in Payments : f[p] \in Int /\ g[p] \in Int /\ g[p] <= f[p]
  BY <1>1
<1>3. SumFunctionOnSet(g, Payments) <= SumFunctionOnSet(f, Payments)
  BY <1>2, SumLeq, PaymentsAreFinite
<1> QED BY <1>3 DEF HeldMoney, f, g

LEMMA HeldMoves ==
    ASSUME Inv, Inv', NEW p \in Payments, OnlyPayment(p), gateway' = gateway,
           \A o \in Payments \ {p} : allocation'[o] = allocation[o]
    PROVE  HeldMoney' = HeldMoney + (Held(p)' - Held(p))
<1> DEFINE f == [o \in Payments |-> Held(o)]
           g == [o \in Payments |-> Held(o)']
<1>1. ASSUME NEW o \in Payments PROVE f[o] \in Nat /\ g[o] \in Nat /\ (o # p => f[o] = g[o])
  <2>1. Held(o) \in Nat /\ Held(o)' \in Nat
    BY HeldTypes
  <2>2. o # p => Held(o)' = Held(o)
    BY DEF Held, Holds, Allocated, OnlyPayment
  <2> QED BY <2>1, <2>2
<1>2. f[p] = Held(p) /\ g[p] = Held(p)'
  OBVIOUS
<1> HIDE DEF f, g
<1>3. /\ \A o \in Payments : f[o] \in Int /\ g[o] \in Int
      /\ \A o \in Payments \ {p} : g[o] = f[o]
  BY <1>1
<1>4. SumFunctionOnSet(g, Payments) = SumFunctionOnSet(f, Payments) + (g[p] - f[p])
  BY <1>3, SumChanges, PaymentsAreFinite
<1> QED BY <1>2, <1>4 DEF HeldMoney, f, g

HeldInv ==
    Orderly /\ Without({"stale request"}) =>
      /\ HeldMoney <= loan.paid
      /\ \A q \in SettledQuotes : HeldMoney <= quote[q].revised

LEMMA MoneyNumbers ==
    ASSUME NEW a \in Nat, NEW b \in Nat, NEW c \in Nat, NEW h \in Nat, NEW m \in Nat
    PROVE  /\ a <= b => a + (m - h) <= b + m
           /\ a <= b => a + (m - m) <= b
           /\ a <= c /\ m = c - b => a + (0 - m) <= b
           /\ a <= b => a + (0 - m) <= Monus(b, m)
           /\ a <= b /\ b <= c => a <= c
           /\ a < b => a <= b
BY DEF Monus

LEMMA PaysTheGap ==
    ASSUME NEW a \in Nat, NEW b \in Nat, NEW c \in Nat, NEW h \in Nat, NEW m \in Nat,
           a <= b, b <= c, c - b = m
    PROVE  a + (m - h) <= c
OBVIOUS

LEMMA HeldStep ==
    Inv /\ Inv' /\ Rows /\ Unique /\ SettledOnce /\ HeldInv /\ [Next]_vars => HeldInv'
<1> SUFFICES ASSUME Inv, Inv', Rows, Unique, SettledOnce, HeldInv, [Next]_vars,
                    Orderly', "stale request" \notin upset'
             PROVE  /\ HeldMoney' <= loan'.paid
                    /\ \A q \in Quotes : quote'[q].status = "settled" =>
                          HeldMoney' <= quote'[q].revised
  BY DEF HeldInv, Without, SettledQuotes
<1>1. /\ Orderly /\ Without({"stale request"}) /\ QuotesKept
      /\ "torn commit" \notin upset' /\ "late repayment" \notin upset' /\ "old reversal" \notin upset'
  BY HistoryStays, OrderlyBefore DEF Without
<1>2. /\ HeldMoney <= loan.paid
      /\ \A q \in Quotes : quote[q].status = "settled" =>
            /\ HeldMoney <= quote[q].revised /\ quote'[q].revised = quote[q].revised
            /\ loan = [status |-> "completed", total |-> quote[q].revised, paid |-> quote[q].revised]
            /\ \A o \in Quotes : quote[o].status = "settled" => o = q
  BY <1>1 DEF HeldInv, SettledOnce, SettledQuotes, QuotesKept, Made
<1>3. /\ HeldMoney \in Nat /\ HeldMoney' \in Nat /\ loan.paid \in Nat /\ loan'.paid \in Nat
      /\ \A p \in Payments : /\ payment[p].amount \in Nat /\ payment'[p].amount \in Nat
                             /\ Held(p) \in Nat /\ Held(p)' \in Nat
      /\ \A q \in Quotes : quote[q].was.paid \in Nat /\ quote[q].revised \in Nat
  <2>1. loan.paid \in Nat /\ loan'.paid \in Nat
    BY DEF Inv, Types, LoanOK, LoanType
  <2> QED BY <2>1, HeldTypes, QuoteNumbers
<1>4. ASSUME LoanStill, NoNewMoney
      PROVE  /\ HeldMoney' <= loan'.paid
             /\ \A q \in Quotes : quote'[q].status = "settled" => HeldMoney' <= quote'[q].revised
  <2>1. HeldMoney' <= HeldMoney
    BY <1>4, HeldShrinks
  <2>2. HeldMoney' <= loan'.paid
    BY <1>2, <1>3, <1>4, <2>1, LeqLeq DEF LoanStill
  <2>3. ASSUME NEW q \in Quotes, quote'[q].status = "settled" PROVE HeldMoney' <= quote'[q].revised
    <3>1. HeldMoney <= quote[q].revised /\ quote'[q].revised = quote[q].revised
      BY <1>2, <1>4, <2>3 DEF LoanStill
    <3>2. HeldMoney' <= quote[q].revised
      BY <1>3, <2>1, <3>1, LeqLeq
    <3> QED BY <3>1, <3>2
  <2> QED BY <2>2, <2>3
<1>5. ASSUME NEW p \in Payments, Counts(p)
      PROVE  /\ HeldMoney' <= loan'.paid
             /\ \A q \in Quotes : quote'[q].status # "settled"
  <2>1. OnlyPayment(p) /\ quote' = quote /\ gateway' = gateway /\ loan.status = "active"
    BY <1>1, <1>5 DEF Counts
  <2>2. ASSUME NEW q \in Quotes, quote[q].status = "settled" PROVE FALSE
    <3> DEFINE r == quote[q].revised
    <3>1. loan = [status |-> "completed", total |-> r, paid |-> r]
      BY <1>2, <2>2
    <3> HIDE DEF r
    <3>2. loan.status = "completed"
      BY <3>1
    <3> QED BY <2>1, <3>2
  <2> DEFINE a == payment'[p].amount
             h == Held(p)
             c == loan.paid
  <2>3. Held(p)' = a /\ a \in Nat /\ h \in Nat /\ c \in Nat
    BY <1>3, <1>5 DEF Counts, Held, Holds
  <2>4. CASE Allocate(p, a)
    <3>1. loan'.paid = c + a
      BY <2>3, <2>4, CountedLoan
    <3>2. \A o \in Payments \ {p} : allocation'[o] = allocation[o]
      BY <2>4, AllocateRows DEF Inv, Types
    <3>3. HeldMoney' = HeldMoney + (a - h)
      BY <2>1, <2>3, <3>2, HeldMoves
    <3> HIDE DEF a, h, c
    <3>4. HeldMoney' <= c + a
      BY <1>2, <1>3, <2>3, <3>3, MoneyNumbers DEF c
    <3> QED BY <2>1, <2>2, <3>1, <3>4
  <2>5. CASE Allocated(p) /\ gateway[p] = "succeeded" /\ loan' = loan /\ allocation' = allocation
    <3>1. payment[p].status # "absent"
      BY <2>5 DEF Rows, RowsInv
    <3>2. h = a
      BY <1>5, <2>5, <3>1 DEF Counts, Held, Holds
    <3>3. HeldMoney' = HeldMoney + (a - a)
      BY <2>1, <2>3, <2>5, <3>2, HeldMoves
    <3> HIDE DEF a, h, c
    <3>4. HeldMoney' <= c
      BY <1>2, <1>3, <2>3, <3>3, MoneyNumbers DEF c
    <3> QED BY <2>1, <2>2, <2>5, <3>4 DEF c
  <2> QED BY <1>5, <2>4, <2>5 DEF Counts
<1>6. ASSUME NEW p \in Payments, Tears(p) PROVE FALSE
  BY <1>1, <1>6 DEF Tears
<1>7. ASSUME NEW p \in Payments, NEW x \in Quotes, Fulfils(p, x)
      PROVE  /\ HeldMoney' <= loan'.paid
             /\ \A q \in Quotes : quote'[q].status = "settled" => HeldMoney' <= quote'[q].revised
  <2>1. SettledQuotes = {}
    BY <1>1, <1>7, NothingSettled DEF Fulfils, Settle
  <2>2. \A q \in Quotes : quote'[q].status = "settled" => q = x
    BY <1>7, <2>1, FulfilledQuotes DEF SettledQuotes
  <2> DEFINE r == quote[x].revised
             c == loan.paid
             m == Amount(x)
             h == Held(p)
  <2>3. /\ quote'[x].revised = r /\ loan' = [status |-> "completed", total |-> r, paid |-> r]
        /\ c < r /\ r - c = m /\ r \in Nat /\ c \in Nat /\ m \in Nat /\ h \in Nat
    BY <1>3, <1>7, FulfilledQuotes, AmountsAreNat DEF Inv, Types
  <2>4. Held(p)' = m
    BY <1>7 DEF Fulfils, Held, Holds
  <2>5. OnlyPayment(p) /\ gateway' = gateway /\ allocation' = allocation
    BY <1>7 DEF Fulfils, Settle, CloseAt
  <2>6. HeldMoney' = HeldMoney + (m - h)
    BY <2>4, <2>5, HeldMoves
  <2> HIDE DEF r, c, m, h
  <2>7. c <= r /\ HeldMoney <= c
    BY <1>2, <2>3, MoneyNumbers DEF c
  <2>8. HeldMoney' <= r
    BY <1>3, <2>3, <2>6, <2>7, PaysTheGap
  <2>9. loan'.paid = r
    BY <2>3
  <2> QED BY <2>2, <2>3, <2>8, <2>9
<1>8. ASSUME NEW p \in Payments, NEW x \in Quotes, Unsettles(p, x)
      PROVE  /\ HeldMoney' <= loan'.paid
             /\ \A q \in Quotes : quote'[q].status # "settled"
  <2>1. /\ quote[x].status = "settled" /\ payment[p].link = x /\ SetPayment(p, "reversed")
        /\ loan'.paid = quote[x].was.paid /\ payment[p].status = "succeeded"
        /\ gateway' = gateway /\ gateway[p] # "succeeded" /\ allocation' = allocation
    BY <1>8 DEF Unsettles, Undoes, RestoreQuoted
  <2>2. OnlyPayment(p) /\ payment'[p].status = "reversed"
    <3>1. PaymentsOK
      BY DEF Inv, Types
    <3>2. payment'[p].status = "reversed"
      BY <2>1, <3>1, SetPaymentTypes
    <3>3. OnlyPayment(p)
      BY <2>1, <3>1 DEF OnlyPayment, SetPayment, PaymentsOK
    <3> QED BY <3>2, <3>3
  <2> DEFINE m == Amount(x)
             r == quote[x].revised
             w == quote[x].was.paid
  <2>3. payment[p].amount = m /\ m > 0
    BY <2>1 DEF Rows, RowsInv
  <2>4. m = r - w
    BY <2>3, QuoteNumbers
  <2>5. m \in Nat /\ r \in Nat /\ w \in Nat
    BY <1>3, AmountsAreNat DEF Inv, Types
  <2>6. Held(p) = m /\ Held(p)' = 0
    BY <2>1, <2>2, <2>3 DEF Held, Holds
  <2>7. HeldMoney' = HeldMoney + (0 - m)
    BY <2>1, <2>2, <2>6, HeldMoves
  <2>8. HeldMoney <= r
    BY <1>2, <2>1
  <2> HIDE DEF m, r, w
  <2>9. HeldMoney' <= w
    BY <1>3, <2>4, <2>5, <2>7, <2>8, MoneyNumbers
  <2>10. \A q \in Quotes : quote'[q].status # "settled"
    BY <1>2, <1>8, <2>1, UndoneQuotes DEF Unsettles
  <2> QED BY <2>1, <2>9, <2>10 DEF w
<1>9. ASSUME NEW p \in Payments, TakesBack(p)
      PROVE  /\ HeldMoney' <= loan'.paid
             /\ \A q \in Quotes : quote'[q].status # "settled"
  <2>1. SettledQuotes = {} /\ quote' = quote
    BY <1>1, <1>9, TakenBackAlone DEF TakesBack, Unallocate
  <2>2. /\ SetPayment(p, "reversed") /\ payment[p].status = "succeeded"
        /\ gateway' = gateway /\ gateway[p] # "succeeded" /\ allocation' = allocation
    BY <1>9 DEF TakesBack, Unallocate
  <2>3. OnlyPayment(p) /\ payment'[p].status = "reversed"
    <3>1. PaymentsOK
      BY DEF Inv, Types
    <3>2. payment'[p].status = "reversed"
      BY <2>2, <3>1, SetPaymentTypes
    <3>3. OnlyPayment(p)
      BY <2>2, <3>1 DEF OnlyPayment, SetPayment, PaymentsOK
    <3> QED BY <3>2, <3>3
  <2> DEFINE m == payment[p].amount
             a == loan.paid
  <2>4. loan'.paid = Monus(a, m)
    <3>1. loan \in LoanType
      BY DEF Inv, Types, LoanOK
    <3> QED BY <1>9, <3>1 DEF TakesBack, Unallocate, LoanType
  <2>5. Held(p) = m /\ Held(p)' = 0
    BY <2>2, <2>3 DEF Held, Holds
  <2>6. HeldMoney' = HeldMoney + (0 - m)
    BY <2>2, <2>3, <2>5, HeldMoves
  <2>7. HeldMoney <= a /\ a \in Nat /\ m \in Nat
    BY <1>2, <1>3
  <2> HIDE DEF m, a
  <2>8. HeldMoney' <= Monus(a, m)
    BY <1>3, <2>6, <2>7, MoneyNumbers
  <2> QED BY <2>1, <2>4, <2>8 DEF SettledQuotes
<1> QED BY <1>1, <1>4, <1>5, <1>6, <1>7, <1>8, <1>9, KindsOfLoanStep, KindsOfMoneyStep

LEMMA InitHeld == Init => HeldInv
<1> SUFFICES ASSUME Init PROVE HeldMoney <= loan.paid /\ SettledQuotes = {}
  BY DEF HeldInv
<1>1. loan.paid = 0 /\ SettledQuotes = {}
  BY InitNoneSettled
<1> DEFINE f == [p \in Payments |-> Held(p)]
<1>2. \A p \in Payments : f[p] = 0
  BY InstallmentsAssumption DEF Init, Held, Holds, Allocated, NoPayment
<1> HIDE DEF f
<1>3. SumFunctionOnSet(f, Payments) = 0
  BY <1>2, SumZero, PaymentsAreFinite
<1>4. HeldMoney = 0
  BY <1>3 DEF HeldMoney, f
<1> QED BY <1>1, <1>4

LEMMA ReceivedIsHeld ==
    ASSUME Inv PROVE Received <= HeldMoney /\ Received \in Nat /\ HeldMoney \in Nat
<1> DEFINE f == [p \in Payments |-> Held(p)]
           g == [p \in Payments |-> Standing(p)]
<1>1. \A p \in Payments : f[p] \in Nat /\ g[p] \in Nat /\ (g[p] = 0 \/ g[p] = f[p])
  <2>1. \A p \in Payments : payment[p].amount \in Nat
    BY DEF Inv, Types, PaymentsOK, PaymentType
  <2> QED BY <2>1 DEF Held, Holds, Standing
<1>2. HeldMoney = SumFunctionOnSet(f, Payments) /\ Received = SumFunctionOnSet(g, Payments)
  BY DEF HeldMoney, Received
<1> HIDE DEF f, g
<1>3. \A p \in Payments : f[p] \in Int /\ g[p] \in Int /\ g[p] <= f[p]
  BY <1>1
<1>4. SumFunctionOnSet(g, Payments) <= SumFunctionOnSet(f, Payments)
  BY <1>3, SumLeq, PaymentsAreFinite
<1>5. SumFunctionOnSet(g, Payments) \in Nat /\ SumFunctionOnSet(f, Payments) \in Nat
  BY <1>1, SumNat, PaymentsAreFinite
<1> QED BY <1>2, <1>4, <1>5

(* No successful payment is left without credit on the loan                *)
(* (finalize_gateway_payment, allocate_successful_payment): what a rebate  *)
(* cuts off is never cut below what was received, whatever totals the      *)
(* quotes offer as long as none is the sum another was made at.            *)
THEOREM MoneyIsCredited == Spec => []ReceivedIsCredited
<1>1. Inv /\ Inv' /\ SettlesInv /\ SettledOnce /\ HeldInv /\ [Next]_vars => HeldInv'
  BY HeldStep DEF SettlesInv
<1>2. ASSUME Inv, HeldInv PROVE ReceivedIsCredited
  <2> SUFFICES ASSUME Orderly, Without({"stale request"}) PROVE Received <= loan.paid
    BY DEF ReceivedIsCredited, Orderly, Without
  <2>1. HeldMoney <= loan.paid
    BY <1>2 DEF HeldInv
  <2>2. loan.paid \in Nat
    BY <1>2 DEF Inv, Types, LoanOK, LoanType
  <2> QED BY <1>2, <2>1, <2>2, ReceivedIsHeld, LeqLeq
<1> QED BY <1>1, <1>2, InitHeld, SettledOnceHolds, Invariant, Settles, PTL DEF Spec
=============================================================================
