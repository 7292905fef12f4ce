------------------------------- MODULE Billing -------------------------------
(***************************************************************************)
(* A payment's way into the hub: the profile a buyer keeps, the checkout,  *)
(* the payment provider's webhook and the fiscal invoice it asks another   *)
(* service for (internal/hub/billing.go, store_billing.go,                 *)
(* internal/billing).                                                      *)
(*                                                                         *)
(* The provider delivers an event until it is answered 200, in any order,  *)
(* and again while a slow delivery still runs.  A delivery is a step per   *)
(* statement of the store or call of the invoice service.  That call sends *)
(* the payment's id as oid and asks for no uniqueness: of a repeated one   *)
(* the service may make another invoice or answer with the one it has      *)
(* (external); it is assumed not to refuse it.                             *)
(***************************************************************************)
EXTENDS Naturals

CONSTANTS
  Orgs,
  Checkouts, Invoices, \* events of the provider: a checkout done, an invoice paid
  OrgOf,             \* [Checkouts \cup Invoices -> the organization in its metadata]
  PlanOf,            \* [Checkouts \cup Invoices -> the plan in its metadata]
  Charged,           \* the invoices that have an id and an amount above zero
  Free,              \* the plan of an organization that never paid
  Deliveries,        \* webhook calls that may run at the same time
  MaxFaults, MaxMoves \* bounds: calls that go wrong, changes of a mode

VARIABLES
  ready,             \* the hub has the invoice service configured
  orgs,              \* [Orgs -> billing columns of the row]
  opened,            \* organizations with a checkout at the provider
  event,             \* [event -> "none", "due" or "acknowledged"] (provider)
  delivery,          \* [Deliveries -> a webhook call between two of its steps]
  recorded,          \* invoices in billing_invoices
  issued,            \* [Invoices -> fiscal invoices the service made] (external)
  doubts,            \* [event -> times its invoice may have been made unrecorded] (history)
  faults,            \* [event -> calls that went wrong] (bound only)
  moves              \* changes of a mode so far (bound only)

vars == <<ready, orgs, opened, event, delivery, recorded, issued, doubts, faults, moves>>

Events == Checkouts \cup Invoices
Org == [plan : {Free} \cup {PlanOf[e] : e \in Events}, subscribed : BOOLEAN,
        complete : BOOLEAN, mode : {"standard", "test", "develop"}]

(* An event is about an organization, and the bound is a number.            *)
Bounds == OrgOf \in [Events -> Orgs] /\ Charged \subseteq Invoices /\ MaxFaults \in Nat

----------------------------------------------------------------------------
(* The organization's side.                                                 *)

(* A profile that does not validate is refused: what is stored is complete, *)
(* or as empty as the row was made.                                         *)
handlePatchBilling(o) ==
  /\ ~orgs[o].complete
  /\ orgs' = [orgs EXCEPT ![o].complete = TRUE]
  /\ UNCHANGED <<ready, opened, event, delivery, recorded, issued, doubts, faults, moves>>

(* StartCheckout validates the stored buyer once more.                      *)
handleCheckout(o) ==
  /\ orgs[o].complete /\ o \notin opened
  /\ opened' = opened \cup {o}
  /\ UNCHANGED <<ready, orgs, event, delivery, recorded, issued, doubts, faults, moves>>

handleSetOrgMode(o, mode) ==
  /\ moves < MaxMoves /\ moves' = moves + 1
  /\ orgs[o].mode # mode
  /\ orgs' = [orgs EXCEPT ![o].mode = mode]
  /\ UNCHANGED <<ready, opened, event, delivery, recorded, issued, doubts, faults>>

(* The provider: somebody pays, a month passes.                             *)
Happens(e) ==
  /\ OrgOf[e] \in opened /\ event[e] = "none"
  /\ event' = [event EXCEPT ![e] = "due"]
  /\ UNCHANGED <<ready, orgs, opened, delivery, recorded, issued, doubts, faults, moves>>

----------------------------------------------------------------------------
(* A delivery.                                                              *)

Idle == [at |-> "idle"]
At(d, stage) == delivery[d].at = stage
Running(e) == {d \in Deliveries : ~At(d, "idle") /\ delivery[d].event = e}

To(d, stage) == delivery' = [delivery EXCEPT ![d].at = stage]
Drop(d) == delivery' = [delivery EXCEPT ![d] = Idle]

Faulty(e, unknown) ==
  /\ faults[e] < MaxFaults
  /\ faults' = [faults EXCEPT ![e] = @ + 1]
  /\ doubts' = IF unknown THEN [doubts EXCEPT ![e] = @ + 1] ELSE doubts

(* A second delivery of one event starts after the provider gave up on the  *)
(* first, or on its answer.                                                 *)
Deliver(d, e) ==
  /\ At(d, "idle") /\ event[e] = "due"
  /\ delivery' = [delivery EXCEPT ![d] = [at |-> "apply", event |-> e]]
  /\ IF Running(e) = {} THEN UNCHANGED <<doubts, faults>> ELSE Faulty(e, TRUE)
  /\ UNCHANGED <<ready, orgs, opened, event, recorded, issued, moves>>

(* The latest delivery decides the plan, whichever event is the later one.  *)
(* Only an invoice that charged something goes on.                          *)
ApplyPaidPlan(d) ==
  LET e == delivery[d].event
  IN  /\ At(d, "apply")
      /\ orgs' = [orgs EXCEPT ![OrgOf[e]].plan = PlanOf[e], ![OrgOf[e]].subscribed = TRUE]
      /\ To(d, IF e \in Charged THEN "mode" ELSE "answer")
      /\ UNCHANGED <<ready, opened, event, recorded, issued, doubts, faults, moves>>

(* A develop organization gets no fiscal invoice, and without the service   *)
(* nobody does.                                                             *)
issueFiscalInvoice(d) ==
  /\ At(d, "mode")
  /\ To(d, IF orgs[OrgOf[delivery[d].event]].mode = "develop" \/ ~ready THEN "answer" ELSE "seen")
  /\ UNCHANGED <<ready, orgs, opened, event, recorded, issued, doubts, faults, moves>>

(* Slip: an invoice that was recorded is issued again.                      *)
HasBillingInvoiceNever(d) ==
  /\ At(d, "seen")
  /\ To(d, "buyer")
  /\ UNCHANGED <<ready, orgs, opened, event, recorded, issued, doubts, faults, moves>>

HasBillingInvoice(d) ==
  /\ At(d, "seen")
  /\ To(d, IF delivery[d].event \in recorded THEN "answer" ELSE "buyer")
  /\ UNCHANGED <<ready, orgs, opened, event, recorded, issued, doubts, faults, moves>>

(* A buyer that does not validate is answered 200 and gets no invoice, now  *)
(* or later.                                                                *)
ReadBuyer(d) ==
  /\ At(d, "buyer")
  /\ To(d, IF orgs[OrgOf[delivery[d].event]].complete THEN "issue" ELSE "answer")
  /\ UNCHANGED <<ready, orgs, opened, event, recorded, issued, doubts, faults, moves>>

(* Slip: a call that fails is answered like one that succeeds.              *)
IssueInvoiceOnce(d) ==
  LET e == delivery[d].event
  IN  /\ At(d, "issue")
      /\ issued' \in {issued, [issued EXCEPT ![e] = @ + 1]}
      /\ \/ /\ issued'[e] > 0
            /\ To(d, "record") /\ UNCHANGED <<doubts, faults>>
         \/ /\ Faulty(e, TRUE)
            /\ To(d, "answer")
      /\ UNCHANGED <<ready, orgs, opened, event, recorded, moves>>

(* The service makes one, or has one of this oid and may answer with it, or *)
(* the call fails: before or after it made one.                             *)
IssueInvoice(d) ==
  LET e == delivery[d].event
  IN  /\ At(d, "issue")
      /\ issued' \in {issued, [issued EXCEPT ![e] = @ + 1]}
      /\ \/ /\ issued'[e] > 0
            /\ To(d, "record") /\ UNCHANGED <<doubts, faults>>
         \/ /\ Faulty(e, TRUE)
            /\ Drop(d)
      /\ UNCHANGED <<ready, orgs, opened, event, recorded, moves>>

(* The primary key takes one row; a conflict is as good as a success.       *)
RecordBillingInvoice(d) ==
  /\ At(d, "record")
  /\ recorded' = recorded \cup {delivery[d].event}
  /\ To(d, "answer")
  /\ UNCHANGED <<ready, orgs, opened, event, issued, doubts, faults, moves>>

Answer(d) ==
  /\ At(d, "answer")
  /\ event' = [event EXCEPT ![delivery[d].event] = "acknowledged"]
  /\ Drop(d)
  /\ UNCHANGED <<ready, orgs, opened, recorded, issued, doubts, faults, moves>>

(* The store fails, the process dies or the answer is lost.  Before its     *)
(* record an invoice is lost by it.                                         *)
Fault(d) ==
  /\ ~At(d, "idle")
  /\ Faulty(delivery[d].event, At(d, "record"))
  /\ Drop(d)
  /\ UNCHANGED <<ready, orgs, opened, event, recorded, issued, moves>>

----------------------------------------------------------------------------
Advance(d) ==
  \/ ApplyPaidPlan(d) \/ issueFiscalInvoice(d) \/ HasBillingInvoice(d) \/ ReadBuyer(d)
  \/ IssueInvoice(d) \/ RecordBillingInvoice(d) \/ Answer(d)

Next ==
  \/ \E o \in Orgs : \/ handlePatchBilling(o) \/ handleCheckout(o)
                     \/ \E mode \in {"standard", "test", "develop"} : handleSetOrgMode(o, mode)
  \/ \E e \in Events : Happens(e)
  \/ \E d \in Deliveries : \/ \E e \in Events : Deliver(d, e)
                           \/ Advance(d) \/ Fault(d)

Init ==
  /\ ready \in BOOLEAN
  /\ orgs = [o \in Orgs |-> [plan |-> Free, subscribed |-> FALSE, complete |-> FALSE,
                             mode |-> "standard"]]
  /\ opened = {}
  /\ event = [e \in Events |-> "none"]
  /\ delivery = [d \in Deliveries |-> Idle]
  /\ recorded = {}
  /\ issued = [e \in Invoices |-> 0]
  /\ doubts = [e \in Events |-> 0] /\ faults = [e \in Events |-> 0]
  /\ moves = 0

(* The provider redelivers what was not answered 200 (external), and a      *)
(* handler runs to its end.                                                 *)
Fairness ==
  /\ \A e \in Events : WF_vars(\E d \in Deliveries : Running(e) = {} /\ Deliver(d, e))
  /\ \A d \in Deliveries : WF_vars(Advance(d))

Spec == Init /\ [][Next]_vars /\ Fairness

----------------------------------------------------------------------------
(* Properties.                                                              *)

TypeOK ==
  /\ ready \in BOOLEAN
  /\ orgs \in [Orgs -> Org]
  /\ event \in [Events -> {"none", "due", "acknowledged"}]
  /\ recorded \subseteq Invoices
  /\ faults \in [Events -> 0..MaxFaults]

(* A payment gets one fiscal invoice, and another only for a call of the    *)
(* service that failed, an invoice made whose record failed or was lost     *)
(* with the process, or two deliveries that overlapped.  Redelivery after   *)
(* any other error or a lost answer never makes one (issueFiscalInvoice     *)
(* asks HasBillingInvoice first).                                           *)
NoInvoiceWithoutDoubt == \A e \in Invoices : issued[e] <= 1 + doubts[e]

(* Where the hub has the invoice service, every payment is recorded with    *)
(* its fiscal invoice, although its events come in any order, several times *)
(* and between errors; the silent skip of an incomplete buyer is not met on *)
(* this way.  Only an organization that is in develop mode meanwhile gets   *)
(* none, and a payment of nothing.                                          *)
EveryPaymentIsInvoiced ==
  \A e \in Charged :
    ready /\ event[e] = "due" ~> (e \in recorded \/ orgs[OrgOf[e]].mode = "develop")

=============================================================================
