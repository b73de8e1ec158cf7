------------------------------ MODULE PaymentFlow ------------------------------
(***************************************************************************)
(* The client side of a repayment, on top of the server of Repayments: the *)
(* page a borrower lands on when the gateway sends her back asks the       *)
(* server to verify the payment, polls the gateway's answer, recovers, and *)
(* ends on the success or on the failure screen.                           *)
(*                                                                         *)
(* Three clients: "web" (PaymentSuccess.tsx with the two gateway hooks),   *)
(* "callback" (the app in a browser, callback.tsx) and "native" (the app,  *)
(* make-repayment.tsx).  Answers get lost; the handler then goes on.       *)
(* Abstracted: waiting times, screens, and the payment a browser stored    *)
(* for another tab.                                                        *)
(***************************************************************************)
EXTENDS Repayments

CONSTANTS
  Pages,       \* pages that are open at the same time
  NoRequest,   \* the page waits for no answer
  MaxTries     \* bound: lookups of one polling loop (6, 10 and 12 in the code)

ASSUME PaymentFlowAssumption ==
  NoRequest \notin Requests /\ MaxTries \in Nat \ {0}

VARIABLE page   \* the pages

allVars == <<vars, page>>

Kinds   == {"web", "callback", "native"}
Ended   == {"away", "succeeded", "failed", "stuck"}
Asking  == {"verify", "pollVerify", "recoverVerify"}
Looking == {"poll", "recover"}

\* `onSpent` is what follows when a polling loop runs out of attempts.
Away == [kind |-> "web", uuid |-> NoUuid, phase |-> "away", tries |-> 0,
         onSpent |-> "failed", call |-> NoRequest]

-----------------------------------------------------------------------------
(* Where a page goes next                                                  *)

EndAt(pg, phase) == [pg EXCEPT !.phase = phase, !.tries = 0, !.call = NoRequest]

Loop(pg, phase, onSpent) ==
  [pg EXCEPT !.phase = phase, !.tries = 0, !.onSpent = onSpent, !.call = NoRequest]

\* recoverViaLookupAndVerify, a second loop of the web page.
Recover(pg) == Loop(pg, "recover", "failed")

Spent(pg) ==
  CASE pg.onSpent = "recover" -> Recover(pg)
    [] pg.onSpent = "again"   -> Loop(pg, "poll", "stuck")
    [] OTHER                  -> EndAt(pg, pg.onSpent)

LoopOf(pg) == IF pg.phase \in {"recover", "recoverVerify"} THEN "recover" ELSE "poll"

NextTryUncounted(pg) == [pg EXCEPT !.phase = LoopOf(pg), !.call = NoRequest]
NextTry(pg) ==
  IF pg.tries + 1 < MaxTries
  THEN [pg EXCEPT !.phase = LoopOf(pg), !.tries = @ + 1, !.call = NoRequest]
  ELSE Spent(pg)

\* verifyPayment answers success false.
Refused(pg) ==
  CASE pg.kind = "web"      -> Recover(pg)
    [] pg.kind = "callback" -> Loop(pg, "poll", "failed")
    [] OTHER                -> Loop(pg, "poll", "again")

\* verifyPayment answers with an error, or not at all.  The web page returns
\* the promise of a verification inside its loop, so that the loop does not
\* catch it.
Threw(pg) ==
  IF pg.phase = "recoverVerify" \/ (pg.phase = "pollVerify" /\ pg.kind = "native")
  THEN NextTry(pg)
  ELSE IF pg.phase = "pollVerify" THEN EndAt(pg, "failed")
  ELSE CASE pg.kind = "web"      -> Loop(pg, "poll", "recover")
         [] pg.kind = "callback" -> EndAt(pg, "failed")
         [] OTHER                -> Loop(pg, "poll", "stuck")

\* The lookup itself fails.
LookupThrew(pg) ==
  IF /\ pg.phase = "poll"
     /\ pg.kind = "callback" \/ (pg.kind = "web" /\ pg.tries + 1 = MaxTries)
  THEN EndAt(pg, "failed")
  ELSE NextTry(pg)

\* The gateway reports the payment as failed or expired.
LookupRefused(pg) ==
  IF pg.phase = "poll" /\ pg.kind = "web" THEN Recover(pg) ELSE EndAt(pg, "failed")

-----------------------------------------------------------------------------
\* The gateway's redirect opens a page, or a reload does: with a callback that
\* says complete, with another one, or (web) without the stored payment.
Landings(kind) ==
  CASE kind = "web"      -> {"verify", "poll", "recover"}
    [] kind = "callback" -> {"verify"}
    [] OTHER             -> {"verify", "poll"}

Land(p, u, kind) ==
  /\ page[p].phase \in Ended
  /\ \E phase \in Landings(kind) :
       page' = [page EXCEPT ![p] =
                  [kind |-> kind, uuid |-> u, phase |-> phase, tries |-> 0,
                   onSpent |-> IF kind = "web" /\ phase = "poll" THEN "recover" ELSE "failed",
                   call |-> NoRequest]]
  /\ UNCHANGED vars

\* The page asks for a verification; only a recovery leaves the contract out.
Send(p) ==
  /\ page[p].phase \in Asking /\ page[p].call = NoRequest
  /\ \E r \in Requests :
       /\ Verify(r, page[p].uuid, page[p].phase # "recoverVerify")
       /\ page' = [page EXCEPT ![p].call = r]

\* The gateway does not know the payment as complete; inside a loop it did at
\* the lookup before, and does not take that back.
BeRefused(p) ==
  /\ page[p].phase = "verify" /\ page[p].call = NoRequest
  /\ page[p].uuid \notin gateway
  /\ page' = [page EXCEPT ![p] = Refused(page[p])]
  /\ UNCHANGED vars

\* lookupPayment says alreadyProcessed: there is a transaction.
PaidIsEnough(u) == u \in gateway
Processed(u) == Found(u) # {}

Lookup(p) ==
  LET pg == page[p]
  IN /\ pg.phase \in Looking
     /\ \/ /\ pg.uuid \in gateway
           /\ page' = [page EXCEPT ![p] =
                IF Processed(pg.uuid) THEN EndAt(pg, "succeeded")
                ELSE [pg EXCEPT !.phase = IF @ = "poll" THEN "pollVerify"
                                          ELSE "recoverVerify"]]
        \/ /\ pg.uuid \notin gateway
           /\ page' \in {[page EXCEPT ![p] = NextTry(pg)],
                         [page EXCEPT ![p] = LookupRefused(pg)]}
        \/ page' = [page EXCEPT ![p] = LookupThrew(pg)]
     /\ UNCHANGED vars

\* The page gets an error although the handler goes on: the connection broke.
LoseAnswer(p) ==
  /\ page[p].call # NoRequest
  /\ page' = [page EXCEPT ![p] = Threw(page[p])]
  /\ UNCHANGED vars

\* A handler that ends has answered the page that waits for it.
Hear(r) ==
  page' = [p \in Pages |->
             IF page[p].call # r \/ req'[r] # Idle THEN page[p]
             ELSE IF At(r, "answer") THEN EndAt(page[p], "succeeded")
             ELSE Threw(page[p])]

\* The server dies: no page that waits gets its answer.
Unplugged ==
  page' = [p \in Pages |-> IF page[p].call = NoRequest THEN page[p] ELSE Threw(page[p])]

-----------------------------------------------------------------------------
FlowInit == Init /\ page = [p \in Pages |-> Away]

Serve(r) == Step(r) /\ Hear(r)

Ask(p) == Send(p) \/ BeRefused(p) \/ Lookup(p)

FlowNext ==
  \/ \E p \in Pages, u \in Uuids, kind \in Kinds : Land(p, u, kind)
  \/ \E p \in Pages : Ask(p) \/ LoseAnswer(p)
  \/ \E r \in Requests : Serve(r)
  \/ Crash /\ Unplugged
  \/ /\ \/ \E u \in Uuids : PayAtGateway(u) \/ Webhook(u)
        \/ \E i \in RowIds, status \in SetStatuses : UpdateStatus(i, status)
        \/ RemoveLoan
     /\ UNCHANGED page

\* An open page goes on, and so does a handler; nothing makes a borrower pay,
\* a gateway report, or a connection break.
FlowSpec ==
  /\ FlowInit /\ [][FlowNext]_allVars
  /\ \A p \in Pages : WF_allVars(Ask(p))
  /\ \A r \in Requests : WF_allVars(Serve(r))

-----------------------------------------------------------------------------
\* A page shows success only for a payment that has a transaction, unless the
\* loan was removed, whichever of its loops ended and whatever was lost
\* (PaymentSuccess.tsx:81-133, 135-207, callback.tsx:72-160).
SuccessIsRecorded ==
  balance.open =>
    \A p \in Pages : page[p].phase = "succeeded" => Found(page[p].uuid) # {}

\* Every page stops asking, although the gateway may never report, answers get
\* lost, and one loop leads into another; a native page may stop on its
\* processing screen, when the loop its catch block starts throws again
\* (useEsewaPayment.ts:105-163, PaymentSuccess.tsx:81-133,
\* make-repayment.tsx:178-180).
PagesEnd ==
  \A p \in Pages : page[p].phase \notin Ended ~> page[p].phase \in Ended

(* A statement of the repository that the code does not keep.              *)

\* "Your gateway payment has been verified and the selected installments were
\* updated." (PaymentSuccess.tsx:287-288), once no handler is running.
SuccessPageIsTrue ==
  balance.open /\ (\A r \in Requests : At(r, "idle")) =>
    \A p \in Pages :
      page[p].kind = "web" /\ page[p].phase = "succeeded" =>
        \A s \in Selection[page[p].uuid] : sched[s].paid > 0
=============================================================================
