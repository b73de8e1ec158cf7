--------------------------- MODULE PaymentFlowProofs ---------------------------
(***************************************************************************)
(* For any number of pages, handlers and payments: under the pages, the    *)
(* server does nothing but the steps of Repayments, so that what is proved *)
(* there holds here; and a page that shows success has a transaction.      *)
(***************************************************************************)
EXTENDS PaymentFlow, RepaymentsProofs

-----------------------------------------------------------------------------
(* Types of the pages.                                                     *)

Phases == Ended \union Asking \union Looking

\* Where a loop that runs out of attempts may lead: never to success.
Exits == {"failed", "stuck", "recover", "again"}

PageRecords ==
  [kind: Kinds, uuid: Uuids \union {NoUuid}, phase: Phases, tries: Nat, onSpent: Exits,
   call: Requests \union {NoRequest}]

\* A page that is open has a payment.
PageOK(pg) == pg \in PageRecords /\ (pg.phase # "away" => pg.uuid \in Uuids)

PagesTyped == page \in [Pages -> PageRecords] /\ \A p \in Pages : PageOK(page[p])

LEMMA PageType ==
  ASSUME PagesTyped, NEW p \in Pages
  PROVE  /\ page[p] \in PageRecords /\ PageOK(page[p])
         /\ page[p].call \in Requests \union {NoRequest}
         /\ page[p].phase \in Phases
BY DEF PagesTyped, PageRecords

LEMMA AwayOK == PageOK(Away)
BY DEF PageOK, Away, PageRecords, Kinds, Phases, Ended, Exits

\* What follows an answer that is no success keeps the payment, waits for
\* nothing and is not the success screen.
Onward(pg, next) ==
  /\ PageOK(next) /\ next.uuid = pg.uuid
  /\ next.call = NoRequest /\ next.phase # "succeeded"

Open(pg) == PageOK(pg) /\ pg.phase # "away"

LEMMA EndOnward ==
  ASSUME NEW pg, Open(pg), NEW phase \in {"failed", "stuck"}
  PROVE  Onward(pg, EndAt(pg, phase))
BY DEF Open, Onward, PageOK, PageRecords, EndAt, Phases, Ended

LEMMA LoopOnward ==
  ASSUME NEW pg, Open(pg), NEW phase \in Looking, NEW onSpent \in Exits
  PROVE  Onward(pg, Loop(pg, phase, onSpent))
BY DEF Open, Onward, PageOK, PageRecords, Loop, Phases, Ended, Looking

LEMMA SpentOnward ==
  ASSUME NEW pg, Open(pg) PROVE Onward(pg, Spent(pg))
<1>1. pg.onSpent \in Exits
  BY DEF Open, PageOK, PageRecords
<1>2. CASE pg.onSpent = "recover"
  BY <1>2, LoopOnward DEF Spent, Recover, Looking, Exits
<1>3. CASE pg.onSpent = "again"
  BY <1>3, LoopOnward DEF Spent, Looking, Exits
<1>4. CASE pg.onSpent \in {"failed", "stuck"}
  BY <1>4, EndOnward DEF Spent
<1> QED BY <1>1, <1>2, <1>3, <1>4 DEF Exits

LEMMA TryOnward ==
  ASSUME NEW pg, Open(pg) PROVE Onward(pg, NextTry(pg))
<1>1. CASE ~(pg.tries + 1 < MaxTries)
  BY <1>1, SpentOnward DEF NextTry
<1>2. CASE pg.tries + 1 < MaxTries
  <2> DEFINE phase == LoopOf(pg)
             tries == pg.tries + 1
  <2>1. phase \in Looking /\ tries \in Nat
    BY DEF LoopOf, Looking, Open, PageOK, PageRecords
  <2>2. NextTry(pg) = [pg EXCEPT !.phase = phase, !.tries = tries, !.call = NoRequest]
    BY <1>2 DEF NextTry
  <2> HIDE DEF phase, tries
  <2>3. [pg EXCEPT !.phase = phase, !.tries = tries, !.call = NoRequest] \in PageRecords
    BY <2>1 DEF Open, PageOK, PageRecords, Phases
  <2>4. phase # "succeeded"
    BY <2>1 DEF Looking
  <2> QED BY <2>2, <2>3, <2>4 DEF Open, Onward, PageOK, PageRecords
<1> QED BY <1>1, <1>2

LEMMA RefusedOnward ==
  ASSUME NEW pg, Open(pg) PROVE Onward(pg, Refused(pg))
BY LoopOnward DEF Refused, Recover, Looking, Exits

LEMMA ThrewOnward ==
  ASSUME NEW pg, Open(pg) PROVE Onward(pg, Threw(pg))
BY TryOnward, LoopOnward, EndOnward DEF Threw, Looking, Exits

LEMMA LookupOnward ==
  ASSUME NEW pg, Open(pg)
  PROVE  Onward(pg, LookupThrew(pg)) /\ Onward(pg, LookupRefused(pg))
<1>1. Onward(pg, LookupThrew(pg))
  BY TryOnward, EndOnward DEF LookupThrew
<1>2. Onward(pg, LookupRefused(pg))
  BY LoopOnward, EndOnward DEF LookupRefused, Recover, Looking, Exits
<1> QED BY <1>1, <1>2

-----------------------------------------------------------------------------
(* A page that waits, waits for the handler of its own payment.            *)

Waits(p) ==
  page[p].call # NoRequest =>
    page[p].phase \in Asking /\ ~At(page[p].call, "idle") /\ req[page[p].call].uuid = page[p].uuid

FlowTyped == PagesTyped /\ \A p \in Pages : Waits(p)

\* One page goes on.
LEMMA OnePage ==
  ASSUME FlowTyped, NEW p \in Pages, NEW pg, PageOK(pg), pg.call = NoRequest,
         page' = [page EXCEPT ![p] = pg], req' = req
  PROVE  FlowTyped'
<1>1. PagesTyped'
  BY DEF FlowTyped, PagesTyped, PageOK
<1>2. ASSUME NEW x \in Pages PROVE Waits(x)'
  BY DEF FlowTyped, PagesTyped, Waits, At
<1> QED BY <1>1, <1>2 DEF FlowTyped

\* The steps of the flow are steps of the server.
LEMMA FlowStep == Typed /\ FlowTyped /\ [FlowNext]_allVars => [Next]_vars
<1> SUFFICES ASSUME Typed, FlowTyped, [FlowNext]_allVars PROVE [Next]_vars
  OBVIOUS
<1>1. ASSUME NEW p \in Pages, Send(p) PROVE Next
  <2>1. PICK r \in Requests : Verify(r, page[p].uuid, page[p].phase # "recoverVerify")
    BY <1>1 DEF Send
  <2>2. page[p].uuid \in Uuids
    BY <2>1 DEF Verify, Typed, Past
  <2> DEFINE linked == page[p].phase # "recoverVerify"
  <2>3. linked \in BOOLEAN
    OBVIOUS
  <2> QED BY <2>1, <2>2, <2>3 DEF Next
<1>2. ASSUME NEW p \in Pages, Ask(p) \/ LoseAnswer(p) PROVE [Next]_vars
  BY <1>1, <1>2 DEF Ask, BeRefused, Lookup, LoseAnswer
<1>3. ASSUME NEW p \in Pages, NEW u \in Uuids, NEW kind \in Kinds, Land(p, u, kind)
      PROVE  UNCHANGED vars
  BY <1>3 DEF Land
<1>4. ASSUME NEW r \in Requests, Serve(r) PROVE Next
  BY <1>4 DEF Serve, Next
<1>5. CASE UNCHANGED allVars
  BY <1>5 DEF allVars
<1>6. CASE Crash /\ Unplugged
  BY <1>6 DEF Next
<1>7. CASE \/ \E u \in Uuids : PayAtGateway(u) \/ Webhook(u)
           \/ \E i \in RowIds, status \in SetStatuses : UpdateStatus(i, status)
           \/ RemoveLoan
  BY <1>7 DEF Next
<1> QED BY <1>2, <1>3, <1>4, <1>5, <1>6, <1>7 DEF FlowNext

\* A handler that goes on has its payment still.
LEMMA StepOfOne ==
  ASSUME Typed, NEW r \in Requests, Step(r)
  PROVE  /\ req' \in [Requests -> RequestRecords]
         /\ \A x \in Requests \ {r} : req'[x] = req[x]
         /\ req'[r] = Idle \/ (req'[r].uuid = req[r].uuid /\ req'[r].pc # "idle")
<1>1. \A x \in Requests \ {r} : req'[x] = req[x]
  BY OthersStay DEF Typed
<1>2. req' \in [Requests -> RequestRecords]
  BY NextTyped DEF Next, Typed, Slots
<1>3. req'[r] = Idle \/ (req'[r].uuid = req[r].uuid /\ req'[r].pc # "idle")
  <2>1. CASE LookUp(r)
    BY <2>1 DEF LookUp, AfterLookUp, Goto, Typed, Slots, RequestRecords
  <2>2. CASE RecordPayment(r)
    BY <2>2 DEF RecordPayment, AfterRecord, Goto, Typed, Slots, RequestRecords
  <2>3. CASE ApplyToBalance(r) \/ WriteSchedule(r)
    BY <2>3 DEF ApplyToBalance, WriteSchedule, Goto, Finish, Typed, Slots, RequestRecords
  <2>4. CASE ReadSchedule(r)
    BY <2>4 DEF ReadSchedule, Goto, Typed, Slots, RequestRecords
  <2>5. CASE Deny(r) \/ RecordFails(r) \/ Answer(r)
    BY <2>5 DEF Deny, RecordFails, Answer, Finish, Typed, Slots
  <2> QED BY <2>1, <2>2, <2>3, <2>4, <2>5 DEF Step
<1> QED BY <1>1, <1>2, <1>3

\* What a page is after a step of a handler: itself, succeeded or gone on.
LEMMA HearPage ==
  ASSUME Typed, FlowTyped, NEW r \in Requests, Serve(r), NEW p \in Pages
  PROVE  \/ page'[p] = page[p] /\ (page[p].call # r \/ req'[r] # Idle)
         \/ /\ page[p].call = r /\ At(r, "answer")
            /\ page'[p] = EndAt(page[p], "succeeded") /\ PageOK(page'[p])
            /\ page'[p].phase = "succeeded" /\ page'[p].uuid = page[p].uuid
            /\ page'[p].call = NoRequest
         \/ Onward(page[p], page'[p])
<1>1. page'[p] = IF page[p].call # r \/ req'[r] # Idle THEN page[p]
                 ELSE IF At(r, "answer") THEN EndAt(page[p], "succeeded")
                 ELSE Threw(page[p])
  BY DEF Serve, Hear
<1>2. CASE page[p].call = r /\ req'[r] = Idle
  <2>1. Open(page[p])
    BY <1>2, PageType, PaymentFlowAssumption DEF FlowTyped, Waits, Open, Asking
  <2>2. CASE At(r, "answer")
    <3>1. page'[p] = EndAt(page[p], "succeeded")
      BY <1>1, <1>2, <2>2
    <3>2. /\ EndAt(page[p], "succeeded") \in PageRecords
          /\ EndAt(page[p], "succeeded").uuid = page[p].uuid
          /\ EndAt(page[p], "succeeded").phase = "succeeded"
          /\ EndAt(page[p], "succeeded").call = NoRequest
      BY <2>1 DEF Open, PageOK, PageRecords, EndAt, Phases, Ended
    <3> QED BY <1>2, <2>1, <2>2, <3>1, <3>2 DEF Open, PageOK
  <2>3. CASE ~At(r, "answer")
    BY <1>1, <1>2, <2>1, <2>3, ThrewOnward
  <2> QED BY <2>2, <2>3
<1> QED BY <1>1, <1>2

LEMMA ServeTyped ==
  ASSUME Typed, FlowTyped, NEW r \in Requests, Serve(r) PROVE FlowTyped'
<1>1. page' = [p \in Pages |-> page'[p]]
  BY DEF Serve, Hear
<1>2. ASSUME NEW p \in Pages PROVE PageOK(page'[p])
  BY HearPage, PageType DEF FlowTyped, Onward
<1>3. PagesTyped'
  BY <1>1, <1>2 DEF PagesTyped, PageOK
<1>4. ASSUME NEW p \in Pages PROVE Waits(p)'
  <2>1. CASE page'[p].call = NoRequest
    BY <2>1 DEF Waits
  <2>2. CASE page'[p] = page[p] /\ (page[p].call # r \/ req'[r] # Idle)
    BY <2>2, StepOfOne, PageType DEF Serve, FlowTyped, Waits, At
  <2> QED BY <2>1, <2>2, HearPage DEF Onward
<1> QED BY <1>3, <1>4 DEF FlowTyped

LEMMA UnpluggedTyped ==
  ASSUME Typed, FlowTyped, Crash, Unplugged
  PROVE  /\ FlowTyped'
         /\ \A p \in Pages : page'[p] = page[p] \/ Onward(page[p], page'[p])
<1>1. ASSUME NEW p \in Pages
      PROVE  /\ page'[p] = page[p] \/ Onward(page[p], page'[p])
             /\ PageOK(page'[p]) /\ page'[p].call = NoRequest
  <2>1. CASE page[p].call = NoRequest
    BY <2>1, PageType DEF FlowTyped, Unplugged
  <2>2. CASE page[p].call # NoRequest
    <3>1. Open(page[p])
      BY <2>2, PageType DEF FlowTyped, Waits, Open, Asking
    <3> QED BY <2>2, <3>1, ThrewOnward DEF Unplugged, Onward
  <2> QED BY <2>1, <2>2
<1>2. page' = [p \in Pages |-> page'[p]]
  BY DEF Unplugged
<1>3. PagesTyped'
  BY <1>1, <1>2 DEF PagesTyped, PageOK
<1> QED BY <1>1, <1>3 DEF FlowTyped, Waits

LEMMA AskTyped ==
  ASSUME Typed, FlowTyped, NEW p \in Pages, Send(p) PROVE FlowTyped'
<1>1. PICK r \in Requests : /\ Verify(r, page[p].uuid, page[p].phase # "recoverVerify")
                            /\ page' = [page EXCEPT ![p].call = r]
  BY DEF Send
<1> DEFINE pg == [page[p] EXCEPT !.call = r]
<1>2. pg \in PageRecords /\ pg.call = r /\ pg.uuid = page[p].uuid /\ pg.phase = page[p].phase
  BY PageType DEF FlowTyped, PageRecords
<1>3. page' = [page EXCEPT ![p] = pg]
  BY <1>1 DEF FlowTyped, PagesTyped
<1>4. At(r, "idle") /\ req'[r].uuid = page[p].uuid /\ req'[r].pc = "lookUp"
      /\ \A x \in Requests \ {r} : req'[x] = req[x]
  BY <1>1 DEF Verify, Typed, Slots
<1> HIDE DEF pg
<1>5. PagesTyped'
  BY <1>2, <1>3, PageType DEF FlowTyped, PagesTyped, PageOK
<1>6. ASSUME NEW x \in Pages \ {p} PROVE Waits(x)'
  <2>1. page'[x] = page[x]
    BY <1>3 DEF FlowTyped, PagesTyped
  <2>2. page[x].call # NoRequest => page[x].call \in Requests \ {r}
    BY <1>4, PageType DEF FlowTyped, Waits
  <2> QED BY <1>4, <2>1, <2>2 DEF FlowTyped, Waits, At
<1>7. Waits(p)'
  <2>1. page'[p] = pg
    BY <1>3 DEF FlowTyped, PagesTyped
  <2> QED BY <1>2, <1>4, <2>1 DEF Send, Waits, At
<1> QED BY <1>5, <1>6, <1>7 DEF FlowTyped

\* What a page is after a step in which it does not ask for a verification.
LEMMA LookupPage ==
  ASSUME Typed, FlowTyped, NEW p \in Pages, BeRefused(p) \/ Lookup(p) \/ LoseAnswer(p)
  PROVE  \E pg : /\ page' = [page EXCEPT ![p] = pg] /\ pg.uuid = page[p].uuid
                 /\ PageOK(pg) /\ pg.call = NoRequest /\ req' = req
                 /\ pg.phase = "succeeded" => Processed(page[p].uuid)
<1>1. Open(page[p])
  BY PageType DEF FlowTyped, Waits, Open, BeRefused, Lookup, LoseAnswer, Asking, Looking
<1>2. req' = req
  BY DEF BeRefused, Lookup, LoseAnswer, vars
<1>3. ASSUME NEW pg, Onward(page[p], pg), page' = [page EXCEPT ![p] = pg]
      PROVE  \E g : /\ page' = [page EXCEPT ![p] = g] /\ g.uuid = page[p].uuid
                    /\ PageOK(g) /\ g.call = NoRequest /\ req' = req
                    /\ g.phase = "succeeded" => Processed(page[p].uuid)
  BY <1>2, <1>3 DEF Onward
<1>4. CASE BeRefused(p)
  BY <1>1, <1>3, <1>4, RefusedOnward DEF BeRefused
<1>5. CASE LoseAnswer(p)
  BY <1>1, <1>3, <1>5, ThrewOnward DEF LoseAnswer
<1>6. CASE Lookup(p)
  <2>1. page[p].call = NoRequest
    BY <1>6, PageType DEF Lookup, FlowTyped, Waits, Looking, Asking
  <2>2. \/ page' = [page EXCEPT ![p] = NextTry(page[p])]
        \/ page' = [page EXCEPT ![p] = LookupRefused(page[p])]
        \/ page' = [page EXCEPT ![p] = LookupThrew(page[p])]
        \/ /\ Processed(page[p].uuid)
           /\ page' = [page EXCEPT ![p] = EndAt(page[p], "succeeded")]
        \/ page' = [page EXCEPT ![p] =
             [page[p] EXCEPT !.phase = IF @ = "poll" THEN "pollVerify" ELSE "recoverVerify"]]
    BY <1>6 DEF Lookup
  <2>3. CASE \/ page' = [page EXCEPT ![p] = NextTry(page[p])]
             \/ page' = [page EXCEPT ![p] = LookupRefused(page[p])]
             \/ page' = [page EXCEPT ![p] = LookupThrew(page[p])]
    BY <1>1, <1>3, <2>3, TryOnward, LookupOnward
  <2>4. CASE /\ Processed(page[p].uuid)
             /\ page' = [page EXCEPT ![p] = EndAt(page[p], "succeeded")]
    <3>1. /\ EndAt(page[p], "succeeded") \in PageRecords
          /\ EndAt(page[p], "succeeded").uuid = page[p].uuid
          /\ EndAt(page[p], "succeeded").phase = "succeeded"
          /\ EndAt(page[p], "succeeded").call = NoRequest
      BY <1>1 DEF Open, PageOK, PageRecords, EndAt, Phases, Ended
    <3>2. PageOK(EndAt(page[p], "succeeded"))
      BY <1>1, <3>1 DEF Open, PageOK
    <3> QED BY <1>2, <2>4, <3>1, <3>2
  <2>5. ASSUME NEW phase \in {"pollVerify", "recoverVerify"},
               page' = [page EXCEPT ![p] = [page[p] EXCEPT !.phase = phase]]
        PROVE  \E g : /\ page' = [page EXCEPT ![p] = g] /\ g.uuid = page[p].uuid
                      /\ PageOK(g) /\ g.call = NoRequest /\ req' = req
                      /\ g.phase = "succeeded" => Processed(page[p].uuid)
    <3> DEFINE g == [page[p] EXCEPT !.phase = phase]
    <3>1. /\ g \in PageRecords /\ g.uuid = page[p].uuid /\ g.phase = phase
          /\ g.call = page[p].call
      BY <1>1 DEF Open, PageOK, PageRecords, Phases, Asking
    <3>2. page' = [page EXCEPT ![p] = g]
      BY <2>5
    <3> HIDE DEF g
    <3>3. PageOK(g)
      BY <1>1, <3>1 DEF Open, PageOK
    <3> QED BY <1>2, <2>1, <3>1, <3>2, <3>3
  <2> QED BY <2>2, <2>3, <2>4, <2>5
<1> QED BY <1>4, <1>5, <1>6

LEMMA LandTyped ==
  ASSUME FlowTyped, NEW p \in Pages, NEW u \in Uuids, NEW kind \in Kinds, Land(p, u, kind)
  PROVE  FlowTyped' /\ page'[p].phase # "succeeded"
         /\ \A x \in Pages \ {p} : page'[x] = page[x]
<1>1. PICK phase \in Landings(kind) :
        page' = [page EXCEPT ![p] =
                  [kind |-> kind, uuid |-> u, phase |-> phase, tries |-> 0,
                   onSpent |-> IF kind = "web" /\ phase = "poll" THEN "recover" ELSE "failed",
                   call |-> NoRequest]]
  BY DEF Land
<1>2. phase \in {"verify", "poll", "recover"}
  BY DEF Landings, Kinds
<1>3. PICK onSpent \in {"recover", "failed"} :
        page' = [page EXCEPT ![p] =
                  [kind |-> kind, uuid |-> u, phase |-> phase, tries |-> 0,
                   onSpent |-> onSpent, call |-> NoRequest]]
  BY <1>1
<1> DEFINE pg == [kind |-> kind, uuid |-> u, phase |-> phase, tries |-> 0,
                  onSpent |-> onSpent, call |-> NoRequest]
<1>4. PageOK(pg) /\ pg.call = NoRequest /\ pg.phase = phase
  BY <1>2 DEF PageOK, PageRecords, Phases, Asking, Looking, Exits
<1>5. page' = [page EXCEPT ![p] = pg] /\ req' = req
  BY <1>3 DEF Land, vars
<1> HIDE DEF pg
<1>6. FlowTyped'
  BY <1>4, <1>5, OnePage
<1> QED BY <1>2, <1>4, <1>5, <1>6 DEF FlowTyped, PagesTyped

LEMMA FlowStaysTyped == Typed /\ FlowTyped /\ [FlowNext]_allVars => FlowTyped'
<1> SUFFICES ASSUME Typed, FlowTyped, [FlowNext]_allVars PROVE FlowTyped'
  OBVIOUS
<1>1. ASSUME NEW p \in Pages, Ask(p) \/ LoseAnswer(p) PROVE FlowTyped'
  BY <1>1, AskTyped, LookupPage, OnePage DEF Ask
<1>2. CASE req' = req /\ page' = page
  BY <1>2 DEF FlowTyped, PagesTyped, Waits, At
<1>3. CASE UNCHANGED allVars
  BY <1>2, <1>3 DEF allVars, vars
<1>4. CASE /\ \/ \E u \in Uuids : PayAtGateway(u) \/ Webhook(u)
              \/ \E i \in RowIds, status \in SetStatuses : UpdateStatus(i, status)
              \/ RemoveLoan
           /\ UNCHANGED page
  BY <1>2, <1>4 DEF PayAtGateway, Webhook, UpdateStatus, RemoveLoan
<1> QED BY <1>1, <1>3, <1>4, LandTyped, ServeTyped, UnpluggedTyped DEF FlowNext

LEMMA FlowStarts == FlowInit => Init /\ FlowTyped
BY AwayOK DEF FlowInit, FlowTyped, PagesTyped, PageOK, Waits, Away

LEMMA AlwaysFlowTyped == FlowSpec => [](Typed /\ FlowTyped)
<1>1. FlowInit => Typed /\ FlowTyped
  BY FlowStarts, InitTyped
<1>2. Typed /\ FlowTyped /\ [FlowNext]_allVars => (Typed /\ FlowTyped)'
  BY FlowStep, NextTyped, FlowStaysTyped
<1> QED BY <1>1, <1>2, PTL DEF FlowSpec

\* For every set of pages, handlers and payments: with the pages on top, the
\* server takes no step that it does not take in Repayments, so that every
\* theorem about Repayments holds of the system with its clients.
THEOREM FlowKeepsServer == FlowSpec => Spec
<1>1. Typed /\ FlowTyped /\ [FlowNext]_allVars => [Next]_vars
  BY FlowStep
<1>2. FlowInit => Init
  BY FlowStarts
<1> QED BY <1>1, <1>2, AlwaysFlowTyped, PTL DEF FlowSpec, Spec

-----------------------------------------------------------------------------
(* The success screen.                                                     *)

LEMMA FlowStillRecorded ==
  Typed /\ FlowTyped /\ RowsKept /\ SuccessIsRecorded /\ [FlowNext]_allVars
    => SuccessIsRecorded'
<1> SUFFICES ASSUME Typed, FlowTyped, RowsKept, SuccessIsRecorded, [FlowNext]_allVars,
                    balance'.open, NEW p \in Pages, page'[p].phase = "succeeded",
                    NEW u, u = page'[p].uuid
             PROVE  Found(u)' # {}
  BY DEF SuccessIsRecorded
<1>1. [Next]_vars /\ balance.open
  BY FlowStep, OnceRemoved
<1>2. u \in Uuids
  BY FlowStaysTyped DEF FlowTyped, PagesTyped, PageOK
<1>3. Found(u) # {} => Found(u)' # {}
  BY <1>1, <1>2, FoundStays
<1>4. CASE page'[p] = page[p]
  BY <1>1, <1>3, <1>4 DEF SuccessIsRecorded
<1>5. ASSUME NEW x \in Pages, BeRefused(x) \/ Lookup(x) \/ LoseAnswer(x) PROVE Found(u)' # {}
  <2>1. PICK pg : /\ page' = [page EXCEPT ![x] = pg] /\ pg.uuid = page[x].uuid
                  /\ pg.phase = "succeeded" => Processed(page[x].uuid)
    BY <1>5, LookupPage
  <2>2. CASE x # p
    BY <1>4, <2>1, <2>2 DEF FlowTyped, PagesTyped
  <2>3. CASE x = p
    BY <1>3, <2>1, <2>3 DEF FlowTyped, PagesTyped, Processed
  <2> QED BY <2>2, <2>3
<1>6. ASSUME NEW x \in Pages, Send(x) PROVE Found(u)' # {}
  <2>1. page'[p].phase = page[p].phase /\ page'[p].uuid = page[p].uuid
    BY <1>6 DEF Send, FlowTyped, PagesTyped, PageRecords
  <2> QED BY <1>1, <1>3, <2>1 DEF SuccessIsRecorded
<1>7. ASSUME NEW r \in Requests, Serve(r) PROVE Found(u)' # {}
  <2>1. CASE page[p].call = r /\ At(r, "answer") /\ page'[p].uuid = page[p].uuid
    <3>1. req[r].uuid = u /\ req[r].pc \in HasRecorded
      BY <2>1, PaymentFlowAssumption DEF FlowTyped, Waits, At, HasRecorded
    <3> QED BY <1>1, <1>2, <1>3, <3>1 DEF RowsKept, Answered
  <2> QED BY <1>4, <1>7, <2>1, HearPage DEF Onward
<1>8. CASE Crash /\ Unplugged
  BY <1>4, <1>8, UnpluggedTyped DEF Onward
<1>9. ASSUME NEW x \in Pages, NEW v \in Uuids, NEW kind \in Kinds, Land(x, v, kind)
      PROVE  Found(u)' # {}
  BY <1>4, <1>9, LandTyped
<1> QED BY <1>4, <1>5, <1>6, <1>7, <1>8, <1>9 DEF FlowNext, Ask, allVars

\* For every set of pages and payments and any number of attempts: a page that
\* shows success is about a payment that has a transaction as long as the loan
\* is there, whichever of its loops ended and whichever answers were lost.
THEOREM SuccessIsRecordedHolds == FlowSpec => []SuccessIsRecorded
<1>1. FlowInit => SuccessIsRecorded
  BY DEF FlowInit, SuccessIsRecorded, Away
<1>2. Typed /\ FlowTyped /\ RowsKept /\ SuccessIsRecorded /\ [FlowNext]_allVars
        => SuccessIsRecorded'
  BY FlowStillRecorded
<1> QED BY <1>1, <1>2, AlwaysFlowTyped, FlowKeepsServer, AlwaysKept, PTL DEF FlowSpec
===============================================================================
