-------------------------- MODULE LedgerWorkspaceProofs ------------------------
(***************************************************************************)
(* What LedgerWorkspace promises of the sections of a ledger, for any      *)
(* ledgers, periods, lists and trees.                                      *)
(*                                                                         *)
(* Each section has an invariant of its page and its saved view states;    *)
(* its lemmas say that a page that is opened or that gets another ledger   *)
(* satisfies it, and that each step of the page keeps it.  The router and  *)
(* the layout come last.                                                   *)
(***************************************************************************)
EXTENDS LedgerWorkspace, TLAPS

--------------------------------------------------------------------------------
(* The accounts or the currencies *)

\* A list that is under way was asked for after the last change, and the
\* changes under way are among those that the bound allows.
EntityGood(p, l) ==
  /\ p \in Entities!Pages
  /\ p.loading <=> p.request # None
  /\ p.deletingBusy <=> p.deleteRequest # None
  /\ p.deleting \in {None, l}
  /\ p.request # None => p.request.ledger = l /\ p.request.fresh = p.changes
  /\ p.request = None /\ ~ p.error =>
       p.items # None /\ p.items.ledger = l /\ p.items.fresh = p.changes
  /\ p.changes + (IF p.deleteRequest = None THEN 0 ELSE 1) + (IF p.editor = "saving" THEN 1 ELSE 0) <= 2

EntityInv ==
  /\ saved \in [Ledgers -> Texts \cup {None}]
  /\ page # None => /\ ledger \in Ledgers /\ EntityGood(page, ledger)
                    /\ saved[ledger] # None => saved[ledger] = page.search

LEMMA EntityLoad ==
  ASSUME NEW p \in Entities!Pages, NEW l \in Ledgers
  PROVE  LET n == Entities!Load(p, l) IN
         /\ n \in Entities!Pages
         /\ n.request = [ledger |-> l, fresh |-> p.changes] /\ n.request # None
         /\ n.loading /\ ~ n.error
         /\ n.search = p.search /\ n.items = p.items /\ n.editor = p.editor /\ n.deleting = p.deleting
         /\ n.deletingBusy = p.deletingBusy /\ n.deleteRequest = p.deleteRequest /\ n.changes = p.changes
<1> DEFINE r == [ledger |-> l, fresh |-> p.changes]
<1>1. r \in Entities!Requests
  BY DEF Entities!Pages, Entities!Requests
<1>2. r # None
  BY <1>1, NoneAssumption
<1> HIDE DEF r
<1> QED BY <1>1, <1>2 DEF Entities!Load, Entities!Pages, r

\* The page of ledger l that is opened, or that was another ledger's.
LEMMA EntityOpened ==
  ASSUME EntityInv, NEW l \in Ledgers
  PROVE  LET n == Entities!Opened(l) IN EntityGood(n, l) /\ (saved[l] # None => saved[l] = n.search)
<1> DEFINE p == [search |-> Entities!Restored(l), items |-> None, request |-> None, loading |-> FALSE,
                 error |-> FALSE, editor |-> "closed", deleting |-> None, deletingBusy |-> FALSE,
                 deleteRequest |-> None, changes |-> 0]
<1>1. p \in Entities!Pages
  BY WorkspaceAssumption DEF EntityInv, Entities!Pages, Entities!Restored
<1>2. /\ p.search = Entities!Restored(l) /\ p.items = None /\ p.editor = "closed" /\ p.deleting = None
      /\ ~ p.deletingBusy /\ p.deleteRequest = None /\ p.changes = 0
  OBVIOUS
<1>3. Entities!Opened(l) = Entities!Load(p, l)
  BY DEF Entities!Opened
<1>4. saved[l] # None => saved[l] = Entities!Restored(l)
  BY DEF Entities!Restored
<1> HIDE DEF p
<1> PICK n \in Entities!Pages : n = Entities!Load(p, l)
  BY <1>1, EntityLoad
<1>5. /\ n.request = [ledger |-> l, fresh |-> p.changes] /\ n.request # None
      /\ n.loading /\ ~ n.error
      /\ n.search = p.search /\ n.items = p.items /\ n.editor = p.editor /\ n.deleting = p.deleting
      /\ n.deletingBusy = p.deletingBusy /\ n.deleteRequest = p.deleteRequest /\ n.changes = p.changes
  BY <1>1, EntityLoad
<1>6. n.request.ledger = l /\ n.request.fresh = n.changes
  BY <1>5
<1>7. n.changes + (IF n.deleteRequest = None THEN 0 ELSE 1) + (IF n.editor = "saving" THEN 1 ELSE 0) <= 2
  BY <1>2, <1>5
<1>8. n.deletingBusy <=> n.deleteRequest # None
  BY <1>2, <1>5
<1>9. n.deleting \in {None, l}
  BY <1>2, <1>5
<1>10. EntityGood(n, l)
  BY <1>5, <1>6, <1>7, <1>8, <1>9 DEF EntityGood
<1> QED BY <1>2, <1>3, <1>4, <1>5, <1>10

LEMMA EntitySwitched ==
  ASSUME EntityInv, page # None, NEW l \in Ledgers
  PROVE  LET n == Entities!Switched(l) IN EntityGood(n, l) /\ (saved[l] # None => saved[l] = n.search)
<1> DEFINE p == [page EXCEPT !.search = Entities!Restored(l), !.editor = "closed", !.deleting = None]
<1>1. page \in Entities!Pages /\ EntityGood(page, ledger)
  BY DEF EntityInv, EntityGood
<1>2. Entities!Restored(l) \in Texts /\ (saved[l] # None => saved[l] = Entities!Restored(l))
  BY WorkspaceAssumption DEF EntityInv, Entities!Restored
<1>3. /\ p \in Entities!Pages
      /\ p.search = Entities!Restored(l) /\ p.editor = "closed" /\ p.deleting = None
      /\ p.deletingBusy = page.deletingBusy /\ p.deleteRequest = page.deleteRequest /\ p.changes = page.changes
  BY <1>1, <1>2 DEF Entities!Pages
<1>4. page.changes + (IF page.deleteRequest = None THEN 0 ELSE 1) <= 2
  BY <1>1 DEF EntityGood, Entities!Pages
<1>5. Entities!Switched(l) = Entities!Load(p, l)
  BY DEF Entities!Switched
<1> HIDE DEF p
<1> PICK n \in Entities!Pages : n = Entities!Load(p, l)
  BY <1>3, EntityLoad
<1>6. /\ n.request = [ledger |-> l, fresh |-> p.changes] /\ n.request # None
      /\ n.loading /\ ~ n.error
      /\ n.search = p.search /\ n.items = p.items /\ n.editor = p.editor /\ n.deleting = p.deleting
      /\ n.deletingBusy = p.deletingBusy /\ n.deleteRequest = p.deleteRequest /\ n.changes = p.changes
  BY <1>3, EntityLoad
<1>7. n.request.ledger = l /\ n.request.fresh = n.changes
  BY <1>6
<1>8. n.changes + (IF n.deleteRequest = None THEN 0 ELSE 1) + (IF n.editor = "saving" THEN 1 ELSE 0) <= 2
  <2>1. n.changes \in Nat
    BY DEF Entities!Pages
  <2>2. n.changes + (IF n.deleteRequest = None THEN 0 ELSE 1) <= 2
    BY <1>3, <1>4, <1>6
  <2>3. n.editor # "saving"
    BY <1>3, <1>6
  <2> QED BY <2>1, <2>2, <2>3
<1>9. n.deletingBusy <=> n.deleteRequest # None
  BY <1>1, <1>3, <1>6 DEF EntityGood
<1>10. n.deleting \in {None, l}
  BY <1>3, <1>6
<1>11. EntityGood(n, l)
  BY <1>6, <1>7, <1>8, <1>9, <1>10 DEF EntityGood
<1> QED BY <1>2, <1>3, <1>5, <1>6, <1>11

\* A change that has been made is followed by a load.
LEMMA EntityChanged ==
  ASSUME EntityInv, page # None, NEW p \in Entities!Pages,
         p.search = page.search, p.deletingBusy <=> p.deleteRequest # None, p.deleting \in {None, ledger},
         p.changes + 1 + (IF p.deleteRequest = None THEN 0 ELSE 1) + (IF p.editor = "saving" THEN 1 ELSE 0) <= 2
  PROVE  EntityGood(Entities!Changed(p), ledger) /\ Entities!Changed(p).search = page.search
<1> DEFINE q == [p EXCEPT !.changes = @ + 1]
<1>1. p.changes \in 0..2
  BY DEF Entities!Pages
<1>2. p.changes + 1 <= 2
  BY <1>1
<1>3. /\ q \in Entities!Pages /\ q.changes = p.changes + 1
      /\ q.search = p.search /\ q.editor = p.editor /\ q.deleting = p.deleting
      /\ q.deletingBusy = p.deletingBusy /\ q.deleteRequest = p.deleteRequest
  BY <1>1, <1>2 DEF Entities!Pages
<1>4. Entities!Changed(p) = Entities!Load(q, ledger)
  BY DEF Entities!Changed
<1>5. ledger \in Ledgers
  BY DEF EntityInv
<1> HIDE DEF q
<1> PICK n \in Entities!Pages : n = Entities!Load(q, ledger)
  BY <1>3, <1>5, EntityLoad
<1>6. /\ n.request = [ledger |-> ledger, fresh |-> q.changes] /\ n.request # None
      /\ n.loading /\ ~ n.error
      /\ n.search = q.search /\ n.items = q.items /\ n.editor = q.editor /\ n.deleting = q.deleting
      /\ n.deletingBusy = q.deletingBusy /\ n.deleteRequest = q.deleteRequest /\ n.changes = q.changes
  BY <1>3, <1>5, EntityLoad
<1>7. n.request.ledger = ledger /\ n.request.fresh = n.changes
  BY <1>6
<1>8. n.changes = p.changes + 1 /\ n.deleteRequest = p.deleteRequest /\ n.editor = p.editor
      /\ n.deletingBusy = p.deletingBusy /\ n.deleting = p.deleting
  BY <1>3, <1>6
<1>9. n.changes + (IF n.deleteRequest = None THEN 0 ELSE 1) + (IF n.editor = "saving" THEN 1 ELSE 0) <= 2
  BY <1>8
<1>10. EntityGood(n, ledger)
  BY <1>6, <1>7, <1>8, <1>9 DEF EntityGood
<1> QED BY <1>3, <1>4, <1>6, <1>10

LEMMA EntityStep ==
  ASSUME EntityInv, Entities!Next
  PROVE  EntityInv' /\ page' # None /\ ledger' = ledger
<1>0. page # None
  BY DEF Entities!Next, Entities!Open, Entities!Free, Entities!Filter, Entities!Retry, Entities!SaveEntity,
         Entities!ConfirmDelete, Entities!CloseDelete, Entities!Remove, Entities!Answer, Entities!Fail,
         Entities!SaveAnswer, Entities!DeleteAnswer
<1>1. page \in Entities!Pages /\ EntityGood(page, ledger) /\ ledger \in Ledgers
      /\ saved \in [Ledgers -> Texts \cup {None}] /\ (saved[ledger] # None => saved[ledger] = page.search)
  BY <1>0 DEF EntityInv, EntityGood
<1>2. ASSUME NEW p, page' = p, UNCHANGED <<ledger, saved>>, EntityGood(p, ledger), p.search = page.search
      PROVE  EntityInv' /\ page' # None /\ ledger' = ledger
  <2>1. p # None
    BY <1>2, NoneAssumption DEF EntityGood
  <2> QED BY <1>1, <1>2, <2>1 DEF EntityInv
<1>3. ASSUME NEW t \in Texts, Entities!Filter(t) PROVE EntityInv' /\ page' # None /\ ledger' = ledger
  <2> DEFINE n == [page EXCEPT !.search = t]
  <2>1. page' = n /\ saved' = [saved EXCEPT ![ledger] = t] /\ ledger' = ledger
    BY <1>3 DEF Entities!Filter
  <2>2. n.search = t /\ EntityGood(n, ledger)
    BY <1>1, <1>3 DEF EntityGood, Entities!Pages
  <2>3. n # None
    BY <2>2, NoneAssumption DEF EntityGood
  <2> HIDE DEF n
  <2> QED BY <1>1, <2>1, <2>2, <2>3 DEF EntityInv
<1>4. CASE Entities!Retry
  <2>1. page' = Entities!Load(page, ledger) /\ UNCHANGED <<ledger, saved>>
    BY <1>4 DEF Entities!Retry, Entities!Become
  <2> PICK n \in Entities!Pages : n = Entities!Load(page, ledger)
    BY <1>1, EntityLoad
  <2>2. /\ n.request = [ledger |-> ledger, fresh |-> page.changes] /\ n.request # None
        /\ n.loading /\ ~ n.error
        /\ n.search = page.search /\ n.editor = page.editor /\ n.deleting = page.deleting
        /\ n.deletingBusy = page.deletingBusy /\ n.deleteRequest = page.deleteRequest /\ n.changes = page.changes
    BY <1>1, EntityLoad
  <2>3. n.request.ledger = ledger /\ n.request.fresh = n.changes
    BY <2>2
  <2>4. /\ n.deletingBusy <=> n.deleteRequest # None
        /\ n.deleting \in {None, ledger}
        /\ n.changes + (IF n.deleteRequest = None THEN 0 ELSE 1) + (IF n.editor = "saving" THEN 1 ELSE 0) <= 2
    BY <1>1, <2>2 DEF EntityGood
  <2>5. EntityGood(n, ledger)
    BY <2>2, <2>3, <2>4 DEF EntityGood
  <2> QED BY <1>2, <2>1, <2>2, <2>5
<1>5. CASE Entities!SaveEntity
  <2> DEFINE n == [page EXCEPT !.editor = "saving"]
  <2>1. page' = n /\ UNCHANGED <<ledger, saved>> /\ Entities!Begun < 2 /\ page.editor = "closed"
    BY <1>5 DEF Entities!SaveEntity, Entities!Become, Entities!Free
  <2>2. n.search = page.search /\ EntityGood(n, ledger)
    BY <1>1, <2>1 DEF EntityGood, Entities!Pages, Entities!Begun
  <2> HIDE DEF n
  <2> QED BY <1>2, <2>1, <2>2
<1>6. CASE Entities!ConfirmDelete
  <2> DEFINE n == [page EXCEPT !.deleting = page.items.ledger]
  <2>1. page' = n /\ UNCHANGED <<ledger, saved>> /\ ~ page.error /\ ~ page.loading
    BY <1>6 DEF Entities!ConfirmDelete, Entities!Become, Entities!RowsShown, Entities!ListShown
  <2>2. page.items # None /\ page.items.ledger = ledger
    BY <1>1, <2>1 DEF EntityGood
  <2>3. n.search = page.search /\ EntityGood(n, ledger)
    BY <1>1, <2>2 DEF EntityGood, Entities!Pages
  <2> HIDE DEF n
  <2> QED BY <1>2, <2>1, <2>3
<1>7. CASE Entities!CloseDelete
  <2> DEFINE n == [page EXCEPT !.deleting = None]
  <2>1. page' = n /\ UNCHANGED <<ledger, saved>>
    BY <1>7 DEF Entities!CloseDelete, Entities!Become
  <2>2. n.search = page.search /\ EntityGood(n, ledger)
    BY <1>1 DEF EntityGood, Entities!Pages
  <2> HIDE DEF n
  <2> QED BY <1>2, <2>1, <2>2
<1>8. CASE Entities!Remove
  <2> DEFINE n == [page EXCEPT !.deletingBusy = TRUE, !.deleteRequest = ledger]
  <2>1. page' = n /\ UNCHANGED <<ledger, saved>> /\ Entities!Begun < 2 /\ ~ page.deletingBusy
    BY <1>8 DEF Entities!Remove, Entities!Become
  <2>2. ledger # None
    BY <1>1, NoneAssumption
  <2>3. /\ n \in Entities!Pages /\ n.deletingBusy /\ n.deleteRequest = ledger
        /\ n.search = page.search /\ n.items = page.items /\ n.request = page.request
        /\ n.loading = page.loading /\ n.error = page.error /\ n.editor = page.editor
        /\ n.deleting = page.deleting /\ n.changes = page.changes
    BY <1>1 DEF Entities!Pages
  <2>4. page.deleteRequest = None /\ page.changes \in Nat
    BY <1>1, <2>1 DEF EntityGood, Entities!Pages
  <2>5. page.changes + 1 + (IF page.editor = "saving" THEN 1 ELSE 0) <= 2
    BY <2>1, <2>4 DEF Entities!Begun
  <2> HIDE DEF n
  <2>6. n.changes + (IF n.deleteRequest = None THEN 0 ELSE 1) + (IF n.editor = "saving" THEN 1 ELSE 0) <= 2
    BY <2>2, <2>3, <2>5
  <2>7. /\ n.loading <=> n.request # None
        /\ n.deleting \in {None, ledger}
        /\ n.request # None => n.request.ledger = ledger /\ n.request.fresh = n.changes
        /\ n.request = None /\ ~ n.error =>
             n.items # None /\ n.items.ledger = ledger /\ n.items.fresh = n.changes
    BY <1>1, <2>3 DEF EntityGood
  <2>8. EntityGood(n, ledger)
    BY <2>2, <2>3, <2>6, <2>7 DEF EntityGood
  <2> QED BY <1>2, <2>1, <2>3, <2>8
<1>9. CASE Entities!Fail
  <2> DEFINE n == [page EXCEPT !.request = None, !.loading = FALSE, !.error = TRUE]
  <2>1. page' = n /\ UNCHANGED <<ledger, saved>>
    BY <1>9 DEF Entities!Fail, Entities!Become
  <2>2. n.search = page.search /\ EntityGood(n, ledger)
    BY <1>1 DEF EntityGood, Entities!Pages
  <2> HIDE DEF n
  <2> QED BY <1>2, <2>1, <2>2
<1>10. ASSUME NEW full \in BOOLEAN, NEW any \in BOOLEAN, Entities!Answer(full, any)
       PROVE  EntityInv' /\ page' # None /\ ledger' = ledger
  <2> DEFINE list == [ledger |-> page.request.ledger, fresh |-> page.request.fresh, full |-> full, any |-> any]
             n == [page EXCEPT !.items = list, !.request = None, !.loading = FALSE]
  <2>1. page' = n /\ UNCHANGED <<ledger, saved>> /\ page.request # None
    BY <1>10 DEF Entities!Answer, Entities!Become
  <2>2. page.request \in Entities!Requests /\ page.request.ledger = ledger /\ page.request.fresh = page.changes
    BY <1>1, <2>1 DEF EntityGood, Entities!Pages
  <2>3. list \in Entities!Lists /\ list.ledger = ledger /\ list.fresh = page.changes
    BY <2>2 DEF Entities!Requests, Entities!Lists
  <2>4. list # None
    BY <2>3, NoneAssumption
  <2> HIDE DEF list
  <2>5. n.search = page.search /\ EntityGood(n, ledger)
    BY <1>1, <2>3, <2>4 DEF EntityGood, Entities!Pages
  <2> HIDE DEF n
  <2> QED BY <1>2, <2>1, <2>5
<1>11. ASSUME NEW ok \in BOOLEAN, Entities!SaveAnswer(ok)
       PROVE  EntityInv' /\ page' # None /\ ledger' = ledger
  <2> DEFINE over == [page EXCEPT !.editor = "closed"]
  <2>1. page' = (IF ok THEN Entities!Changed(over) ELSE over) /\ UNCHANGED <<ledger, saved>>
        /\ page.editor = "saving"
    BY <1>11 DEF Entities!SaveAnswer, Entities!Become
  <2>2. /\ over \in Entities!Pages /\ over.search = page.search /\ EntityGood(over, ledger)
        /\ over.editor = "closed" /\ over.changes = page.changes /\ over.deleteRequest = page.deleteRequest
    BY <1>1 DEF EntityGood, Entities!Pages
  <2>3. over.changes + 1 + (IF over.deleteRequest = None THEN 0 ELSE 1)
          + (IF over.editor = "saving" THEN 1 ELSE 0) <= 2
    BY <1>1, <2>1, <2>2 DEF EntityGood, Entities!Pages
  <2> HIDE DEF over
  <2>4. CASE ok
    BY <1>0, <1>2, <2>1, <2>2, <2>3, <2>4, EntityChanged DEF EntityGood
  <2>5. CASE ~ ok
    BY <1>2, <2>1, <2>2, <2>5
  <2> QED BY <2>4, <2>5
<1>12. ASSUME NEW ok \in BOOLEAN, Entities!DeleteAnswer(ok)
       PROVE  EntityInv' /\ page' # None /\ ledger' = ledger
  <2> DEFINE over == [page EXCEPT !.deleteRequest = None, !.deletingBusy = FALSE]
             gone == [over EXCEPT !.deleting = None]
  <2>1. page' = (IF ok THEN Entities!Changed(gone) ELSE over) /\ UNCHANGED <<ledger, saved>>
        /\ page.deleteRequest # None
    BY <1>12 DEF Entities!DeleteAnswer, Entities!Become
  <2>2. /\ over \in Entities!Pages /\ ~ over.deletingBusy /\ over.deleteRequest = None
        /\ over.search = page.search /\ over.items = page.items /\ over.request = page.request
        /\ over.loading = page.loading /\ over.error = page.error /\ over.editor = page.editor
        /\ over.deleting = page.deleting /\ over.changes = page.changes
    BY <1>1 DEF Entities!Pages
  <2>3. /\ gone \in Entities!Pages /\ ~ gone.deletingBusy /\ gone.deleteRequest = None
        /\ gone.search = page.search /\ gone.editor = page.editor /\ gone.deleting = None
        /\ gone.changes = page.changes
    BY <1>1 DEF Entities!Pages
  <2>4. page.changes \in Nat
        /\ page.changes + 1 + (IF page.editor = "saving" THEN 1 ELSE 0) <= 2
    BY <1>1, <2>1 DEF EntityGood, Entities!Pages
  <2> HIDE DEF over, gone
  <2>5. CASE ok
    <3>1. gone.changes + 1 + (IF gone.deleteRequest = None THEN 0 ELSE 1)
            + (IF gone.editor = "saving" THEN 1 ELSE 0) <= 2
      BY <2>3, <2>4
    <3> QED BY <1>0, <1>2, <2>1, <2>3, <2>5, <3>1, EntityChanged
  <2>6. CASE ~ ok
    <3>1. over.changes + (IF over.deleteRequest = None THEN 0 ELSE 1)
            + (IF over.editor = "saving" THEN 1 ELSE 0) <= 2
      BY <2>2, <2>4
    <3>2. /\ over.loading <=> over.request # None
          /\ over.deleting \in {None, ledger}
          /\ over.request # None => over.request.ledger = ledger /\ over.request.fresh = over.changes
          /\ over.request = None /\ ~ over.error =>
               over.items # None /\ over.items.ledger = ledger /\ over.items.fresh = over.changes
      BY <1>1, <2>2 DEF EntityGood
    <3>3. EntityGood(over, ledger)
      BY <2>2, <3>1, <3>2 DEF EntityGood
    <3> QED BY <1>2, <2>1, <2>2, <2>6, <3>3
  <2> QED BY <2>5, <2>6
<1> QED BY <1>3, <1>4, <1>5, <1>6, <1>7, <1>8, <1>9, <1>10, <1>11, <1>12 DEF Entities!Next
--------------------------------------------------------------------------------
(* The cash-flow diagram *)

FlowsQuery(p, l) == [ledger |-> l, currency |-> p.currency, account |-> p.account, period |-> p.period]

\* No graph is loaded before the resources of the ledger are there; once the
\* effect has run, what is shown and what is asked for is the selection's.
FlowsGood(p, l) ==
  /\ p \in Flows!Pages
  /\ p.resourcesLoading <=> p.resourcesRequest # None
  /\ p.loading <=> p.graphRequest # None
  /\ p.resourcesRequest \in {None, l}
  /\ p.resources # None => p.resources.ledger = l
  /\ p.ready => p.resources # None /\ p.resourcesRequest = None
  /\ ~ p.ready => p.graphRequest = None
  /\ p.ready /\ ~ p.dirty =>
       /\ p.graph \in {None, FlowsQuery(p, l)}
       /\ p.graphRequest \in {None, FlowsQuery(p, l)}
       /\ (p.currency # None /\ p.period # Invalid /\ ~ p.error) =>
            (p.graph = None <=> p.graphRequest # None)

FlowsInv ==
  /\ saved \in [Ledgers -> Flows!Views \cup {None}]
  /\ page # None => /\ ledger \in Ledgers /\ FlowsGood(page, ledger)
                    /\ saved[ledger] # None => saved[ledger] = Flows!ViewState(page)

LEMMA FlowsLoadResources ==
  ASSUME NEW p \in Flows!Pages, NEW l \in Ledgers, p.resources # None => p.resources.ledger = l
  PROVE  LET n == Flows!LoadResources(p, l) IN
         FlowsGood(n, l) /\ n.currency = p.currency /\ n.account = p.account /\ n.period = p.period
<1> DEFINE n == Flows!LoadResources(p, l)
<1>1. l # None
  BY NoneAssumption
<1>2. /\ n \in Flows!Pages
      /\ n.currency = p.currency /\ n.account = p.account /\ n.period = p.period
      /\ n.resources = p.resources /\ ~ n.ready /\ n.resourcesRequest = l /\ n.resourcesLoading
      /\ n.graphRequest = None /\ ~ n.loading
  BY DEF Flows!LoadResources, Flows!Pages
<1> HIDE DEF n
<1>3. FlowsGood(n, l)
  BY <1>1, <1>2 DEF FlowsGood
<1> QED BY <1>2, <1>3 DEF n

\* The page of ledger l that is opened, or that was another ledger's.
LEMMA FlowsOpened ==
  ASSUME FlowsInv, NEW l \in Ledgers
  PROVE  LET n == Flows!Opened(l) IN
         FlowsGood(n, l) /\ (saved[l] # None => saved[l] = Flows!ViewState(n))
<1> DEFINE first == [currency |-> None, account |-> None, period |-> FirstPeriod]
           s == IF saved[l] = None THEN first ELSE saved[l]
<1>1. s \in Flows!Views
  BY WorkspaceAssumption DEF FlowsInv, Flows!Views, Flows!Accounts
<1>2. saved[l] # None => saved[l] = s
  OBVIOUS
<1>3. Flows!Reset(l) =
        [currency |-> s.currency, account |-> s.account, period |-> s.period,
         resources |-> None, ready |-> FALSE, resourcesRequest |-> None, resourcesLoading |-> FALSE,
         graph |-> None, graphRequest |-> None, loading |-> FALSE, error |-> FALSE, dirty |-> FALSE]
  BY DEF Flows!Reset
<1> HIDE DEF s
<1>4. Flows!Reset(l) \in Flows!Pages /\ Flows!Reset(l).resources = None
      /\ Flows!Reset(l).currency = s.currency /\ Flows!Reset(l).account = s.account
      /\ Flows!Reset(l).period = s.period
  BY <1>1, <1>3 DEF Flows!Pages, Flows!Views
<1> PICK n : n = Flows!Opened(l)
  OBVIOUS
<1>5. FlowsGood(n, l) /\ n.currency = s.currency /\ n.account = s.account /\ n.period = s.period
  BY <1>4, FlowsLoadResources DEF Flows!Opened
<1>6. Flows!ViewState(n) = s
  BY <1>1, <1>5 DEF Flows!ViewState, Flows!Views
<1> QED BY <1>2, <1>5, <1>6

\* A page with a changed selection has yet to run its effect.
LEMMA FlowsSelected ==
  ASSUME NEW l \in Ledgers, FlowsGood(page, l), NEW n \in Flows!Pages, n.dirty,
         n.resources = page.resources, n.ready = page.ready,
         n.resourcesRequest = page.resourcesRequest, n.resourcesLoading = page.resourcesLoading,
         n.graphRequest = page.graphRequest, n.loading = page.loading
  PROVE  FlowsGood(n, l)
BY DEF FlowsGood

LEMMA FlowsLoadGraph ==
  ASSUME ledger \in Ledgers, page \in Flows!Pages, FlowsGood(page, ledger), page.ready, Flows!Ranged(page),
         NEW d \in BOOLEAN
  PROVE  LET n == [Flows!LoadGraph(page) EXCEPT !.dirty = d] IN
         FlowsGood(n, ledger) /\ Flows!ViewState(n) = Flows!ViewState(page)
<1> DEFINE q == Flows!Query(page)
           n == [Flows!LoadGraph(page) EXCEPT !.dirty = d]
<1>1. page.currency \in Flows!Currencies /\ page.account \in Flows!Accounts /\ page.period \in Periods \ {Invalid}
  BY DEF Flows!Ranged, Flows!Pages
<1>2. q \in Flows!Queries
  BY <1>1 DEF Flows!Query, Flows!Queries, Flows!Accounts
<1>3. q # None
  BY <1>2, NoneAssumption
<1>4. q = FlowsQuery(page, ledger)
  BY DEF Flows!Query, FlowsQuery
<1>5. n = [page EXCEPT !.graph = None, !.loading = TRUE, !.error = FALSE, !.graphRequest = q, !.dirty = d]
  BY DEF Flows!LoadGraph, Flows!Pages
<1> HIDE DEF q, n
<1>6. /\ n \in Flows!Pages
      /\ n.currency = page.currency /\ n.account = page.account /\ n.period = page.period
      /\ n.resources = page.resources /\ n.ready /\ n.resourcesRequest = page.resourcesRequest
      /\ n.resourcesLoading = page.resourcesLoading
      /\ n.graph = None /\ n.graphRequest = q /\ n.loading
  BY <1>2, <1>5 DEF Flows!Pages
<1>7. FlowsQuery(n, ledger) = q
  BY <1>4, <1>6 DEF FlowsQuery
<1>8. FlowsGood(n, ledger)
  BY <1>3, <1>6, <1>7 DEF FlowsGood
<1>9. Flows!ViewState(n) = Flows!ViewState(page)
  BY <1>6 DEF Flows!ViewState
<1> QED BY <1>8, <1>9 DEF n

LEMMA FlowsStep ==
  ASSUME FlowsInv, Flows!Next
  PROVE  FlowsInv' /\ page' # None /\ ledger' = ledger
<1>0. page # None
  BY DEF Flows!Next, Flows!Open, Flows!SelectCurrency, Flows!SelectAccount, Flows!SelectPeriod, Flows!Retry,
         Flows!Effects, Flows!ResourcesAnswer, Flows!ResourcesFail, Flows!GraphAnswer, Flows!GraphFail
<1>1. page \in Flows!Pages /\ FlowsGood(page, ledger) /\ ledger \in Ledgers
      /\ saved \in [Ledgers -> Flows!Views \cup {None}]
      /\ (saved[ledger] # None => saved[ledger] = Flows!ViewState(page))
  BY <1>0 DEF FlowsInv, FlowsGood
<1>2. ASSUME NEW p, Flows!Become(p), FlowsGood(p, ledger), Flows!ViewState(p) = Flows!ViewState(page)
      PROVE  FlowsInv' /\ page' # None /\ ledger' = ledger
  <2>1. page' = p /\ UNCHANGED <<ledger, saved>>
    BY <1>2 DEF Flows!Become
  <2>2. p # None
    BY <1>2, NoneAssumption DEF FlowsGood
  <2>3. Flows!ViewState(page)' = Flows!ViewState(p)
    BY <2>1 DEF Flows!ViewState
  <2> QED BY <1>1, <1>2, <2>1, <2>2, <2>3 DEF FlowsInv
<1>3. ASSUME NEW p, Flows!Save(p), FlowsGood(p, ledger)
      PROVE  FlowsInv' /\ page' # None /\ ledger' = ledger
  <2> DEFINE v == Flows!ViewState(p)
  <2>1. page' = p /\ saved' = [saved EXCEPT ![ledger] = v] /\ ledger' = ledger
    BY <1>3 DEF Flows!Save
  <2>2. p # None
    BY <1>3, NoneAssumption DEF FlowsGood
  <2>3. Flows!ViewState(page)' = v
    BY <2>1 DEF Flows!ViewState
  <2>4. v \in Flows!Views
    BY <1>3 DEF FlowsGood, Flows!Pages, Flows!Views, Flows!ViewState
  <2> HIDE DEF v
  <2>5. saved' \in [Ledgers -> Flows!Views \cup {None}] /\ saved'[ledger] = v
    BY <1>1, <2>1, <2>4
  <2> QED BY <1>1, <1>3, <2>1, <2>2, <2>3, <2>5 DEF FlowsInv
<1>4. ASSUME NEW c \in Flows!Currencies, Flows!SelectCurrency(c)
      PROVE  FlowsInv' /\ page' # None /\ ledger' = ledger
  <2>1. PICK acc : acc = (IF page.account \in page.resources.offer.accounts /\ CurrencyOf[page.account] = c
                           THEN page.account ELSE None)
    OBVIOUS
  <2> DEFINE n == [page EXCEPT !.currency = c, !.dirty = TRUE, !.account = acc]
  <2>2. Flows!Save(n)
    BY <1>1, <1>4, <2>1 DEF Flows!SelectCurrency, Flows!Select, Flows!Pages
  <2>3. acc \in Flows!Accounts
    BY <1>1, <2>1 DEF Flows!Accounts, Flows!Pages
  <2>4. FlowsGood(n, ledger)
    <3>1. /\ n \in Flows!Pages /\ n.dirty
          /\ n.resources = page.resources /\ n.ready = page.ready
          /\ n.resourcesRequest = page.resourcesRequest /\ n.resourcesLoading = page.resourcesLoading
          /\ n.graphRequest = page.graphRequest /\ n.loading = page.loading
      BY <1>1, <2>3 DEF Flows!Pages
    <3> QED BY <1>1, <3>1, FlowsSelected
  <2> HIDE DEF n
  <2> QED BY <1>3, <2>2, <2>4
<1>5. ASSUME NEW a \in Flows!Accounts, Flows!SelectAccount(a)
      PROVE  FlowsInv' /\ page' # None /\ ledger' = ledger
  <2> DEFINE n == [page EXCEPT !.account = a, !.dirty = TRUE]
  <2>1. Flows!Save(n)
    BY <1>5 DEF Flows!SelectAccount
  <2>2. FlowsGood(n, ledger)
    <3>1. /\ n \in Flows!Pages /\ n.dirty
          /\ n.resources = page.resources /\ n.ready = page.ready
          /\ n.resourcesRequest = page.resourcesRequest /\ n.resourcesLoading = page.resourcesLoading
          /\ n.graphRequest = page.graphRequest /\ n.loading = page.loading
      BY <1>1 DEF Flows!Pages
    <3> QED BY <1>1, <3>1, FlowsSelected
  <2> HIDE DEF n
  <2> QED BY <1>3, <2>1, <2>2
<1>6. ASSUME NEW t \in Periods, Flows!SelectPeriod(t)
      PROVE  FlowsInv' /\ page' # None /\ ledger' = ledger
  <2> DEFINE n == [page EXCEPT !.period = t, !.dirty = TRUE]
  <2>1. Flows!Save(n)
    BY <1>6 DEF Flows!SelectPeriod
  <2>2. FlowsGood(n, ledger)
    <3>1. /\ n \in Flows!Pages /\ n.dirty
          /\ n.resources = page.resources /\ n.ready = page.ready
          /\ n.resourcesRequest = page.resourcesRequest /\ n.resourcesLoading = page.resourcesLoading
          /\ n.graphRequest = page.graphRequest /\ n.loading = page.loading
      BY <1>1 DEF Flows!Pages
    <3> QED BY <1>1, <3>1, FlowsSelected
  <2> HIDE DEF n
  <2> QED BY <1>3, <2>1, <2>2
<1>7. CASE Flows!Retry
  <2>1. CASE ~ page.ready
    <3>1. Flows!Become(Flows!LoadResources(page, ledger))
      BY <1>7, <2>1 DEF Flows!Retry
    <3> PICK n : n = Flows!LoadResources(page, ledger)
      OBVIOUS
    <3>2. FlowsGood(n, ledger) /\ n.currency = page.currency /\ n.account = page.account /\ n.period = page.period
      BY <1>1, FlowsLoadResources DEF FlowsGood
    <3>3. Flows!ViewState(n) = Flows!ViewState(page)
      BY <3>2 DEF Flows!ViewState
    <3> QED BY <1>2, <3>1, <3>2, <3>3
  <2>2. CASE page.ready /\ Flows!Ranged(page)
    <3>1. Flows!Become(Flows!LoadGraph(page))
      BY <1>7, <2>2 DEF Flows!Retry
    <3>2. Flows!LoadGraph(page) = [Flows!LoadGraph(page) EXCEPT !.dirty = page.dirty]
      BY <1>1 DEF Flows!LoadGraph, Flows!Pages
    <3>3. page.dirty \in BOOLEAN
      BY <1>1 DEF Flows!Pages
    <3> PICK n : n = Flows!LoadGraph(page)
      OBVIOUS
    <3>4. FlowsGood(n, ledger) /\ Flows!ViewState(n) = Flows!ViewState(page)
      BY <1>1, <2>2, <3>2, <3>3, FlowsLoadGraph
    <3> QED BY <1>2, <3>1, <3>4
  <2>3. CASE page.ready /\ ~ Flows!Ranged(page)
    <3>1. Flows!Become(page)
      BY <1>7, <2>3 DEF Flows!Retry
    <3> PICK n : n = page
      OBVIOUS
    <3> QED BY <1>1, <1>2, <3>1
  <2> QED BY <2>1, <2>2, <2>3
<1>8. CASE Flows!Effects
  <2>1. Flows!Become([Flows!QueryEffect(page) EXCEPT !.dirty = FALSE])
    BY <1>8 DEF Flows!Effects
  <2>2. CASE ~ page.ready
    <3> DEFINE n == [page EXCEPT !.dirty = FALSE]
    <3>1. Flows!Become(n)
      BY <2>1, <2>2 DEF Flows!QueryEffect
    <3>2. FlowsGood(n, ledger) /\ Flows!ViewState(n) = Flows!ViewState(page)
      BY <1>1, <2>2 DEF FlowsGood, Flows!Pages, Flows!ViewState
    <3> HIDE DEF n
    <3> QED BY <1>2, <3>1, <3>2
  <2>3. CASE page.ready /\ Flows!Ranged(page)
    <3> PICK n : n = [Flows!LoadGraph(page) EXCEPT !.dirty = FALSE]
      OBVIOUS
    <3>1. Flows!Become(n)
      BY <2>1, <2>3 DEF Flows!QueryEffect
    <3>2. FlowsGood(n, ledger) /\ Flows!ViewState(n) = Flows!ViewState(page)
      BY <1>1, <2>3, FlowsLoadGraph
    <3> QED BY <1>2, <3>1, <3>2
  <2>4. CASE page.ready /\ ~ Flows!Ranged(page)
    <3> DEFINE n == [page EXCEPT !.graphRequest = None, !.graph = None, !.loading = FALSE, !.dirty = FALSE]
    <3>1. Flows!Become(n)
      BY <1>1, <2>1, <2>4 DEF Flows!QueryEffect, Flows!Pages
    <3>2. /\ n \in Flows!Pages
          /\ n.currency = page.currency /\ n.account = page.account /\ n.period = page.period
          /\ n.resources = page.resources /\ n.ready /\ n.resourcesRequest = page.resourcesRequest
          /\ n.resourcesLoading = page.resourcesLoading
          /\ n.graph = None /\ n.graphRequest = None /\ ~ n.loading
      BY <1>1, <2>4 DEF Flows!Pages
    <3> HIDE DEF n
    <3>3. FlowsGood(n, ledger)
      BY <1>1, <2>4, <3>2 DEF FlowsGood, Flows!Ranged
    <3>4. Flows!ViewState(n) = Flows!ViewState(page)
      BY <3>2 DEF Flows!ViewState
    <3> QED BY <1>2, <3>1, <3>3, <3>4
  <2> QED BY <2>2, <2>3, <2>4
<1>9. ASSUME NEW offer, Flows!ResourcesAnswer(offer)
      PROVE  FlowsInv' /\ page' # None /\ ledger' = ledger
  <2>1. page.resourcesRequest = ledger /\ offer \in Offers[ledger]
    BY <1>1, <1>9 DEF Flows!ResourcesAnswer, FlowsGood
  <2>2. PICK c : c = (IF page.currency \in Flows!Members(offer.currencies) THEN page.currency
                      ELSE IF offer.currencies = <<>> THEN None ELSE Head(offer.currencies))
    OBVIOUS
  <2>3. PICK acc : acc = (IF page.account \in offer.accounts /\ CurrencyOf[page.account] = c
                          THEN page.account ELSE None)
    OBVIOUS
  <2>4. c \in Flows!Currencies \cup {None}
    <3>1. offer.currencies \in Seq(Flows!Currencies)
      BY <1>1, <2>1, WorkspaceAssumption
    <3>2. offer.currencies # <<>> => Head(offer.currencies) \in Flows!Currencies
      BY <3>1
    <3> QED BY <1>1, <2>2, <3>2 DEF Flows!Pages
  <2>5. acc \in Flows!Accounts
    BY <1>1, <2>3 DEF Flows!Accounts, Flows!Pages
  <2> DEFINE r == [ledger |-> ledger, offer |-> offer]
  <2>6. r \in Flows!Resources
    BY <1>1, <2>1 DEF Flows!Resources
  <2>7. r # None /\ r.ledger = ledger
    BY <2>6, NoneAssumption
  <2> DEFINE n == [page EXCEPT !.currency = c, !.dirty = TRUE, !.account = acc, !.resources = r,
                               !.resourcesRequest = None, !.resourcesLoading = FALSE, !.ready = TRUE]
  <2>8. Flows!Save(n)
    <3>1. Flows!Save([Flows!Select(page, c, offer.accounts) EXCEPT
                        !.resources = [ledger |-> page.resourcesRequest, offer |-> offer],
                        !.resourcesRequest = None, !.resourcesLoading = FALSE, !.ready = TRUE])
      BY <1>9, <2>2 DEF Flows!ResourcesAnswer
    <3> QED BY <1>1, <2>1, <2>3, <3>1 DEF Flows!Select, Flows!Pages
  <2> HIDE DEF r
  <2>9. /\ n \in Flows!Pages /\ n.resources = r /\ n.ready /\ n.resourcesRequest = None
        /\ ~ n.resourcesLoading /\ n.graphRequest = page.graphRequest /\ n.loading = page.loading /\ n.dirty
    BY <1>1, <2>4, <2>5, <2>6 DEF Flows!Pages
  <2> HIDE DEF n
  <2>10. FlowsGood(n, ledger)
    BY <1>1, <2>7, <2>9 DEF FlowsGood
  <2> QED BY <1>3, <2>8, <2>10
<1>10. CASE Flows!ResourcesFail
  <2> DEFINE n == [page EXCEPT !.resourcesRequest = None, !.resourcesLoading = FALSE, !.error = TRUE]
  <2>1. Flows!Become(n) /\ page.resourcesRequest # None
    BY <1>10 DEF Flows!ResourcesFail
  <2>2. FlowsGood(n, ledger) /\ Flows!ViewState(n) = Flows!ViewState(page)
    BY <1>1, <2>1 DEF FlowsGood, Flows!Pages, Flows!ViewState
  <2> HIDE DEF n
  <2> QED BY <1>2, <2>1, <2>2
<1>11. CASE Flows!GraphAnswer
  <2> DEFINE n == [page EXCEPT !.graph = page.graphRequest, !.graphRequest = None, !.loading = FALSE]
  <2>1. Flows!Become(n) /\ page.graphRequest # None
    BY <1>11 DEF Flows!GraphAnswer
  <2>2. /\ n \in Flows!Pages
        /\ n.currency = page.currency /\ n.account = page.account /\ n.period = page.period
        /\ n.resources = page.resources /\ n.ready = page.ready /\ n.resourcesRequest = page.resourcesRequest
        /\ n.resourcesLoading = page.resourcesLoading
        /\ n.graph = page.graphRequest /\ n.graphRequest = None /\ ~ n.loading
        /\ n.dirty = page.dirty /\ n.error = page.error
    BY <1>1 DEF Flows!Pages
  <2> HIDE DEF n
  <2>3. FlowsQuery(n, ledger) = FlowsQuery(page, ledger) /\ Flows!ViewState(n) = Flows!ViewState(page)
    BY <2>2 DEF FlowsQuery, Flows!ViewState
  <2>4. FlowsGood(n, ledger)
    BY <1>1, <2>1, <2>2, <2>3 DEF FlowsGood
  <2> QED BY <1>2, <2>1, <2>3, <2>4
<1>12. CASE Flows!GraphFail
  <2> DEFINE n == [page EXCEPT !.graphRequest = None, !.loading = FALSE, !.error = TRUE]
  <2>1. Flows!Become(n)
    BY <1>12 DEF Flows!GraphFail
  <2>2. /\ n \in Flows!Pages
        /\ n.currency = page.currency /\ n.account = page.account /\ n.period = page.period
        /\ n.resources = page.resources /\ n.ready = page.ready /\ n.resourcesRequest = page.resourcesRequest
        /\ n.resourcesLoading = page.resourcesLoading
        /\ n.graph = page.graph /\ n.graphRequest = None /\ ~ n.loading /\ n.dirty = page.dirty /\ n.error
    BY <1>1 DEF Flows!Pages
  <2> HIDE DEF n
  <2>3. FlowsQuery(n, ledger) = FlowsQuery(page, ledger) /\ Flows!ViewState(n) = Flows!ViewState(page)
    BY <2>2 DEF FlowsQuery, Flows!ViewState
  <2>4. FlowsGood(n, ledger)
    BY <1>1, <2>2, <2>3 DEF FlowsGood
  <2> QED BY <1>2, <2>1, <2>3, <2>4
<1> QED BY <1>4, <1>5, <1>6, <1>7, <1>8, <1>9, <1>10, <1>11, <1>12 DEF Flows!Next, Flows!Accounts

--------------------------------------------------------------------------------
(* The first page *)

HomeScope(p, l) == [ledger |-> l, currency |-> p.currency, period |-> p.period]
HomeQuery(p, l) == [scope |-> HomeScope(p, l), account |-> p.account]
HomeRanged(p) == p.currency # None /\ p.period # Invalid

\* The figures are those of the scope that was last asked for, so that the
\* same scope may keep them; an account is selected only beside the figures
\* of the selection, whatever their exchange under way comes to.
HomeFigures(p, l) ==
  /\ p.figures # None => p.figures = p.dashboardScope
  /\ p.dashboardRequest # None => p.dashboardRequest = p.dashboardScope
  /\ p.ready /\ "dashboard" \notin p.dirty =>
       /\ p.figures \in {None, HomeScope(p, l)} /\ p.dashboardRequest \in {None, HomeScope(p, l)}
       /\ HomeRanged(p) /\ ~ p.error => HomeScope(p, l) \in {p.figures, p.dashboardRequest}
  /\ p.ready /\ p.dirty = {"chart"} /\ HomeRanged(p) => p.figures = HomeScope(p, l)

HomeChart(p, l) ==
  p.ready /\ "chart" \notin p.dirty =>
    /\ p.chart \in {None, HomeQuery(p, l)} /\ p.chartRequest \in {None, HomeQuery(p, l)}
    /\ HomeRanged(p) /\ ~ p.error => HomeQuery(p, l) \in {p.chart, p.chartRequest}

HomeSpinners(p) ==
  /\ p.resourcesLoading <=> p.resourcesRequest # None
  /\ p.loading <=> p.dashboardRequest # None
  /\ p.flowLoading <=> p.chartRequest # None

HomeReady(p, l) ==
  /\ p.resourcesRequest \in {None, l}
  /\ p.resources # None => p.resources.ledger = l
  /\ p.ready => p.resources # None /\ p.resourcesRequest = None
  /\ ~ p.ready => p.dashboardRequest = None /\ p.chartRequest = None
  /\ p.dirty \in {{}, {"chart"}, Home!Both}

HomeGood(p, l) ==
  p \in Home!Pages /\ HomeSpinners(p) /\ HomeReady(p, l) /\ HomeFigures(p, l) /\ HomeChart(p, l)

HomeInv ==
  /\ saved \in [Ledgers -> Home!Views \cup {None}]
  /\ page # None => /\ ledger \in Ledgers /\ HomeGood(page, ledger)
                    /\ saved[ledger] # None => saved[ledger] = Home!ViewState(page)

HomeReloaded(p, l, d) == [Home!LoadResources(p, l) EXCEPT !.dirty = d]

LEMMA HomeLoadResources ==
  ASSUME NEW p \in Home!Pages, NEW l \in Ledgers, p.resources # None => p.resources.ledger = l,
         NEW d \in {{}, {"chart"}, Home!Both}, p.figures # None => p.figures = p.dashboardScope,
         NEW n, n = HomeReloaded(p, l, d)
  PROVE  HomeGood(n, l) /\ n.currency = p.currency /\ n.account = p.account /\ n.period = p.period
         /\ n.mode = p.mode
<1>1. l # None
  BY NoneAssumption
<1>2. d \in SUBSET {"dashboard", "chart"}
  BY DEF Home!Both
<1>5. n \in Home!Pages
  <2>1. PICK a : a = [p EXCEPT !.dashboardRequest = None, !.chartRequest = None]
    OBVIOUS
  <2>2. PICK b : b = [a EXCEPT !.loading = FALSE, !.flowLoading = FALSE]
    OBVIOUS
  <2>3. PICK c : c = [b EXCEPT !.ready = FALSE, !.resourcesLoading = TRUE]
    OBVIOUS
  <2>4. PICK e : e = [c EXCEPT !.error = FALSE, !.resourcesRequest = l]
    OBVIOUS
  <2>5. n = [e EXCEPT !.dirty = d]
    BY <2>1, <2>2, <2>3, <2>4, Zenon DEF HomeReloaded, Home!LoadResources
  <2>6. a \in Home!Pages
    BY <2>1, Zenon DEF Home!Pages
  <2>7. b \in Home!Pages
    BY <2>2, <2>6, Zenon DEF Home!Pages
  <2>8. c \in Home!Pages
    BY <2>3, <2>7, Zenon DEF Home!Pages
  <2>9. e \in Home!Pages
    BY <2>4, <2>8, Zenon DEF Home!Pages
  <2> QED BY <1>2, <2>5, <2>9 DEF Home!Pages
<1>3. /\ n.currency = p.currency /\ n.account = p.account /\ n.period = p.period /\ n.mode = p.mode
      /\ n.resources = p.resources /\ ~ n.ready /\ n.resourcesRequest = l /\ n.resourcesLoading
      /\ n.dashboardRequest = None /\ ~ n.loading /\ n.chartRequest = None /\ ~ n.flowLoading
      /\ n.figures = p.figures /\ n.dashboardScope = p.dashboardScope /\ n.dirty = d
  BY <1>2, Zenon DEF HomeReloaded, Home!LoadResources, Home!Pages
<1>4. HomeSpinners(n) /\ HomeReady(n, l) /\ HomeFigures(n, l) /\ HomeChart(n, l)
  BY <1>1, <1>3 DEF HomeSpinners, HomeReady, HomeFigures, HomeChart
<1> QED BY <1>3, <1>4, <1>5 DEF HomeGood

\* The page of ledger l that is opened, or that was another ledger's.
LEMMA HomeOpened ==
  ASSUME HomeInv, NEW l \in Ledgers
  PROVE  LET n == Home!Opened(l) IN
         HomeGood(n, l) /\ (saved[l] # None => saved[l] = Home!ViewState(n))
<1> DEFINE first == [currency |-> None, account |-> None, period |-> FirstPeriod, mode |-> "instant"]
           s == IF saved[l] = None THEN first ELSE saved[l]
<1>1. s \in Home!Views
  BY WorkspaceAssumption DEF HomeInv, Home!Views, Home!Accounts, Home!Modes
<1>2. saved[l] # None => saved[l] = s
  OBVIOUS
<1>3. Home!Reset(l) =
        [currency |-> s.currency, account |-> s.account, period |-> s.period, mode |-> s.mode,
         resources |-> None, ready |-> FALSE, resourcesRequest |-> None, resourcesLoading |-> FALSE,
         figures |-> None, dashboardScope |-> None, dashboardRequest |-> None, loading |-> FALSE,
         chart |-> None, chartRequest |-> None, flowLoading |-> FALSE,
         error |-> FALSE, dirty |-> {}]
  BY DEF Home!Reset
<1> HIDE DEF s
<1> PICK p : p = Home!Reset(l)
  OBVIOUS
<1>4. p \in Home!Pages /\ p.resources = None /\ p.figures = None /\ p.dirty = {}
      /\ p.currency = s.currency /\ p.account = s.account /\ p.period = s.period /\ p.mode = s.mode
  BY <1>1, <1>3 DEF Home!Pages, Home!Views
<1> PICK n : n = Home!Opened(l)
  OBVIOUS
<1>5. n = HomeReloaded(p, l, {})
  BY <1>4 DEF HomeReloaded, Home!Opened, Home!LoadResources, Home!Pages
<1>6. HomeGood(n, l) /\ n.currency = s.currency /\ n.account = s.account /\ n.period = s.period /\ n.mode = s.mode
  <2>1. {} \in {{}, {"chart"}, Home!Both}
    OBVIOUS
  <2>2. p \in Home!Pages /\ (p.resources # None => p.resources.ledger = l)
        /\ (p.figures # None => p.figures = p.dashboardScope)
    BY <1>4
  <2>3. HomeGood(n, l) /\ n.currency = p.currency /\ n.account = p.account /\ n.period = p.period
        /\ n.mode = p.mode
    BY <1>5, <2>1, <2>2, HomeLoadResources
  <2> QED BY <1>4, <2>3
<1>7. Home!ViewState(n) = s
  BY <1>1, <1>6 DEF Home!ViewState, Home!Views
<1> QED BY <1>2, <1>6, <1>7

LEMMA HomeScopes ==
  ASSUME NEW p \in Home!Pages, ledger \in Ledgers, Home!Ranged(p)
  PROVE  /\ Home!Scope(p) \in Home!Scopes /\ Home!Scope(p) # None
         /\ Home!Query(p) \in Home!Queries /\ Home!Query(p) # None
<1>1. p.currency \in Home!Currencies /\ p.account \in Home!Accounts /\ p.period \in Periods \ {Invalid}
  BY DEF Home!Ranged, Home!Pages
<1>2. Home!Scope(p) \in Home!Scopes
  BY <1>1 DEF Home!Scope, Home!Scopes
<1>3. Home!Query(p) \in Home!Queries
  BY <1>1, <1>2 DEF Home!Query, Home!Queries, Home!Accounts
<1> QED BY <1>2, <1>3, NoneAssumption

\* The figures after the effect: asked for anew, emptied, or those beside
\* which the account was selected.
LEMMA HomeDashboardEffect ==
  ASSUME ledger \in Ledgers, HomeGood(page, ledger), page.ready, page.dirty # {}
  PROVE  LET d == Home!DashboardEffect(page)
             q == HomeScope(page, ledger) IN
         /\ d \in Home!Pages
         /\ d.currency = page.currency /\ d.account = page.account /\ d.period = page.period
         /\ d.mode = page.mode /\ d.resources = page.resources /\ d.ready
         /\ d.resourcesRequest = page.resourcesRequest /\ d.resourcesLoading = page.resourcesLoading
         /\ d.chart = page.chart /\ d.chartRequest = page.chartRequest /\ d.flowLoading = page.flowLoading
         /\ d.dirty = page.dirty
         /\ d.loading <=> d.dashboardRequest # None
         /\ d.figures # None => d.figures = d.dashboardScope
         /\ d.dashboardRequest # None => d.dashboardRequest = d.dashboardScope
         /\ d.figures \in {None, q} /\ d.dashboardRequest \in {None, q}
         /\ HomeRanged(page) => q \in {d.figures, d.dashboardRequest}
<1> DEFINE q == Home!Scope(page)
<1>0. page \in Home!Pages
  BY DEF HomeGood
<1>1. q = HomeScope(page, ledger) /\ (Home!Ranged(page) <=> HomeRanged(page))
  BY DEF Home!Scope, HomeScope, Home!Ranged, HomeRanged
<1>2. page.dirty \in {{"chart"}, Home!Both} /\ (page.loading <=> page.dashboardRequest # None)
      /\ (page.figures # None => page.figures = page.dashboardScope)
      /\ (page.dashboardRequest # None => page.dashboardRequest = page.dashboardScope)
  BY DEF HomeGood, HomeReady, HomeSpinners, HomeFigures
<1>3. CASE "dashboard" \notin page.dirty
  <2>1. page.dirty = {"chart"}
    BY <1>2, <1>3 DEF Home!Both
  <2>2. /\ page.figures \in {None, q} /\ page.dashboardRequest \in {None, q}
        /\ HomeRanged(page) => page.figures = q
    BY <1>1, <1>3, <2>1 DEF HomeGood, HomeFigures
  <2>3. Home!DashboardEffect(page) = page
    BY <1>3 DEF Home!DashboardEffect
  <2> HIDE DEF q
  <2> QED BY <1>0, <1>1, <1>2, <2>2, <2>3
<1>4. CASE "dashboard" \in page.dirty /\ Home!Ranged(page)
  <2>1. q \in Home!Scopes /\ q # None
    BY <1>0, <1>4, HomeScopes
  <2>2. PICK f : f = IF page.dashboardScope = q THEN page.figures ELSE None
    OBVIOUS
  <2>3. Home!DashboardEffect(page) =
          [page EXCEPT !.figures = f, !.dashboardScope = q, !.dashboardRequest = q, !.loading = TRUE, !.error = FALSE]
    BY <1>0, <1>4, <2>2 DEF Home!DashboardEffect, Home!LoadDashboard, Home!Pages
  <2>4. f \in {None, q}
    BY <1>2, <2>2
  <2> HIDE DEF q
  <2>7. PICK d : d = Home!DashboardEffect(page)
    OBVIOUS
  <2>6. d \in Home!Pages
    <3>1. f \in Home!Scopes \cup {None}
      BY <2>1, <2>4
    <3>2. q \in Home!Scopes
      BY <2>1
    <3>3. PICK a : a = [page EXCEPT !.figures = f]
      OBVIOUS
    <3>4. PICK b : b = [a EXCEPT !.dashboardScope = q]
      OBVIOUS
    <3>5. PICK c : c = [b EXCEPT !.dashboardRequest = q]
      OBVIOUS
    <3>6. d = [c EXCEPT !.loading = TRUE, !.error = FALSE]
      BY <2>3, <2>7, <3>3, <3>4, <3>5, Zenon
    <3>7. a \in Home!Pages
      BY <1>0, <3>1, <3>3 DEF Home!Pages
    <3>8. b \in Home!Pages
      BY <3>2, <3>4, <3>7 DEF Home!Pages
    <3>9. c \in Home!Pages
      BY <3>2, <3>5, <3>8 DEF Home!Pages
    <3> QED BY <3>6, <3>9, Zenon DEF Home!Pages
  <2>5. /\ d.currency = page.currency /\ d.account = page.account /\ d.period = page.period
        /\ d.mode = page.mode /\ d.resources = page.resources /\ d.ready
        /\ d.resourcesRequest = page.resourcesRequest /\ d.resourcesLoading = page.resourcesLoading
        /\ d.chart = page.chart /\ d.chartRequest = page.chartRequest /\ d.flowLoading = page.flowLoading
        /\ d.dirty = page.dirty /\ d.loading /\ d.figures = f /\ d.dashboardScope = q /\ d.dashboardRequest = q
    BY <1>0, <2>1, <2>3, <2>4, <2>7 DEF Home!Pages
  <2> QED BY <1>1, <2>1, <2>4, <2>5, <2>6, <2>7
<1>5. CASE "dashboard" \in page.dirty /\ ~ Home!Ranged(page)
  <2>1. Home!DashboardEffect(page) =
          [page EXCEPT !.figures = None, !.dashboardScope = None, !.dashboardRequest = None, !.loading = FALSE]
    BY <1>5 DEF Home!DashboardEffect
  <2> HIDE DEF q
  <2>3. PICK d : d = Home!DashboardEffect(page)
    OBVIOUS
  <2>4. d \in Home!Pages
    <3>1. PICK a : a = [page EXCEPT !.figures = None, !.dashboardScope = None]
      OBVIOUS
    <3>2. d = [a EXCEPT !.dashboardRequest = None, !.loading = FALSE]
      BY <2>1, <2>3, <3>1, Zenon
    <3>3. a \in Home!Pages
      BY <1>0, <3>1, Zenon DEF Home!Pages
    <3> QED BY <3>2, <3>3, Zenon DEF Home!Pages
  <2>2. /\ d.currency = page.currency /\ d.account = page.account /\ d.period = page.period
        /\ d.mode = page.mode /\ d.resources = page.resources /\ d.ready
        /\ d.resourcesRequest = page.resourcesRequest /\ d.resourcesLoading = page.resourcesLoading
        /\ d.chart = page.chart /\ d.chartRequest = page.chartRequest /\ d.flowLoading = page.flowLoading
        /\ d.dirty = page.dirty /\ ~ d.loading /\ d.figures = None /\ d.dashboardScope = None
        /\ d.dashboardRequest = None
    BY <1>0, <2>1, <2>3 DEF Home!Pages
  <2> QED BY <1>1, <1>5, <2>2, <2>3, <2>4
<1> QED BY <1>3, <1>4, <1>5

LEMMA HomeEffects ==
  ASSUME ledger \in Ledgers, HomeGood(page, ledger), page.dirty # {}
  PROVE  LET n == [Home!ChartEffect(Home!DashboardEffect(page)) EXCEPT !.dirty = {}] IN
         HomeGood(n, ledger) /\ Home!ViewState(n) = Home!ViewState(page)
<1> PICK n : n = [Home!ChartEffect(Home!DashboardEffect(page)) EXCEPT !.dirty = {}]
  OBVIOUS
<1>0. page \in Home!Pages
  BY DEF HomeGood
<1>1. CASE ~ page.ready
  <2>1. n = [page EXCEPT !.dirty = {}]
    BY <1>1 DEF Home!ChartEffect, Home!DashboardEffect
  <2>5. n \in Home!Pages
    BY <1>0, <2>1 DEF Home!Pages
  <2>2. /\ n.currency = page.currency /\ n.account = page.account /\ n.period = page.period
        /\ n.mode = page.mode /\ n.resources = page.resources /\ ~ n.ready
        /\ n.resourcesRequest = page.resourcesRequest /\ n.resourcesLoading = page.resourcesLoading
        /\ n.chartRequest = page.chartRequest /\ n.flowLoading = page.flowLoading
        /\ n.loading = page.loading /\ n.figures = page.figures /\ n.dashboardScope = page.dashboardScope
        /\ n.dashboardRequest = page.dashboardRequest /\ n.dirty = {}
    BY <1>0, <1>1, <2>1 DEF Home!Pages
  <2>3. HomeSpinners(n) /\ HomeReady(n, ledger) /\ HomeFigures(n, ledger) /\ HomeChart(n, ledger)
    BY <1>1, <2>2 DEF HomeGood, HomeSpinners, HomeReady, HomeFigures, HomeChart
  <2>4. Home!ViewState(n) = Home!ViewState(page)
    BY <2>2 DEF Home!ViewState
  <2> QED BY <2>3, <2>4, <2>5 DEF HomeGood
<1>2. CASE page.ready
  <2> DEFINE q == HomeScope(page, ledger)
  <2> PICK d : d = Home!DashboardEffect(page)
    OBVIOUS
  <2>1. /\ d \in Home!Pages
        /\ d.currency = page.currency /\ d.account = page.account /\ d.period = page.period
        /\ d.mode = page.mode /\ d.resources = page.resources /\ d.ready
        /\ d.resourcesRequest = page.resourcesRequest /\ d.resourcesLoading = page.resourcesLoading
        /\ d.chart = page.chart /\ d.chartRequest = page.chartRequest /\ d.flowLoading = page.flowLoading
        /\ d.dirty = page.dirty
        /\ d.loading <=> d.dashboardRequest # None
        /\ d.figures # None => d.figures = d.dashboardScope
        /\ d.dashboardRequest # None => d.dashboardRequest = d.dashboardScope
        /\ d.figures \in {None, q} /\ d.dashboardRequest \in {None, q}
        /\ HomeRanged(page) => q \in {d.figures, d.dashboardRequest}
    BY <1>2, HomeDashboardEffect
  <2>7. d \in Home!Pages
    BY <2>1
  <2>8. d.ready /\ d.resources = page.resources /\ d.resourcesRequest = page.resourcesRequest
        /\ d.resourcesLoading = page.resourcesLoading /\ (d.loading <=> d.dashboardRequest # None)
    BY <2>1
  <2>2. "chart" \in d.dirty
    BY <2>1 DEF HomeGood, HomeReady, Home!Both
  <2>3. /\ page.resourcesLoading <=> page.resourcesRequest # None
        /\ page.resources # None /\ page.resourcesRequest = None /\ page.resources.ledger = ledger
    BY <1>2 DEF HomeGood, HomeReady, HomeSpinners
  <2>4. (Home!Ranged(d) <=> HomeRanged(page)) /\ Home!Query(d) = HomeQuery(page, ledger)
        /\ HomeScope(d, ledger) = q
    BY <2>1 DEF Home!Ranged, HomeRanged, Home!Query, Home!Scope, HomeQuery, HomeScope
  <2> HIDE DEF q
  <2>5. CASE Home!Ranged(d)
    <3> PICK c : c = Home!Query(d)
      OBVIOUS
    <3>1. c \in Home!Queries /\ c # None
      BY <2>1, <2>5, HomeScopes
    <3>2. n = [d EXCEPT !.chart = None, !.chartRequest = c, !.flowLoading = TRUE, !.error = FALSE, !.dirty = {}]
      BY <2>1, <2>2, <2>5 DEF Home!ChartEffect, Home!LoadChart, Home!Pages
    <3>8. n \in Home!Pages
      <4>1. d \in Home!Pages /\ c \in Home!Queries
        BY <2>1, <3>1
      <4> QED BY <3>2, <4>1, Zenon DEF Home!Pages
    <3>3. /\ n.currency = d.currency /\ n.account = d.account /\ n.period = d.period
          /\ n.mode = d.mode /\ n.resources = d.resources /\ n.ready = d.ready
          /\ n.resourcesRequest = d.resourcesRequest /\ n.resourcesLoading = d.resourcesLoading
          /\ n.loading = d.loading /\ n.figures = d.figures
          /\ n.dashboardScope = d.dashboardScope /\ n.dashboardRequest = d.dashboardRequest
      BY <2>7, <3>2 DEF Home!Pages
    <3>9. /\ n.chart = None /\ n.chartRequest = c /\ n.flowLoading = TRUE /\ n.dirty = {}
      BY <2>7, <3>2 DEF Home!Pages
    <3>4. HomeScope(n, ledger) = q /\ HomeQuery(n, ledger) = c
          /\ Home!ViewState(n) = Home!ViewState(page)
      BY <2>1, <2>4, <3>3 DEF HomeScope, HomeQuery, Home!ViewState, q
    <3>5. HomeSpinners(n) /\ HomeReady(n, ledger)
      BY <2>3, <2>8, <3>1, <3>3, <3>9 DEF HomeSpinners, HomeReady
    <3>6. HomeFigures(n, ledger)
      BY <2>1, <2>4, <2>5, <3>3, <3>4, <3>9 DEF HomeFigures
    <3>7. HomeChart(n, ledger)
      BY <3>3, <3>4, <3>9 DEF HomeChart
    <3> QED BY <3>4, <3>5, <3>6, <3>7, <3>8 DEF HomeGood
  <2>6. CASE ~ Home!Ranged(d)
    <3>2. n = [d EXCEPT !.chart = None, !.chartRequest = None, !.flowLoading = FALSE, !.dirty = {}]
      BY <2>1, <2>2, <2>6 DEF Home!ChartEffect, Home!Pages
    <3>8. n \in Home!Pages
      <4>1. d \in Home!Pages
        BY <2>1
      <4> QED BY <3>2, <4>1, Zenon DEF Home!Pages
    <3>3. /\ n.currency = d.currency /\ n.account = d.account /\ n.period = d.period
          /\ n.mode = d.mode /\ n.resources = d.resources /\ n.ready = d.ready
          /\ n.resourcesRequest = d.resourcesRequest /\ n.resourcesLoading = d.resourcesLoading
          /\ n.loading = d.loading /\ n.figures = d.figures
          /\ n.dashboardScope = d.dashboardScope /\ n.dashboardRequest = d.dashboardRequest
      BY <2>7, <3>2 DEF Home!Pages
    <3>9. /\ n.chart = None /\ n.chartRequest = None /\ n.flowLoading = FALSE /\ n.dirty = {}
      BY <2>7, <3>2 DEF Home!Pages
    <3>4. HomeScope(n, ledger) = q /\ ~ HomeRanged(n)
          /\ Home!ViewState(n) = Home!ViewState(page)
      BY <2>1, <2>4, <2>6, <3>3 DEF HomeScope, HomeRanged, Home!ViewState, q
    <3>5. HomeSpinners(n) /\ HomeReady(n, ledger)
      BY <2>3, <2>8, <3>3, <3>9 DEF HomeSpinners, HomeReady
    <3>6. HomeFigures(n, ledger)
      BY <2>1, <3>3, <3>4, <3>9 DEF HomeFigures
    <3>7. HomeChart(n, ledger)
      BY <3>3, <3>4, <3>9 DEF HomeChart
    <3> QED BY <3>4, <3>5, <3>6, <3>7, <3>8 DEF HomeGood
  <2> QED BY <2>5, <2>6
<1> QED BY <1>1, <1>2

\* A changed currency or period has both effects to run.
LEMMA HomeSelected ==
  ASSUME NEW l \in Ledgers, NEW p, HomeGood(p, l), NEW n \in Home!Pages, n.dirty = Home!Both,
         n.resources = p.resources, n.ready = p.ready,
         n.resourcesRequest = p.resourcesRequest, n.resourcesLoading = p.resourcesLoading,
         n.figures = p.figures, n.dashboardScope = p.dashboardScope,
         n.dashboardRequest = p.dashboardRequest, n.loading = p.loading,
         n.chartRequest = p.chartRequest, n.flowLoading = p.flowLoading
  PROVE  HomeGood(n, l)
<1>1. HomeSpinners(n) /\ HomeReady(n, l)
  BY DEF HomeGood, HomeSpinners, HomeReady
<1>2. "dashboard" \in n.dirty /\ "chart" \in n.dirty /\ n.dirty # {"chart"}
  BY DEF Home!Both
<1>3. HomeFigures(n, l)
  BY <1>2 DEF HomeGood, HomeFigures
<1>4. HomeChart(n, l)
  BY <1>2 DEF HomeChart
<1> QED BY <1>1, <1>3, <1>4 DEF HomeGood

\* An account is selected beside the figures of the selection.
LEMMA HomeAccount ==
  ASSUME ledger \in Ledgers, HomeGood(page, ledger), Home!CardsShown, NEW a \in Home!Accounts
  PROVE  HomeGood([page EXCEPT !.account = a, !.dirty = @ \cup {"chart"}], ledger)
<1> PICK n : n = [page EXCEPT !.account = a, !.dirty = @ \cup {"chart"}]
  OBVIOUS
<1>1. page \in Home!Pages /\ page.dirty \in {{}, {"chart"}, Home!Both} /\ page.dirty \in SUBSET {"dashboard", "chart"}
  BY DEF HomeGood, HomeReady, Home!Both
<1>2. page.dirty \cup {"chart"} \in {{"chart"}, Home!Both}
      /\ ("dashboard" \notin page.dirty \cup {"chart"} => "dashboard" \notin page.dirty)
  BY <1>1 DEF Home!Both
<1> DEFINE d == page.dirty \cup {"chart"}
<1>3. n \in Home!Pages
  <2>1. d \in SUBSET {"dashboard", "chart"}
    BY <1>1
  <2>2. n = [page EXCEPT !.account = a, !.dirty = d]
    BY <1>1 DEF Home!Pages
  <2> HIDE DEF d
  <2> QED BY <1>1, <2>1, <2>2, Zenon DEF Home!Pages
<1>4. /\ n.currency = page.currency /\ n.account = a /\ n.period = page.period
      /\ n.mode = page.mode /\ n.resources = page.resources /\ n.ready = page.ready
      /\ n.resourcesRequest = page.resourcesRequest /\ n.resourcesLoading = page.resourcesLoading
      /\ n.chart = page.chart /\ n.chartRequest = page.chartRequest /\ n.flowLoading = page.flowLoading
      /\ n.loading = page.loading /\ n.figures = page.figures /\ n.dashboardScope = page.dashboardScope
      /\ n.dashboardRequest = page.dashboardRequest /\ n.error = page.error /\ n.dirty = d
  BY <1>1 DEF Home!Pages
<1>5. "chart" \in d /\ d \in {{"chart"}, Home!Both} /\ ("dashboard" \notin d => "dashboard" \notin page.dirty)
  BY <1>2
<1> HIDE DEF d
<1>6. HomeSpinners(n) /\ HomeReady(n, ledger)
  BY <1>4, <1>5 DEF HomeGood, HomeSpinners, HomeReady
<1>7. HomeChart(n, ledger)
  BY <1>4, <1>5 DEF HomeChart
<1>8. HomeScope(n, ledger) = HomeScope(page, ledger) /\ (HomeRanged(n) <=> HomeRanged(page))
  BY <1>4 DEF HomeScope, HomeRanged
<1>9. page.ready /\ "dashboard" \notin page.dirty => page.figures = HomeScope(page, ledger)
  <2>1. Home!Scope(page) = HomeScope(page, ledger) /\ (Home!Ranged(page) <=> HomeRanged(page))
    BY DEF Home!Scope, HomeScope, Home!Ranged, HomeRanged
  <2>2. ~ page.error /\ HomeRanged(page) /\ (page.loading => page.figures # None)
    BY <2>1 DEF Home!CardsShown
  <2>3. HomeScope(page, ledger) # None
    BY <1>1, <2>1, <2>2, HomeScopes
  <2> QED BY <2>2, <2>3 DEF HomeGood, HomeFigures, HomeSpinners
<1>10. HomeFigures(n, ledger)
  <2>1. "dashboard" \notin n.dirty => "dashboard" \notin page.dirty
    BY <1>4, <1>5
  <2>2. n.dirty = {"chart"} => "dashboard" \notin n.dirty
    OBVIOUS
  <2> QED BY <1>4, <1>8, <1>9, <2>1, <2>2 DEF HomeGood, HomeFigures
<1> QED BY <1>3, <1>6, <1>7, <1>10 DEF HomeGood

LEMMA HomeStep ==
  ASSUME HomeInv, Home!Next
  PROVE  HomeInv' /\ page' # None /\ ledger' = ledger
<1>0. page # None
  BY DEF Home!Next, Home!Open, Home!SelectCurrency, Home!SelectFlowAccount, Home!SelectPeriod, Home!SetFlowMode,
         Home!Retry, Home!Effects, Home!ResourcesAnswer, Home!ResourcesFail, Home!DashboardAnswer, Home!ChartAnswer
<1>1. page \in Home!Pages /\ HomeGood(page, ledger) /\ ledger \in Ledgers
      /\ saved \in [Ledgers -> Home!Views \cup {None}]
      /\ (saved[ledger] # None => saved[ledger] = Home!ViewState(page))
  BY <1>0 DEF HomeInv, HomeGood
<1>2. ASSUME NEW p, Home!Become(p), HomeGood(p, ledger), Home!ViewState(p) = Home!ViewState(page)
      PROVE  HomeInv' /\ page' # None /\ ledger' = ledger
  <2>1. page' = p /\ UNCHANGED <<ledger, saved>>
    BY <1>2 DEF Home!Become
  <2>2. p # None
    BY <1>2, NoneAssumption DEF HomeGood
  <2>3. Home!ViewState(page)' = Home!ViewState(p)
    BY <2>1 DEF Home!ViewState
  <2>4. HomeGood(page, ledger)'
    BY <1>2, <2>1 DEF HomeGood, HomeSpinners, HomeReady, HomeFigures, HomeChart, HomeRanged, HomeScope, HomeQuery
  <2> QED BY <1>1, <1>2, <2>1, <2>2, <2>3, <2>4 DEF HomeInv
<1>3. ASSUME NEW p, Home!Save(p), HomeGood(p, ledger)
      PROVE  HomeInv' /\ page' # None /\ ledger' = ledger
  <2> DEFINE v == Home!ViewState(p)
  <2>1. page' = p /\ saved' = [saved EXCEPT ![ledger] = v] /\ ledger' = ledger
    BY <1>3 DEF Home!Save
  <2>2. p # None
    BY <1>3, NoneAssumption DEF HomeGood
  <2>3. Home!ViewState(page)' = v
    BY <2>1 DEF Home!ViewState
  <2>4. v \in Home!Views
    BY <1>3 DEF HomeGood, Home!Pages, Home!Views, Home!ViewState
  <2> HIDE DEF v
  <2>5. saved' \in [Ledgers -> Home!Views \cup {None}] /\ saved'[ledger] = v
    BY <1>1, <2>1, <2>4
  <2>6. HomeGood(page, ledger)'
    BY <1>3, <2>1 DEF HomeGood, HomeSpinners, HomeReady, HomeFigures, HomeChart, HomeRanged, HomeScope, HomeQuery
  <2> QED BY <1>1, <1>3, <2>1, <2>2, <2>3, <2>5, <2>6 DEF HomeInv
<1>4. ASSUME NEW c \in Home!Currencies, Home!SelectCurrency(c)
      PROVE  HomeInv' /\ page' # None /\ ledger' = ledger
  <2>1. PICK acc : acc = (IF page.account \in page.resources.offer.accounts /\ CurrencyOf[page.account] = c
                          THEN page.account ELSE None)
    OBVIOUS
  <2> DEFINE n == [page EXCEPT !.currency = c, !.dirty = Home!Both, !.account = acc]
  <2>2. Home!Save(n)
    BY <1>1, <1>4, <2>1 DEF Home!SelectCurrency, Home!Select, Home!Pages
  <2>3. acc \in Home!Accounts
    BY <1>1, <2>1 DEF Home!Accounts, Home!Pages
  <2>4. Home!Both \in SUBSET {"dashboard", "chart"}
    BY DEF Home!Both
  <2>5. HomeGood(n, ledger)
    <3>1. n \in Home!Pages
      BY <1>1, <2>3, <2>4, Zenon DEF Home!Pages
    <3>2. /\ n.dirty = Home!Both
          /\ n.resources = page.resources /\ n.ready = page.ready
          /\ n.resourcesRequest = page.resourcesRequest /\ n.resourcesLoading = page.resourcesLoading
          /\ n.chartRequest = page.chartRequest /\ n.flowLoading = page.flowLoading
          /\ n.loading = page.loading /\ n.figures = page.figures /\ n.dashboardScope = page.dashboardScope
          /\ n.dashboardRequest = page.dashboardRequest
      BY <1>1 DEF Home!Pages
    <3> HIDE DEF n
    <3> QED BY <1>1, <3>1, <3>2, HomeSelected
  <2> HIDE DEF n
  <2> QED BY <1>3, <2>2, <2>5
<1>5. ASSUME NEW a \in Home!Accounts, Home!SelectFlowAccount(a)
      PROVE  HomeInv' /\ page' # None /\ ledger' = ledger
  <2> PICK n : n = [page EXCEPT !.account = a, !.dirty = @ \cup {"chart"}]
    OBVIOUS
  <2>1. Home!Save(n) /\ Home!CardsShown
    BY <1>5 DEF Home!SelectFlowAccount
  <2>2. HomeGood(n, ledger)
    BY <1>1, <2>1, HomeAccount
  <2> QED BY <1>3, <2>1, <2>2
<1>6. ASSUME NEW t \in Periods, Home!SelectPeriod(t)
      PROVE  HomeInv' /\ page' # None /\ ledger' = ledger
  <2> DEFINE n == [page EXCEPT !.period = t, !.dirty = Home!Both]
  <2>1. Home!Save(n)
    BY <1>6 DEF Home!SelectPeriod
  <2>2. Home!Both \in SUBSET {"dashboard", "chart"}
    BY DEF Home!Both
  <2>3. HomeGood(n, ledger)
    <3>1. n \in Home!Pages
      BY <1>1, <2>2, Zenon DEF Home!Pages
    <3>2. /\ n.dirty = Home!Both
          /\ n.resources = page.resources /\ n.ready = page.ready
          /\ n.resourcesRequest = page.resourcesRequest /\ n.resourcesLoading = page.resourcesLoading
          /\ n.chartRequest = page.chartRequest /\ n.flowLoading = page.flowLoading
          /\ n.loading = page.loading /\ n.figures = page.figures /\ n.dashboardScope = page.dashboardScope
          /\ n.dashboardRequest = page.dashboardRequest
      BY <1>1 DEF Home!Pages
    <3> HIDE DEF n
    <3> QED BY <1>1, <3>1, <3>2, HomeSelected
  <2> HIDE DEF n
  <2> QED BY <1>3, <2>1, <2>3
<1>7. ASSUME NEW m \in Home!Modes, Home!SetFlowMode(m)
      PROVE  HomeInv' /\ page' # None /\ ledger' = ledger
  <2> DEFINE n == [page EXCEPT !.mode = m]
  <2>1. Home!Save(n)
    BY <1>7 DEF Home!SetFlowMode
  <2>2. n \in Home!Pages
    BY <1>1, Zenon DEF Home!Pages
  <2>3. /\ n.currency = page.currency /\ n.account = page.account /\ n.period = page.period
        /\ n.resources = page.resources /\ n.ready = page.ready
        /\ n.resourcesRequest = page.resourcesRequest /\ n.resourcesLoading = page.resourcesLoading
        /\ n.chart = page.chart /\ n.chartRequest = page.chartRequest /\ n.flowLoading = page.flowLoading
        /\ n.loading = page.loading /\ n.figures = page.figures /\ n.dashboardScope = page.dashboardScope
        /\ n.dashboardRequest = page.dashboardRequest /\ n.error = page.error /\ n.dirty = page.dirty
    BY <1>1 DEF Home!Pages
  <2> HIDE DEF n
  <2>4. HomeSpinners(n) /\ HomeReady(n, ledger) /\ HomeFigures(n, ledger) /\ HomeChart(n, ledger)
    BY <1>1, <2>3 DEF HomeGood, HomeSpinners, HomeReady, HomeFigures, HomeChart, HomeRanged, HomeScope, HomeQuery
  <2>5. HomeGood(n, ledger)
    BY <2>2, <2>4 DEF HomeGood
  <2> QED BY <1>3, <2>1, <2>5
<1>8. CASE Home!Retry
  <2> PICK n : n = HomeReloaded(page, ledger, Home!Both)
    OBVIOUS
  <2>1. Home!Become(n)
    BY <1>8 DEF Home!Retry, HomeReloaded
  <2>2. /\ page.resources # None => page.resources.ledger = ledger
        /\ page.figures # None => page.figures = page.dashboardScope
    BY <1>1 DEF HomeGood, HomeReady, HomeFigures
  <2>3. Home!Both \in {{}, {"chart"}, Home!Both}
    OBVIOUS
  <2>4. HomeGood(n, ledger) /\ n.currency = page.currency /\ n.account = page.account /\ n.period = page.period
        /\ n.mode = page.mode
    BY <1>1, <2>2, <2>3, HomeLoadResources
  <2>5. Home!ViewState(n) = Home!ViewState(page)
    BY <2>4 DEF Home!ViewState
  <2> QED BY <1>2, <2>1, <2>4, <2>5
<1>9. CASE Home!Effects
  <2> PICK n : n = [Home!ChartEffect(Home!DashboardEffect(page)) EXCEPT !.dirty = {}]
    OBVIOUS
  <2>1. Home!Become(n) /\ page.dirty # {}
    BY <1>9 DEF Home!Effects
  <2>2. HomeGood(n, ledger) /\ Home!ViewState(n) = Home!ViewState(page)
    BY <1>1, <2>1, HomeEffects
  <2> QED BY <1>2, <2>1, <2>2
<1>10. ASSUME NEW offer, Home!ResourcesAnswer(offer)
       PROVE  HomeInv' /\ page' # None /\ ledger' = ledger
  <2>1. page.resourcesRequest = ledger /\ offer \in Offers[ledger]
    BY <1>1, <1>10 DEF Home!ResourcesAnswer, HomeGood, HomeReady
  <2>2. PICK c : c = (IF page.currency \in Home!Members(offer.currencies) THEN page.currency
                      ELSE IF offer.currencies = <<>> THEN None ELSE Head(offer.currencies))
    OBVIOUS
  <2>3. PICK acc : acc = (IF page.account \in offer.accounts /\ CurrencyOf[page.account] = c
                          THEN page.account ELSE None)
    OBVIOUS
  <2>4. c \in Home!Currencies \cup {None}
    <3>1. Home!Currencies = Flows!Currencies
      BY DEF Home!Currencies, Flows!Currencies, Home!Members, Flows!Members
    <3>2. offer.currencies \in Seq(Home!Currencies)
      BY <1>1, <2>1, <3>1, WorkspaceAssumption
    <3>3. offer.currencies # <<>> => Head(offer.currencies) \in Home!Currencies
      BY <3>2
    <3> QED BY <1>1, <2>2, <3>3 DEF Home!Pages
  <2>5. acc \in Home!Accounts
    BY <1>1, <2>3 DEF Home!Accounts, Home!Pages
  <2> DEFINE r == [ledger |-> ledger, offer |-> offer]
  <2>6. r \in Home!Resources
    BY <1>1, <2>1 DEF Home!Resources
  <2>7. r # None /\ r.ledger = ledger
    BY <2>6, NoneAssumption
  <2> DEFINE n == [page EXCEPT !.currency = c, !.dirty = Home!Both, !.account = acc, !.resources = r,
                               !.resourcesRequest = None, !.resourcesLoading = FALSE, !.ready = TRUE]
  <2>8. Home!Save(n)
    <3>1. Home!Save([Home!Select(page, c, offer.accounts) EXCEPT
                        !.resources = [ledger |-> page.resourcesRequest, offer |-> offer],
                        !.resourcesRequest = None, !.resourcesLoading = FALSE, !.ready = TRUE])
      BY <1>10, <2>2 DEF Home!ResourcesAnswer
    <3> QED BY <1>1, <2>1, <2>3, <3>1 DEF Home!Select, Home!Pages
  <2> HIDE DEF r
  <2>9. n \in Home!Pages
    <3>1. Home!Both \in SUBSET {"dashboard", "chart"}
      BY DEF Home!Both
    <3>2. PICK a : a = [page EXCEPT !.currency = c, !.dirty = Home!Both]
      OBVIOUS
    <3>3. PICK b : b = [a EXCEPT !.account = acc, !.resources = r]
      OBVIOUS
    <3>4. n = [b EXCEPT !.resourcesRequest = None, !.resourcesLoading = FALSE, !.ready = TRUE]
      BY <3>2, <3>3, Zenon
    <3>5. a \in Home!Pages
      BY <1>1, <2>4, <3>1, <3>2, Zenon DEF Home!Pages
    <3>6. b \in Home!Pages
      BY <2>5, <2>6, <3>3, <3>5, Zenon DEF Home!Pages
    <3>7. PICK e : e = [b EXCEPT !.resourcesRequest = None]
      OBVIOUS
    <3>8. e \in Home!Pages
      BY <3>6, <3>7 DEF Home!Pages
    <3>9. n = [e EXCEPT !.resourcesLoading = FALSE, !.ready = TRUE]
      BY <3>4, <3>7, Zenon
    <3> HIDE DEF n
    <3> QED BY <3>8, <3>9, Zenon DEF Home!Pages
  <2>10. /\ n.resources = r /\ n.ready /\ n.resourcesRequest = None
         /\ ~ n.resourcesLoading /\ n.dirty = Home!Both
         /\ n.chartRequest = page.chartRequest /\ n.flowLoading = page.flowLoading
         /\ n.loading = page.loading /\ n.figures = page.figures /\ n.dashboardScope = page.dashboardScope
         /\ n.dashboardRequest = page.dashboardRequest
    BY <1>1 DEF Home!Pages
  <2> HIDE DEF n
  <2>11. HomeSpinners(n) /\ HomeReady(n, ledger)
    BY <1>1, <2>7, <2>10 DEF HomeGood, HomeSpinners, HomeReady
  <2>12. "dashboard" \in n.dirty /\ "chart" \in n.dirty /\ n.dirty # {"chart"}
    BY <2>10 DEF Home!Both
  <2>13. HomeFigures(n, ledger) /\ HomeChart(n, ledger)
    BY <1>1, <2>10, <2>12 DEF HomeGood, HomeFigures, HomeChart
  <2>14. HomeGood(n, ledger)
    BY <2>9, <2>11, <2>13 DEF HomeGood
  <2> QED BY <1>3, <2>8, <2>14
<1>11. CASE Home!ResourcesFail
  <2> DEFINE n == [page EXCEPT !.resourcesRequest = None, !.resourcesLoading = FALSE, !.error = TRUE]
  <2>1. Home!Become(n) /\ page.resourcesRequest # None
    BY <1>11 DEF Home!ResourcesFail
  <2>2. n \in Home!Pages
    BY <1>1, Zenon DEF Home!Pages
  <2>3. /\ n.currency = page.currency /\ n.account = page.account /\ n.period = page.period
        /\ n.mode = page.mode /\ n.resources = page.resources /\ n.ready = page.ready
        /\ n.resourcesRequest = None /\ ~ n.resourcesLoading /\ n.error
        /\ n.chart = page.chart /\ n.chartRequest = page.chartRequest /\ n.flowLoading = page.flowLoading
        /\ n.loading = page.loading /\ n.figures = page.figures /\ n.dashboardScope = page.dashboardScope
        /\ n.dashboardRequest = page.dashboardRequest /\ n.dirty = page.dirty
    BY <1>1 DEF Home!Pages
  <2> HIDE DEF n
  <2>4. ~ page.ready
    BY <1>1, <2>1 DEF HomeGood, HomeReady
  <2>5. HomeSpinners(n) /\ HomeReady(n, ledger) /\ HomeFigures(n, ledger) /\ HomeChart(n, ledger)
    BY <1>1, <2>3, <2>4 DEF HomeGood, HomeSpinners, HomeReady, HomeFigures, HomeChart
  <2>6. HomeGood(n, ledger) /\ Home!ViewState(n) = Home!ViewState(page)
    BY <2>2, <2>3, <2>5 DEF HomeGood, Home!ViewState
  <2> QED BY <1>2, <2>1, <2>6
<1>12. ASSUME NEW ok \in BOOLEAN, Home!DashboardAnswer(ok)
       PROVE  HomeInv' /\ page' # None /\ ledger' = ledger
  <2>10. PICK f : f = IF ok THEN page.dashboardRequest ELSE page.figures
    OBVIOUS
  <2>11. PICK e : e = (page.error \/ ~ ok)
    OBVIOUS
  <2> DEFINE n == [page EXCEPT !.figures = f, !.dashboardRequest = None, !.loading = FALSE, !.error = e]
  <2>1. Home!Become(n) /\ page.dashboardRequest # None
    BY <1>1, <1>12, <2>10, <2>11 DEF Home!DashboardAnswer, Home!Pages
  <2>2. n \in Home!Pages
    <3>1. f \in Home!Scopes \cup {None}
      BY <1>1, <2>10 DEF Home!Pages
    <3>2. e \in BOOLEAN
      BY <2>11
    <3> QED BY <1>1, <3>1, <3>2, ZenonT(60) DEF Home!Pages
  <2>3. /\ n.currency = page.currency /\ n.account = page.account /\ n.period = page.period
        /\ n.mode = page.mode /\ n.resources = page.resources /\ n.ready = page.ready
        /\ n.resourcesRequest = page.resourcesRequest /\ n.resourcesLoading = page.resourcesLoading
        /\ n.chart = page.chart /\ n.chartRequest = page.chartRequest /\ n.flowLoading = page.flowLoading
        /\ ~ n.loading /\ n.figures = f /\ n.dashboardScope = page.dashboardScope
        /\ n.dashboardRequest = None /\ n.dirty = page.dirty /\ n.error = e
    BY <1>1 DEF Home!Pages
  <2> HIDE DEF n
  <2>4. (~ n.error => ok /\ ~ page.error) /\ (page.error => n.error)
    BY <2>3, <2>11
  <2>5. HomeScope(n, ledger) = HomeScope(page, ledger) /\ (HomeRanged(n) <=> HomeRanged(page))
        /\ HomeQuery(n, ledger) = HomeQuery(page, ledger) /\ Home!ViewState(n) = Home!ViewState(page)
    BY <2>3 DEF HomeScope, HomeRanged, HomeQuery, Home!ViewState
  <2>6. HomeSpinners(n) /\ HomeReady(n, ledger)
    BY <1>1, <2>1, <2>3 DEF HomeGood, HomeSpinners, HomeReady
  <2>7. HomeFigures(n, ledger)
    BY <1>1, <2>1, <2>3, <2>4, <2>5, <2>10 DEF HomeGood, HomeFigures
  <2>8. HomeChart(n, ledger)
    BY <1>1, <2>3, <2>4, <2>5 DEF HomeGood, HomeChart
  <2>9. HomeGood(n, ledger)
    BY <2>2, <2>6, <2>7, <2>8 DEF HomeGood
  <2> QED BY <1>2, <2>1, <2>5, <2>9
<1>13. ASSUME NEW ok \in BOOLEAN, Home!ChartAnswer(ok)
       PROVE  HomeInv' /\ page' # None /\ ledger' = ledger
  <2>10. PICK c : c = IF ok THEN page.chartRequest ELSE page.chart
    OBVIOUS
  <2>11. PICK e : e = (page.error \/ ~ ok)
    OBVIOUS
  <2> DEFINE n == [page EXCEPT !.chart = c, !.chartRequest = None, !.flowLoading = FALSE, !.error = e]
  <2>1. Home!Become(n) /\ page.chartRequest # None
    BY <1>1, <1>13, <2>10, <2>11 DEF Home!ChartAnswer, Home!Pages
  <2>2. n \in Home!Pages
    <3>1. c \in Home!Queries \cup {None}
      BY <1>1, <2>10 DEF Home!Pages
    <3>2. e \in BOOLEAN
      BY <2>11
    <3> QED BY <1>1, <3>1, <3>2, ZenonT(60) DEF Home!Pages
  <2>3. /\ n.currency = page.currency /\ n.account = page.account /\ n.period = page.period
        /\ n.mode = page.mode /\ n.resources = page.resources /\ n.ready = page.ready
        /\ n.resourcesRequest = page.resourcesRequest /\ n.resourcesLoading = page.resourcesLoading
        /\ n.chart = c /\ n.chartRequest = None /\ ~ n.flowLoading
        /\ n.loading = page.loading /\ n.figures = page.figures /\ n.dashboardScope = page.dashboardScope
        /\ n.dashboardRequest = page.dashboardRequest /\ n.dirty = page.dirty /\ n.error = e
    BY <1>1 DEF Home!Pages
  <2> HIDE DEF n
  <2>4. (~ n.error => ok /\ ~ page.error) /\ (page.error => n.error)
    BY <2>3, <2>11
  <2>5. HomeScope(n, ledger) = HomeScope(page, ledger) /\ (HomeRanged(n) <=> HomeRanged(page))
        /\ HomeQuery(n, ledger) = HomeQuery(page, ledger) /\ Home!ViewState(n) = Home!ViewState(page)
    BY <2>3 DEF HomeScope, HomeRanged, HomeQuery, Home!ViewState
  <2>6. HomeSpinners(n) /\ HomeReady(n, ledger)
    BY <1>1, <2>1, <2>3 DEF HomeGood, HomeSpinners, HomeReady
  <2>7. HomeFigures(n, ledger)
    BY <1>1, <2>3, <2>4, <2>5 DEF HomeGood, HomeFigures
  <2>8. HomeChart(n, ledger)
    BY <1>1, <2>1, <2>3, <2>4, <2>5, <2>10 DEF HomeGood, HomeChart
  <2>9. HomeGood(n, ledger)
    BY <2>2, <2>6, <2>7, <2>8 DEF HomeGood
  <2> QED BY <1>2, <2>1, <2>5, <2>9
<1> QED BY <1>4, <1>5, <1>6, <1>7, <1>8, <1>9, <1>10, <1>11, <1>12, <1>13 DEF Home!Next, Home!Accounts

--------------------------------------------------------------------------------
(* The financial events *)

ActivityBegun(p) ==
  p.changes + (IF p.deleteRequest = None THEN 0 ELSE 1) + (IF p.editor = "saving" THEN 1 ELSE 0)

\* The first page of a list is asked for once all that is under way for the
\* list before is given up; a further page follows the pages on the screen.
ActivityLists(p) ==
  /\ p.eventsRequest # None =>
       /\ p.eventsRequest.query = p.applied /\ p.eventsRequest.pages = 1
       /\ ~ p.nextCursor /\ p.moreRequest = None
  /\ p.nextCursor => p.events # None /\ p.events.pages < MaxPages
  /\ p.moreRequest # None =>
       /\ p.events # None
       /\ p.moreRequest.query = p.events.query /\ p.moreRequest.pages = p.events.pages + 1
  /\ p.eventsRequest = None /\ ~ p.error =>
       IF p.events = None THEN p.applied = None ELSE p.events.query = p.applied

ActivityFigures(p) ==
  /\ p.balance.of \in {None, p.applied} /\ p.balance.request \in {None, p.applied}
  /\ p.summary.of \in {None, p.applied} /\ p.summary.request \in {None, p.applied}
  /\ p.balance.loading <=> p.balance.request # None
  /\ p.summary.loading <=> p.summary.request # None

\* What holds of a page that is about to load its events.
ActivityLoose(p, l) ==
  /\ p.applied # None => p.applied.ledger = l
  /\ p.resources \in {None, l} /\ p.workspaceRequest \in {None, l}
  /\ p.loadingMore <=> p.moreRequest # None
  /\ p.deletingBusy <=> p.deleteRequest # None
  /\ ActivityBegun(p) <= MaxChanges
  /\ ActivityLists(p) /\ ActivityFigures(p)

\* The changes are in the list on the screen, or in the one that is under way.
ActivityFresh(p) ==
  /\ p.loading => p.workspaceRequest # None \/ p.eventsRequest # None
  /\ p.eventsRequest # None /\ ~ p.filterError => p.eventsRequest.fresh = p.changes
  /\ p.eventsRequest = None /\ ~ p.error /\ p.events # None /\ ~ p.filterError => p.events.fresh = p.changes

ActivityGood(p, l) == p \in Activity!Pages /\ ActivityLoose(p, l) /\ ActivityFresh(p)

ActivityInv ==
  /\ saved \in [Ledgers -> Activity!Filters \cup {None}]
  /\ page # None => /\ ledger \in Ledgers /\ ActivityGood(page, ledger)
                    /\ saved[ledger] # None => saved[ledger] = page.filter

LEMMA ActivityFigureTypes ==
  ASSUME NEW q \in Activity!Queries
  PROVE  /\ Activity!Asked(q) \in Activity!Figures /\ Activity!Nothing \in Activity!Figures
         /\ Activity!Asked(q).of = None /\ Activity!Asked(q).request = q /\ Activity!Asked(q).loading
         /\ Activity!Nothing.of = None /\ Activity!Nothing.request = None /\ ~ Activity!Nothing.loading
BY DEF Activity!Asked, Activity!Nothing, Activity!Figures

LEMMA ActivityLoadEvents ==
  ASSUME ledger \in Ledgers, NEW p \in Activity!Pages, ActivityLoose(p, ledger),
         NEW n, n = Activity!LoadEvents(p)
  PROVE  ActivityGood(n, ledger) /\ n.filter = p.filter
<1>1. CASE p.filter.period = Invalid
  <2>1. n = [p EXCEPT !.loading = FALSE, !.filterError = TRUE]
    BY <1>1 DEF Activity!LoadEvents
  <2>2. n \in Activity!Pages
    BY <2>1, Zenon DEF Activity!Pages
  <2>3. /\ n.filter = p.filter /\ n.applied = p.applied /\ n.resources = p.resources
        /\ n.workspaceRequest = p.workspaceRequest /\ ~ n.loading /\ n.error = p.error /\ n.filterError
        /\ n.events = p.events /\ n.eventsRequest = p.eventsRequest /\ n.nextCursor = p.nextCursor
        /\ n.moreRequest = p.moreRequest /\ n.loadingMore = p.loadingMore
        /\ n.balance = p.balance /\ n.summary = p.summary /\ n.editor = p.editor
        /\ n.deletingBusy = p.deletingBusy /\ n.deleteRequest = p.deleteRequest /\ n.changes = p.changes
    BY <2>1 DEF Activity!Pages
  <2>4. ActivityLists(n) /\ ActivityFigures(n) /\ ActivityBegun(n) = ActivityBegun(p)
    BY <2>3 DEF ActivityLoose, ActivityLists, ActivityFigures, ActivityBegun
  <2>5. ActivityLoose(n, ledger)
    BY <2>3, <2>4 DEF ActivityLoose
  <2>6. ActivityFresh(n)
    BY <2>3 DEF ActivityFresh
  <2> QED BY <2>2, <2>3, <2>5, <2>6 DEF ActivityGood
<1>2. CASE p.filter.period # Invalid
  <2>1. PICK q : q = [ledger |-> ledger, filter |-> p.filter]
    OBVIOUS
  <2>2. q \in Activity!Queries /\ q.ledger = ledger
    BY <2>1 DEF Activity!Queries, Activity!Pages
  <2>3. q # None
    BY <2>2, NoneAssumption
  <2>4. PICK r : r = [query |-> q, pages |-> 1, fresh |-> p.changes]
    OBVIOUS
  <2>5. p.changes \in 0..MaxChanges /\ 1 \in 1..MaxPages
    BY WorkspaceAssumption DEF Activity!Pages
  <2>6. r \in Activity!Lists /\ r.query = q /\ r.pages = 1 /\ r.fresh = p.changes
    BY <2>2, <2>4, <2>5 DEF Activity!Lists
  <2>7. r # None
    BY <2>6, NoneAssumption
  <2>8. PICK b : b = Activity!LoadAccountBalance(q)
    OBVIOUS
  <2>9. PICK s : s = Activity!LoadCashFlowSummary(p, q)
    OBVIOUS
  <2>10. /\ b \in Activity!Figures /\ s \in Activity!Figures
         /\ b.of = None /\ b.request \in {None, q} /\ (b.loading <=> b.request # None)
         /\ s.of = None /\ s.request \in {None, q} /\ (s.loading <=> s.request # None)
    BY <2>2, <2>3, <2>8, <2>9, ActivityFigureTypes DEF Activity!LoadAccountBalance, Activity!LoadCashFlowSummary
  <2>11. n = [p EXCEPT !.moreRequest = None, !.loadingMore = FALSE, !.nextCursor = FALSE,
                       !.loading = TRUE, !.error = FALSE, !.filterError = FALSE, !.applied = q,
                       !.balance = b, !.summary = s, !.eventsRequest = r]
    BY <1>2, <2>1, <2>4, <2>8, <2>9 DEF Activity!LoadEvents
  <2>12. n \in Activity!Pages
    <3>1. q \in Activity!Queries /\ r \in Activity!Lists
      BY <2>2, <2>6
    <3>2. b \in Activity!Figures /\ s \in Activity!Figures
      BY <2>10
    <3> QED BY <2>11, <3>1, <3>2, ZenonT(60) DEF Activity!Pages
  <2>13. /\ n.filter = p.filter /\ n.applied = q /\ n.resources = p.resources
         /\ n.workspaceRequest = p.workspaceRequest /\ n.events = p.events /\ n.eventsRequest = r
         /\ ~ n.nextCursor /\ n.moreRequest = None /\ ~ n.loadingMore /\ n.editor = p.editor
    BY <2>11 DEF Activity!Pages
  <2>14. /\ n.balance = b /\ n.summary = s /\ ~ n.error /\ ~ n.filterError
         /\ n.deletingBusy = p.deletingBusy /\ n.deleteRequest = p.deleteRequest /\ n.changes = p.changes
    BY <2>11 DEF Activity!Pages
  <2>15. ActivityLists(n)
    BY <2>6, <2>7, <2>13 DEF ActivityLists
  <2>16. ActivityFigures(n)
    BY <2>10, <2>13, <2>14 DEF ActivityFigures
  <2>17. ActivityBegun(n) = ActivityBegun(p)
    BY <2>13, <2>14 DEF ActivityBegun
  <2>18. ActivityLoose(n, ledger)
    BY <2>2, <2>13, <2>14, <2>15, <2>16, <2>17 DEF ActivityLoose
  <2>19. ActivityFresh(n)
    BY <2>6, <2>7, <2>13, <2>14 DEF ActivityFresh
  <2> QED BY <2>12, <2>13, <2>18, <2>19 DEF ActivityGood
<1> QED BY <1>1, <1>2

\* The page of ledger l that is opened.
LEMMA ActivityBlank ==
  ASSUME ActivityInv, NEW l \in Ledgers, NEW n, n = Activity!Opened(l)
  PROVE  /\ n \in Activity!Pages
         /\ saved[l] # None => saved[l] = n.filter
         /\ n.applied = None /\ n.resources = None /\ n.workspaceRequest = l
         /\ n.loading /\ ~ n.error /\ ~ n.filterError /\ n.events = None /\ n.eventsRequest = None
         /\ ~ n.nextCursor /\ n.moreRequest = None /\ ~ n.loadingMore
         /\ n.balance = Activity!Nothing /\ n.summary = Activity!Nothing
         /\ n.editor = "closed" /\ n.deleting = None /\ ~ n.deletingBusy /\ n.deleteRequest = None
         /\ n.changes = 0
<1> PICK f : f = IF saved[l] = None THEN Activity!FirstFilter ELSE saved[l]
  OBVIOUS
<1>1. f \in Activity!Filters /\ (saved[l] # None => saved[l] = f)
  BY DEF ActivityInv, Activity!FirstFilter, Activity!Filters
<1>2. PICK z : z = Activity!Nothing
  OBVIOUS
<1>3. z \in Activity!Figures
  BY <1>2 DEF Activity!Figures, Activity!Nothing
<1>4. 0 \in 0..MaxChanges
  BY WorkspaceAssumption
<1>5. n = [filter |-> f, applied |-> None,
           resources |-> None, workspaceRequest |-> l, loading |-> TRUE, error |-> FALSE, filterError |-> FALSE,
           events |-> None, eventsRequest |-> None, nextCursor |-> FALSE, moreRequest |-> None,
           loadingMore |-> FALSE, balance |-> z, summary |-> z,
           editor |-> "closed", deleting |-> None, deletingBusy |-> FALSE, deleteRequest |-> None,
           changes |-> 0]
  BY <1>2 DEF Activity!Opened
<1>6. n \in Activity!Pages
  BY <1>1, <1>3, <1>4, <1>5 DEF Activity!Pages
<1> QED BY <1>1, <1>2, <1>5, <1>6

LEMMA ActivityBlankIsGood ==
  ASSUME NEW l \in Ledgers, NEW n \in Activity!Pages,
         n.applied = None, n.resources = None, n.workspaceRequest = l, n.events = None, n.eventsRequest = None,
         ~ n.nextCursor, n.moreRequest = None, ~ n.loadingMore,
         n.balance = Activity!Nothing, n.summary = Activity!Nothing,
         n.deletingBusy <=> n.deleteRequest # None, ActivityBegun(n) <= MaxChanges
  PROVE  ActivityGood(n, l)
<1>1. l # None
  BY NoneAssumption
<1>2. ActivityFigures(n)
  BY DEF ActivityFigures, Activity!Nothing
<1>3. ActivityLists(n)
  BY DEF ActivityLists
<1>4. ActivityLoose(n, l)
  BY <1>2, <1>3 DEF ActivityLoose
<1>5. ActivityFresh(n)
  BY <1>1 DEF ActivityFresh
<1> QED BY <1>4, <1>5 DEF ActivityGood

LEMMA ActivityOpened ==
  ASSUME ActivityInv, NEW l \in Ledgers, NEW n, n = Activity!Opened(l)
  PROVE  ActivityGood(n, l) /\ (saved[l] # None => saved[l] = n.filter)
<1>1. /\ n \in Activity!Pages
      /\ saved[l] # None => saved[l] = n.filter
      /\ n.applied = None /\ n.resources = None /\ n.workspaceRequest = l
      /\ n.loading /\ ~ n.error /\ ~ n.filterError /\ n.events = None /\ n.eventsRequest = None
      /\ ~ n.nextCursor /\ n.moreRequest = None /\ ~ n.loadingMore
      /\ n.balance = Activity!Nothing /\ n.summary = Activity!Nothing
      /\ n.editor = "closed" /\ n.deleting = None /\ ~ n.deletingBusy /\ n.deleteRequest = None
      /\ n.changes = 0
  BY ActivityBlank
<1>2. ActivityBegun(n) <= MaxChanges
  BY <1>1, WorkspaceAssumption DEF ActivityBegun
<1> QED BY <1>1, <1>2, ActivityBlankIsGood

\* The page that was another ledger's: a deletion under way goes on.
LEMMA ActivitySwitched ==
  ASSUME ActivityInv, page # None, NEW l \in Ledgers, NEW n, n = Activity!Switched(l)
  PROVE  ActivityGood(n, l) /\ (saved[l] # None => saved[l] = n.filter)
<1>1. PICK o : o = Activity!Opened(l)
  OBVIOUS
<1>2. /\ o \in Activity!Pages
      /\ saved[l] # None => saved[l] = o.filter
      /\ o.applied = None /\ o.resources = None /\ o.workspaceRequest = l
      /\ o.loading /\ ~ o.error /\ ~ o.filterError /\ o.events = None /\ o.eventsRequest = None
      /\ ~ o.nextCursor /\ o.moreRequest = None /\ ~ o.loadingMore
      /\ o.balance = Activity!Nothing /\ o.summary = Activity!Nothing
      /\ o.editor = "closed" /\ o.deleting = None /\ ~ o.deletingBusy /\ o.deleteRequest = None
      /\ o.changes = 0
  BY <1>1, ActivityBlank
<1>3. page \in Activity!Pages /\ (page.deletingBusy <=> page.deleteRequest # None)
      /\ ActivityBegun(page) <= MaxChanges
  BY DEF ActivityInv, ActivityGood, ActivityLoose
<1>4. n = [o EXCEPT !.deletingBusy = page.deletingBusy, !.deleteRequest = page.deleteRequest,
                    !.changes = page.changes]
  BY <1>1 DEF Activity!Switched
<1>5. PICK db \in BOOLEAN, dr \in Ledgers \cup {None}, ch \in 0..MaxChanges :
        db = page.deletingBusy /\ dr = page.deleteRequest /\ ch = page.changes
  BY <1>3 DEF Activity!Pages
<1>6. n \in Activity!Pages
  <2>1. PICK a : a = [o EXCEPT !.deletingBusy = db]
    OBVIOUS
  <2>2. PICK b : b = [a EXCEPT !.deleteRequest = dr]
    OBVIOUS
  <2>3. n = [b EXCEPT !.changes = ch]
    BY <1>4, <1>5, <2>1, <2>2, Zenon
  <2>4. a \in Activity!Pages
    BY <1>2, <2>1 DEF Activity!Pages
  <2>5. b \in Activity!Pages
    BY <2>2, <2>4 DEF Activity!Pages
  <2> QED BY <2>3, <2>5 DEF Activity!Pages
<1>7. /\ n.filter = o.filter /\ n.applied = o.applied /\ n.resources = o.resources
      /\ n.workspaceRequest = o.workspaceRequest /\ n.events = o.events /\ n.eventsRequest = o.eventsRequest
      /\ n.nextCursor = o.nextCursor /\ n.moreRequest = o.moreRequest /\ n.loadingMore = o.loadingMore
      /\ n.balance = o.balance /\ n.summary = o.summary /\ n.editor = o.editor
      /\ n.deletingBusy = page.deletingBusy /\ n.deleteRequest = page.deleteRequest /\ n.changes = page.changes
  BY <1>2, <1>4 DEF Activity!Pages
<1>8. ActivityBegun(n) <= MaxChanges
  <2>1. page.changes \in Nat /\ n.editor # "saving" /\ MaxChanges \in Nat
    BY <1>2, <1>3, <1>7, WorkspaceAssumption DEF Activity!Pages
  <2> QED BY <1>3, <1>7, <2>1 DEF ActivityBegun
<1>9. ActivityGood(n, l)
  BY <1>2, <1>3, <1>6, <1>7, <1>8, ActivityBlankIsGood
<1> QED BY <1>2, <1>7, <1>9

\* The editor and the dialog change neither the lists nor the figures.
ActivitySame(n, p) ==
  /\ n.filter = p.filter /\ n.applied = p.applied /\ n.resources = p.resources
  /\ n.workspaceRequest = p.workspaceRequest /\ n.loading = p.loading /\ n.error = p.error
  /\ n.filterError = p.filterError /\ n.events = p.events /\ n.eventsRequest = p.eventsRequest
  /\ n.nextCursor = p.nextCursor /\ n.moreRequest = p.moreRequest /\ n.loadingMore = p.loadingMore
  /\ n.balance = p.balance /\ n.summary = p.summary /\ n.changes = p.changes

LEMMA ActivityDialogs ==
  ASSUME NEW l \in Ledgers, NEW p, ActivityGood(p, l), NEW n \in Activity!Pages, ActivitySame(n, p),
         n.deletingBusy <=> n.deleteRequest # None, ActivityBegun(n) <= MaxChanges
  PROVE  ActivityGood(n, l)
<1>1. ActivityLists(n) /\ ActivityFigures(n)
  BY DEF ActivityGood, ActivityLoose, ActivityLists, ActivityFigures, ActivitySame
<1>2. ActivityLoose(n, l)
  BY <1>1 DEF ActivityGood, ActivityLoose, ActivitySame
<1>3. ActivityFresh(n)
  BY DEF ActivityGood, ActivityFresh, ActivitySame
<1> QED BY <1>2, <1>3 DEF ActivityGood

\* A page that differs in its dialogs, its filter or its loads of the figures.
LEMMA ActivityLooser ==
  ASSUME NEW l \in Ledgers, NEW p, ActivityGood(p, l), NEW n \in Activity!Pages,
         n.applied = p.applied, n.resources \in {None, l}, n.workspaceRequest \in {None, l},
         n.error = p.error, n.events = p.events, n.eventsRequest = p.eventsRequest,
         n.nextCursor = p.nextCursor, n.moreRequest = p.moreRequest, n.loadingMore = p.loadingMore,
         n.balance = p.balance, n.summary = p.summary,
         n.deletingBusy <=> n.deleteRequest # None, ActivityBegun(n) <= MaxChanges
  PROVE  ActivityLoose(n, l)
<1>1. ActivityLists(n) /\ ActivityFigures(n)
  BY DEF ActivityGood, ActivityLoose, ActivityLists, ActivityFigures
<1> QED BY <1>1 DEF ActivityGood, ActivityLoose

\* A change that has been made is followed by a load.
LEMMA ActivityChanged ==
  ASSUME ledger \in Ledgers, NEW p, ActivityGood(p, ledger), NEW n \in Activity!Pages, ActivitySame(n, p),
         n.deletingBusy <=> n.deleteRequest # None, ActivityBegun(n) < MaxChanges
  PROVE  LET c == Activity!LoadEvents(Activity!Changed(n)) IN ActivityGood(c, ledger) /\ c.filter = p.filter
<1>1. n.changes \in 0..MaxChanges /\ MaxChanges \in Nat
  BY WorkspaceAssumption DEF Activity!Pages
<1>2. n.changes + 1 \in 0..MaxChanges
  BY <1>1 DEF ActivityBegun
<1>3. PICK ch \in 0..MaxChanges : ch = n.changes + 1
  BY <1>2
<1>4. PICK m : m = Activity!Changed(n)
  OBVIOUS
<1>5. m = [n EXCEPT !.changes = ch]
  BY <1>3, <1>4 DEF Activity!Changed, Activity!Pages
<1>6. m \in Activity!Pages
  BY <1>5, Zenon DEF Activity!Pages
<1>7. /\ m.filter = n.filter /\ m.applied = n.applied /\ m.resources = n.resources
      /\ m.workspaceRequest = n.workspaceRequest /\ m.error = n.error
      /\ m.events = n.events /\ m.eventsRequest = n.eventsRequest /\ m.nextCursor = n.nextCursor
      /\ m.moreRequest = n.moreRequest /\ m.loadingMore = n.loadingMore
      /\ m.balance = n.balance /\ m.summary = n.summary /\ m.editor = n.editor
      /\ m.deletingBusy = n.deletingBusy /\ m.deleteRequest = n.deleteRequest /\ m.changes = n.changes + 1
  BY <1>3, <1>5 DEF Activity!Pages
<1>8. ActivityBegun(m) <= MaxChanges
  BY <1>1, <1>7 DEF ActivityBegun
<1>9. p.resources \in {None, ledger} /\ p.workspaceRequest \in {None, ledger}
  BY DEF ActivityGood, ActivityLoose
<1>10. ActivityLoose(m, ledger)
  BY <1>6, <1>7, <1>8, <1>9, ActivityLooser DEF ActivitySame
<1>11. PICK c : c = Activity!LoadEvents(m)
  OBVIOUS
<1>12. ActivityGood(c, ledger) /\ c.filter = m.filter
  BY <1>6, <1>10, <1>11, ActivityLoadEvents
<1> QED BY <1>4, <1>7, <1>11, <1>12 DEF ActivitySame

LEMMA ActivityStep ==
  ASSUME ActivityInv, Activity!Next
  PROVE  ActivityInv' /\ page' # None /\ ledger' = ledger
<1>0. page # None
  BY DEF Activity!Next, Activity!Open, Activity!Free, Activity!EditFilter, Activity!ApplyFilters,
         Activity!ClearFilters, Activity!LoadMore, Activity!OpenEditor, Activity!CloseEditor, Activity!SaveEvent,
         Activity!RequestDelete, Activity!CloseDelete, Activity!Remove, Activity!WorkspaceAnswer,
         Activity!WorkspaceFail, Activity!EventsAnswer, Activity!EventsFail, Activity!MoreAnswer,
         Activity!MoreFail, Activity!BalanceAnswer, Activity!SummaryAnswer, Activity!SaveAnswer,
         Activity!DeleteAnswer
<1>1. page \in Activity!Pages /\ ActivityGood(page, ledger) /\ ledger \in Ledgers
      /\ saved \in [Ledgers -> Activity!Filters \cup {None}]
      /\ (saved[ledger] # None => saved[ledger] = page.filter)
  BY <1>0 DEF ActivityInv, ActivityGood
<1>2. ASSUME NEW p, Activity!Become(p), ActivityGood(p, ledger), p.filter = page.filter
      PROVE  ActivityInv' /\ page' # None /\ ledger' = ledger
  <2>1. page' = p /\ UNCHANGED <<ledger, saved>>
    BY <1>2 DEF Activity!Become
  <2>2. p # None
    BY <1>2, NoneAssumption DEF ActivityGood
  <2> QED BY <1>1, <1>2, <2>1, <2>2 DEF ActivityInv
<1>3. ASSUME NEW p, Activity!SaveFilters(p), ActivityGood(p, ledger)
      PROVE  ActivityInv' /\ page' # None /\ ledger' = ledger
  <2>1. page' = p /\ saved' = [saved EXCEPT ![ledger] = p.filter] /\ ledger' = ledger
    BY <1>3 DEF Activity!SaveFilters
  <2>2. p # None /\ p.filter \in Activity!Filters
    BY <1>3, NoneAssumption DEF ActivityGood, Activity!Pages
  <2>3. saved' \in [Ledgers -> Activity!Filters \cup {None}] /\ saved'[ledger] = p.filter
    BY <1>1, <2>1, <2>2
  <2> QED BY <1>1, <1>3, <2>1, <2>2, <2>3 DEF ActivityInv
<1>4. /\ page.deletingBusy <=> page.deleteRequest # None
      /\ ActivityBegun(page) <= MaxChanges /\ page.changes \in 0..MaxChanges /\ MaxChanges \in Nat
      /\ page.resources \in {None, ledger} /\ page.workspaceRequest \in {None, ledger}
      /\ ActivityLists(page) /\ ActivityFigures(page) /\ ActivityFresh(page) /\ ActivityLoose(page, ledger)
  BY <1>1, WorkspaceAssumption DEF ActivityGood, ActivityLoose, Activity!Pages
<1>5. ASSUME NEW f \in Activity!Filters, NEW n, n = [page EXCEPT !.filter = f]
      PROVE  n \in Activity!Pages /\ n.filter = f /\ ActivityGood(n, ledger)
  <2>1. n \in Activity!Pages
    BY <1>1, <1>5, Zenon DEF Activity!Pages
  <2>2. /\ n.filter = f /\ n.applied = page.applied /\ n.resources = page.resources
        /\ n.workspaceRequest = page.workspaceRequest /\ n.loading = page.loading /\ n.error = page.error
        /\ n.filterError = page.filterError /\ n.events = page.events /\ n.eventsRequest = page.eventsRequest
        /\ n.nextCursor = page.nextCursor /\ n.moreRequest = page.moreRequest
    BY <1>1, <1>5 DEF Activity!Pages
  <2>3. /\ n.loadingMore = page.loadingMore
        /\ n.balance = page.balance /\ n.summary = page.summary /\ n.editor = page.editor
        /\ n.deletingBusy = page.deletingBusy /\ n.deleteRequest = page.deleteRequest /\ n.changes = page.changes
    BY <1>1, <1>5 DEF Activity!Pages
  <2>4. ActivityBegun(n) <= MaxChanges
    BY <1>4, <2>2, <2>3 DEF ActivityBegun
  <2>5. ActivityLoose(n, ledger)
    BY <1>1, <1>4, <2>1, <2>2, <2>3, <2>4, ActivityLooser
  <2>6. ActivityFresh(n)
    BY <1>4, <2>2, <2>3 DEF ActivityFresh
  <2> QED BY <2>1, <2>2, <2>5, <2>6 DEF ActivityGood
<1>6. ASSUME NEW f \in Activity!Filters, Activity!EditFilter(f)
      PROVE  ActivityInv' /\ page' # None /\ ledger' = ledger
  <2>1. PICK n : n = [page EXCEPT !.filter = f]
    OBVIOUS
  <2>2. Activity!SaveFilters(n)
    BY <1>6, <2>1 DEF Activity!EditFilter
  <2>3. ActivityGood(n, ledger)
    BY <1>5, <2>1
  <2> QED BY <1>3, <2>2, <2>3
<1>7. CASE Activity!ApplyFilters
  <2>1. PICK n : n = Activity!LoadEvents(page)
    OBVIOUS
  <2>2. Activity!Become(n)
    BY <1>7, <2>1 DEF Activity!ApplyFilters
  <2>3. ActivityGood(n, ledger) /\ n.filter = page.filter
    BY <1>1, <1>4, <2>1, ActivityLoadEvents
  <2> QED BY <1>2, <2>2, <2>3
<1>8. CASE Activity!ClearFilters
  <2>1. PICK f : f = Activity!FirstFilter
    OBVIOUS
  <2>2. f \in Activity!Filters
    BY <2>1 DEF Activity!FirstFilter, Activity!Filters
  <2>3. PICK p : p = [page EXCEPT !.filter = f]
    OBVIOUS
  <2>4. PICK n : n = Activity!LoadEvents(p)
    OBVIOUS
  <2>5. Activity!SaveFilters(n)
    BY <1>8, <2>1, <2>3, <2>4 DEF Activity!ClearFilters
  <2>6. p \in Activity!Pages /\ ActivityGood(p, ledger)
    BY <1>5, <2>2, <2>3
  <2>7. ActivityGood(n, ledger)
    BY <1>1, <2>4, <2>6, ActivityLoadEvents DEF ActivityGood
  <2> QED BY <1>3, <2>5, <2>7
<1>9. CASE Activity!LoadMore
  <2>1. page.nextCursor /\ page.applied # None /\ page.events # None /\ ~ page.error /\ ~ page.loading
    BY <1>9 DEF Activity!LoadMore, Activity!ListShown
  <2>2. page.eventsRequest = None /\ page.events.query = page.applied /\ page.events.pages < MaxPages
    BY <1>4, <2>1 DEF ActivityLists
  <2>3. page.events \in Activity!Lists /\ page.applied \in Activity!Queries
    BY <1>1, <2>1 DEF Activity!Pages
  <2>4. PICK m : m = [query |-> page.applied, pages |-> page.events.pages + 1]
    OBVIOUS
  <2>5. page.events.pages \in 1..MaxPages /\ MaxPages \in Nat
    BY <2>3, WorkspaceAssumption DEF Activity!Lists
  <2>6. page.events.pages + 1 \in 2..MaxPages
    BY <2>2, <2>5
  <2>7. m \in Activity!Further /\ m.query = page.events.query /\ m.pages = page.events.pages + 1
    BY <2>2, <2>3, <2>4, <2>6 DEF Activity!Further
  <2>8. m # None
    BY <2>7, NoneAssumption
  <2>9. PICK n : n = [page EXCEPT !.loadingMore = TRUE, !.moreRequest = m]
    OBVIOUS
  <2>10. Activity!Become(n)
    BY <1>9, <2>4, <2>9 DEF Activity!LoadMore
  <2>11. n \in Activity!Pages
    <3>1. m \in Activity!Further
      BY <2>7
    <3> QED BY <1>1, <2>9, <3>1, Zenon DEF Activity!Pages
  <2>12. /\ n.filter = page.filter /\ n.applied = page.applied /\ n.resources = page.resources
         /\ n.workspaceRequest = page.workspaceRequest /\ n.loading = page.loading /\ n.error = page.error
         /\ n.filterError = page.filterError /\ n.events = page.events /\ n.eventsRequest = page.eventsRequest
         /\ n.nextCursor = page.nextCursor /\ n.moreRequest = m
    BY <1>1, <2>9 DEF Activity!Pages
  <2>13. /\ n.loadingMore
         /\ n.balance = page.balance /\ n.summary = page.summary /\ n.editor = page.editor
         /\ n.deletingBusy = page.deletingBusy /\ n.deleteRequest = page.deleteRequest /\ n.changes = page.changes
    BY <1>1, <2>9 DEF Activity!Pages
  <2>14. ActivityLists(n)
    BY <1>4, <2>1, <2>2, <2>7, <2>12 DEF ActivityLists
  <2>15. ActivityFigures(n) /\ ActivityBegun(n) <= MaxChanges
    BY <1>4, <2>12, <2>13 DEF ActivityFigures, ActivityBegun
  <2>16. ActivityLoose(n, ledger)
    BY <1>4, <2>8, <2>12, <2>13, <2>14, <2>15 DEF ActivityLoose
  <2>17. ActivityFresh(n)
    BY <1>4, <2>12, <2>13 DEF ActivityFresh
  <2>18. ActivityGood(n, ledger)
    BY <2>11, <2>16, <2>17 DEF ActivityGood
  <2> QED BY <1>2, <2>10, <2>12, <2>18
<1>10. ASSUME NEW n \in Activity!Pages, ActivitySame(n, page), n.deletingBusy <=> n.deleteRequest # None,
              page.changes + (IF n.deleteRequest = None THEN 0 ELSE 1) + (IF n.editor = "saving" THEN 1 ELSE 0)
                <= MaxChanges
       PROVE  ActivityGood(n, ledger) /\ n.filter = page.filter
  <2>1. ActivityBegun(n) <= MaxChanges
    BY <1>10 DEF ActivityBegun, ActivitySame
  <2>2. ActivityGood(n, ledger)
    BY <1>1, <1>10, <2>1, ActivityDialogs
  <2> QED BY <1>10, <2>2 DEF ActivitySame
<1>11. page.deleteRequest \in Ledgers \cup {None} /\ page.deletingBusy \in BOOLEAN
  BY <1>1 DEF Activity!Pages
<1>12. /\ page.changes + (IF page.deleteRequest = None THEN 0 ELSE 1) + (IF page.editor = "saving" THEN 1 ELSE 0)
            <= MaxChanges
       /\ page.changes + (IF page.deleteRequest = None THEN 0 ELSE 1) <= MaxChanges
       /\ page.changes + (IF page.editor = "saving" THEN 1 ELSE 0) <= MaxChanges
  BY <1>4 DEF ActivityBegun
<1>13. CASE Activity!OpenEditor
  <2>1. PICK n : n = [page EXCEPT !.editor = "open"]
    OBVIOUS
  <2>2. Activity!Become(n)
    BY <1>13, <2>1 DEF Activity!OpenEditor
  <2>3. n \in Activity!Pages
    BY <1>1, <2>1, Zenon DEF Activity!Pages
  <2>4. ActivitySame(n, page)
    BY <1>1, <2>1 DEF Activity!Pages, ActivitySame
  <2>5. n.editor = "open" /\ n.deletingBusy = page.deletingBusy /\ n.deleteRequest = page.deleteRequest
    BY <1>1, <2>1 DEF Activity!Pages
  <2>7. ActivityGood(n, ledger) /\ n.filter = page.filter
    BY <1>4, <1>10, <1>12, <2>3, <2>4, <2>5
  <2> QED BY <1>2, <2>2, <2>7
<1>14. CASE Activity!CloseEditor
  <2>1. PICK n : n = [page EXCEPT !.editor = "closed"]
    OBVIOUS
  <2>2. Activity!Become(n)
    BY <1>14, <2>1 DEF Activity!CloseEditor
  <2>3. n \in Activity!Pages
    BY <1>1, <2>1, Zenon DEF Activity!Pages
  <2>4. ActivitySame(n, page)
    BY <1>1, <2>1 DEF Activity!Pages, ActivitySame
  <2>5. n.editor = "closed" /\ n.deletingBusy = page.deletingBusy /\ n.deleteRequest = page.deleteRequest
    BY <1>1, <2>1 DEF Activity!Pages
  <2>7. ActivityGood(n, ledger) /\ n.filter = page.filter
    BY <1>4, <1>10, <1>12, <2>3, <2>4, <2>5
  <2> QED BY <1>2, <2>2, <2>7
<1>15. CASE Activity!SaveEvent
  <2>1. PICK n : n = [page EXCEPT !.editor = "saving"]
    OBVIOUS
  <2>2. Activity!Become(n) /\ page.editor = "open" /\ Activity!Begun < MaxChanges
    BY <1>15, <2>1 DEF Activity!SaveEvent
  <2>3. n \in Activity!Pages
    BY <1>1, <2>1, Zenon DEF Activity!Pages
  <2>4. ActivitySame(n, page)
    BY <1>1, <2>1 DEF Activity!Pages, ActivitySame
  <2>5. n.editor = "saving" /\ n.deletingBusy = page.deletingBusy /\ n.deleteRequest = page.deleteRequest
    BY <1>1, <2>1 DEF Activity!Pages
  <2>6. page.changes + (IF page.deleteRequest = None THEN 0 ELSE 1) + 1 <= MaxChanges
    BY <1>4, <2>2 DEF Activity!Begun
  <2>7. ActivityGood(n, ledger) /\ n.filter = page.filter
    BY <1>4, <1>10, <2>3, <2>4, <2>5, <2>6
  <2> QED BY <1>2, <2>2, <2>7
<1>16. CASE Activity!RequestDelete
  <2>8. page.events # None
    BY <1>16 DEF Activity!RequestDelete
  <2>9. PICK d \in Ledgers \cup {None} : d = page.events.query.ledger
    BY <1>1, <2>8 DEF Activity!Pages, Activity!Lists, Activity!Queries
  <2>1. PICK n : n = [page EXCEPT !.editor = "closed", !.deleting = d]
    OBVIOUS
  <2>2. Activity!Become(n)
    BY <1>16, <2>1, <2>9 DEF Activity!RequestDelete
  <2>3. n \in Activity!Pages
    BY <1>1, <2>1, Zenon DEF Activity!Pages
  <2>4. ActivitySame(n, page)
    BY <1>1, <2>1 DEF Activity!Pages, ActivitySame
  <2>5. n.editor = "closed" /\ n.deletingBusy = page.deletingBusy /\ n.deleteRequest = page.deleteRequest
    BY <1>1, <2>1 DEF Activity!Pages
  <2>7. ActivityGood(n, ledger) /\ n.filter = page.filter
    BY <1>4, <1>10, <1>12, <2>3, <2>4, <2>5
  <2> QED BY <1>2, <2>2, <2>7
<1>17. CASE Activity!CloseDelete
  <2>1. PICK n : n = [page EXCEPT !.deleting = None]
    OBVIOUS
  <2>2. Activity!Become(n)
    BY <1>17, <2>1 DEF Activity!CloseDelete
  <2>3. n \in Activity!Pages
    BY <1>1, <2>1, Zenon DEF Activity!Pages
  <2>4. ActivitySame(n, page)
    BY <1>1, <2>1 DEF Activity!Pages, ActivitySame
  <2>5. n.editor = page.editor /\ n.deletingBusy = page.deletingBusy /\ n.deleteRequest = page.deleteRequest
    BY <1>1, <2>1 DEF Activity!Pages
  <2>7. ActivityGood(n, ledger) /\ n.filter = page.filter
    BY <1>4, <1>10, <1>12, <2>3, <2>4, <2>5
  <2> QED BY <1>2, <2>2, <2>7
<1>18. CASE Activity!Remove
  <2>1. PICK n : n = [page EXCEPT !.deletingBusy = TRUE, !.deleteRequest = ledger]
    OBVIOUS
  <2>2. Activity!Become(n) /\ ~ page.deletingBusy /\ Activity!Begun < MaxChanges
    BY <1>18, <2>1 DEF Activity!Remove
  <2>3. n \in Activity!Pages
    BY <1>1, <2>1, Zenon DEF Activity!Pages
  <2>4. ActivitySame(n, page)
    BY <1>1, <2>1 DEF Activity!Pages, ActivitySame
  <2>5. n.editor = page.editor /\ n.deletingBusy /\ n.deleteRequest = ledger
    BY <1>1, <2>1 DEF Activity!Pages
  <2>6. /\ page.deleteRequest = None /\ ledger # None
        /\ page.changes + 1 + (IF page.editor = "saving" THEN 1 ELSE 0) <= MaxChanges
    BY <1>1, <1>4, <2>2, NoneAssumption DEF Activity!Begun
  <2>7. ActivityGood(n, ledger) /\ n.filter = page.filter
    BY <1>10, <2>3, <2>4, <2>5, <2>6
  <2> QED BY <1>2, <2>2, <2>7
<1>19. CASE Activity!WorkspaceAnswer
  <2>1. page.workspaceRequest = ledger
    BY <1>4, <1>19 DEF Activity!WorkspaceAnswer
  <2>2. PICK p : p = [page EXCEPT !.resources = ledger, !.workspaceRequest = None]
    OBVIOUS
  <2>3. PICK n : n = Activity!LoadEvents(p)
    OBVIOUS
  <2>4. Activity!Become(n)
    BY <1>19, <2>1, <2>2, <2>3 DEF Activity!WorkspaceAnswer
  <2>5. p \in Activity!Pages
    BY <1>1, <2>2, Zenon DEF Activity!Pages
  <2>6. /\ p.filter = page.filter /\ p.applied = page.applied /\ p.resources = ledger
        /\ p.workspaceRequest = None /\ p.error = page.error
        /\ p.events = page.events /\ p.eventsRequest = page.eventsRequest
        /\ p.nextCursor = page.nextCursor /\ p.moreRequest = page.moreRequest
    BY <1>1, <2>2 DEF Activity!Pages
  <2>7. /\ p.loadingMore = page.loadingMore
        /\ p.balance = page.balance /\ p.summary = page.summary /\ p.editor = page.editor
        /\ p.deletingBusy = page.deletingBusy /\ p.deleteRequest = page.deleteRequest /\ p.changes = page.changes
    BY <1>1, <2>2 DEF Activity!Pages
  <2>8. ActivityBegun(p) <= MaxChanges
    BY <1>4, <2>6, <2>7 DEF ActivityBegun
  <2>9. ActivityLoose(p, ledger)
    BY <1>1, <1>4, <2>5, <2>6, <2>7, <2>8, ActivityLooser
  <2>10. ActivityGood(n, ledger) /\ n.filter = page.filter
    BY <1>1, <2>3, <2>5, <2>6, <2>9, ActivityLoadEvents
  <2> QED BY <1>2, <2>4, <2>10
<1>20. CASE Activity!WorkspaceFail
  <2>1. PICK n : n = [page EXCEPT !.workspaceRequest = None, !.loading = FALSE, !.error = TRUE]
    OBVIOUS
  <2>2. Activity!Become(n)
    BY <1>20, <2>1 DEF Activity!WorkspaceFail
  <2>3. n \in Activity!Pages
    BY <1>1, <2>1, Zenon DEF Activity!Pages
  <2>4. /\ n.filter = page.filter /\ n.applied = page.applied /\ n.resources = page.resources
        /\ n.workspaceRequest = None /\ ~ n.loading /\ n.error
        /\ n.filterError = page.filterError /\ n.events = page.events /\ n.eventsRequest = page.eventsRequest
        /\ n.nextCursor = page.nextCursor /\ n.moreRequest = page.moreRequest
    BY <1>1, <2>1 DEF Activity!Pages
  <2>5. /\ n.loadingMore = page.loadingMore
        /\ n.balance = page.balance /\ n.summary = page.summary /\ n.editor = page.editor
        /\ n.deletingBusy = page.deletingBusy /\ n.deleteRequest = page.deleteRequest /\ n.changes = page.changes
    BY <1>1, <2>1 DEF Activity!Pages
  <2>6. ActivityLists(n)
    BY <1>4, <2>4 DEF ActivityLists
  <2>7. ActivityFigures(n) /\ ActivityBegun(n) <= MaxChanges
    BY <1>4, <2>4, <2>5 DEF ActivityFigures, ActivityBegun
  <2>8. ActivityLoose(n, ledger)
    BY <1>4, <2>4, <2>5, <2>6, <2>7 DEF ActivityLoose
  <2>9. ActivityFresh(n)
    BY <1>4, <2>4, <2>5 DEF ActivityFresh
  <2>10. ActivityGood(n, ledger)
    BY <2>3, <2>8, <2>9 DEF ActivityGood
  <2> QED BY <1>2, <2>2, <2>4, <2>10
<1>21. CASE Activity!EventsFail
  <2>1. PICK n : n = [page EXCEPT !.eventsRequest = None, !.loading = FALSE, !.error = TRUE]
    OBVIOUS
  <2>2. Activity!Become(n)
    BY <1>21, <2>1 DEF Activity!EventsFail
  <2>3. n \in Activity!Pages
    BY <1>1, <2>1, Zenon DEF Activity!Pages
  <2>4. /\ n.filter = page.filter /\ n.applied = page.applied /\ n.resources = page.resources
        /\ n.workspaceRequest = page.workspaceRequest /\ ~ n.loading /\ n.error
        /\ n.filterError = page.filterError /\ n.events = page.events /\ n.eventsRequest = None
        /\ n.nextCursor = page.nextCursor /\ n.moreRequest = page.moreRequest
    BY <1>1, <2>1 DEF Activity!Pages
  <2>5. /\ n.loadingMore = page.loadingMore
        /\ n.balance = page.balance /\ n.summary = page.summary /\ n.editor = page.editor
        /\ n.deletingBusy = page.deletingBusy /\ n.deleteRequest = page.deleteRequest /\ n.changes = page.changes
    BY <1>1, <2>1 DEF Activity!Pages
  <2>6. ActivityLists(n)
    BY <1>4, <2>4 DEF ActivityLists
  <2>7. ActivityFigures(n) /\ ActivityBegun(n) <= MaxChanges
    BY <1>4, <2>4, <2>5 DEF ActivityFigures, ActivityBegun
  <2>8. ActivityLoose(n, ledger)
    BY <1>4, <2>4, <2>5, <2>6, <2>7 DEF ActivityLoose
  <2>9. ActivityFresh(n)
    BY <1>4, <2>4, <2>5 DEF ActivityFresh
  <2>10. ActivityGood(n, ledger)
    BY <2>3, <2>8, <2>9 DEF ActivityGood
  <2> QED BY <1>2, <2>2, <2>4, <2>10
<1>22. CASE Activity!MoreFail
  <2>1. PICK n : n = [page EXCEPT !.moreRequest = None, !.loadingMore = FALSE, !.error = TRUE]
    OBVIOUS
  <2>2. Activity!Become(n)
    BY <1>22, <2>1 DEF Activity!MoreFail
  <2>3. n \in Activity!Pages
    BY <1>1, <2>1, Zenon DEF Activity!Pages
  <2>4. /\ n.filter = page.filter /\ n.applied = page.applied /\ n.resources = page.resources
        /\ n.workspaceRequest = page.workspaceRequest /\ n.loading = page.loading /\ n.error
        /\ n.filterError = page.filterError /\ n.events = page.events /\ n.eventsRequest = page.eventsRequest
        /\ n.nextCursor = page.nextCursor /\ n.moreRequest = None
    BY <1>1, <2>1 DEF Activity!Pages
  <2>5. /\ ~ n.loadingMore
        /\ n.balance = page.balance /\ n.summary = page.summary /\ n.editor = page.editor
        /\ n.deletingBusy = page.deletingBusy /\ n.deleteRequest = page.deleteRequest /\ n.changes = page.changes
    BY <1>1, <2>1 DEF Activity!Pages
  <2>6. ActivityLists(n)
    BY <1>4, <2>4 DEF ActivityLists
  <2>7. ActivityFigures(n) /\ ActivityBegun(n) <= MaxChanges
    BY <1>4, <2>4, <2>5 DEF ActivityFigures, ActivityBegun
  <2>8. ActivityLoose(n, ledger)
    BY <1>4, <2>4, <2>5, <2>6, <2>7 DEF ActivityLoose
  <2>9. ActivityFresh(n)
    BY <1>4, <2>4, <2>5 DEF ActivityFresh
  <2>10. ActivityGood(n, ledger)
    BY <2>3, <2>8, <2>9 DEF ActivityGood
  <2> QED BY <1>2, <2>2, <2>4, <2>10
<1>23. ASSUME NEW more \in BOOLEAN, Activity!EventsAnswer(more)
       PROVE  ActivityInv' /\ page' # None /\ ledger' = ledger
  <2>1. page.eventsRequest # None
    BY <1>23 DEF Activity!EventsAnswer
  <2>2. PICK r \in Activity!Lists : r = page.eventsRequest
    BY <1>1, <2>1 DEF Activity!Pages
  <2>3. r # None /\ r.query = page.applied /\ r.pages = 1 /\ page.moreRequest = None
    BY <1>4, <2>1, <2>2 DEF ActivityLists
  <2>4. PICK n : n = [page EXCEPT !.events = r, !.eventsRequest = None, !.loading = FALSE, !.nextCursor = more]
    OBVIOUS
  <2>5. Activity!Become(n)
    BY <1>23, <2>2, <2>4 DEF Activity!EventsAnswer
  <2>6. n \in Activity!Pages
    BY <1>1, <2>4, Zenon DEF Activity!Pages
  <2>7. /\ n.filter = page.filter /\ n.applied = page.applied /\ n.resources = page.resources
        /\ n.workspaceRequest = page.workspaceRequest /\ ~ n.loading /\ n.error = page.error
        /\ n.filterError = page.filterError /\ n.events = r /\ n.eventsRequest = None
        /\ n.nextCursor = more /\ n.moreRequest = page.moreRequest
    BY <1>1, <2>4 DEF Activity!Pages
  <2>8. /\ n.loadingMore = page.loadingMore
        /\ n.balance = page.balance /\ n.summary = page.summary /\ n.editor = page.editor
        /\ n.deletingBusy = page.deletingBusy /\ n.deleteRequest = page.deleteRequest /\ n.changes = page.changes
    BY <1>1, <2>4 DEF Activity!Pages
  <2>9. 1 < MaxPages
    BY WorkspaceAssumption
  <2>10. ActivityLists(n)
    BY <2>3, <2>7, <2>9 DEF ActivityLists
  <2>11. ActivityFigures(n) /\ ActivityBegun(n) <= MaxChanges
    BY <1>4, <2>7, <2>8 DEF ActivityFigures, ActivityBegun
  <2>12. ActivityLoose(n, ledger)
    BY <1>4, <2>7, <2>8, <2>10, <2>11 DEF ActivityLoose
  <2>13. ActivityFresh(n)
    BY <1>4, <2>1, <2>2, <2>7, <2>8 DEF ActivityFresh
  <2>14. ActivityGood(n, ledger)
    BY <2>6, <2>12, <2>13 DEF ActivityGood
  <2> QED BY <1>2, <2>5, <2>7, <2>14
<1>24. ASSUME NEW more \in BOOLEAN, Activity!MoreAnswer(more)
       PROVE  ActivityInv' /\ page' # None /\ ledger' = ledger
  <2>1. page.moreRequest # None /\ (more => page.moreRequest.pages < MaxPages)
    BY <1>24 DEF Activity!MoreAnswer
  <2>2. page.events # None /\ page.eventsRequest = None
        /\ page.moreRequest.query = page.events.query /\ page.moreRequest.pages = page.events.pages + 1
    BY <1>4, <2>1 DEF ActivityLists
  <2>3. page.events \in Activity!Lists /\ page.moreRequest \in Activity!Further
    BY <1>1, <2>1, <2>2 DEF Activity!Pages
  <2>4. PICK e : e = [page.events EXCEPT !.pages = @ + 1]
    OBVIOUS
  <2>5. page.events.pages + 1 \in 1..MaxPages
    BY <2>2, <2>3, WorkspaceAssumption DEF Activity!Further
  <2>6. e \in Activity!Lists /\ e.query = page.events.query /\ e.pages = page.events.pages + 1
        /\ e.fresh = page.events.fresh
    BY <2>3, <2>4, <2>5 DEF Activity!Lists
  <2>7. e # None
    BY <2>6, NoneAssumption
  <2>8. PICK n : n = [page EXCEPT !.events = e, !.moreRequest = None, !.loadingMore = FALSE, !.nextCursor = more]
    OBVIOUS
  <2>9. Activity!Become(n)
    BY <1>24, <2>4, <2>8 DEF Activity!MoreAnswer
  <2>10. n \in Activity!Pages
    <3>1. e \in Activity!Lists
      BY <2>6
    <3> QED BY <1>1, <2>8, <3>1, Zenon DEF Activity!Pages
  <2>11. /\ n.filter = page.filter /\ n.applied = page.applied /\ n.resources = page.resources
         /\ n.workspaceRequest = page.workspaceRequest /\ n.loading = page.loading /\ n.error = page.error
         /\ n.filterError = page.filterError /\ n.events = e /\ n.eventsRequest = page.eventsRequest
         /\ n.nextCursor = more /\ n.moreRequest = None
    BY <1>1, <2>8 DEF Activity!Pages
  <2>12. /\ ~ n.loadingMore
         /\ n.balance = page.balance /\ n.summary = page.summary /\ n.editor = page.editor
         /\ n.deletingBusy = page.deletingBusy /\ n.deleteRequest = page.deleteRequest /\ n.changes = page.changes
    BY <1>1, <2>8 DEF Activity!Pages
  <2>13. ActivityLists(n)
    BY <1>4, <2>1, <2>2, <2>6, <2>7, <2>11 DEF ActivityLists
  <2>14. ActivityFigures(n) /\ ActivityBegun(n) <= MaxChanges
    BY <1>4, <2>11, <2>12 DEF ActivityFigures, ActivityBegun
  <2>15. ActivityLoose(n, ledger)
    BY <1>4, <2>11, <2>12, <2>13, <2>14 DEF ActivityLoose
  <2>16. ActivityFresh(n)
    BY <1>4, <2>2, <2>6, <2>11, <2>12 DEF ActivityFresh
  <2>17. ActivityGood(n, ledger)
    BY <2>10, <2>15, <2>16 DEF ActivityGood
  <2> QED BY <1>2, <2>9, <2>11, <2>17
<1>25. ASSUME NEW n, NEW b \in Activity!Figures, NEW s \in Activity!Figures,
              n = [page EXCEPT !.balance = b, !.summary = s],
              b.of \in {None, page.applied}, b.request \in {None, page.applied}, b.loading <=> b.request # None,
              s.of \in {None, page.applied}, s.request \in {None, page.applied}, s.loading <=> s.request # None
       PROVE  ActivityGood(n, ledger) /\ n.filter = page.filter
  <2>1. n \in Activity!Pages
    BY <1>1, <1>25, Zenon DEF Activity!Pages
  <2>2. /\ n.filter = page.filter /\ n.applied = page.applied /\ n.resources = page.resources
        /\ n.workspaceRequest = page.workspaceRequest /\ n.loading = page.loading /\ n.error = page.error
        /\ n.filterError = page.filterError /\ n.events = page.events /\ n.eventsRequest = page.eventsRequest
        /\ n.nextCursor = page.nextCursor /\ n.moreRequest = page.moreRequest
    BY <1>1, <1>25 DEF Activity!Pages
  <2>3. /\ n.loadingMore = page.loadingMore
        /\ n.balance = b /\ n.summary = s /\ n.editor = page.editor
        /\ n.deletingBusy = page.deletingBusy /\ n.deleteRequest = page.deleteRequest /\ n.changes = page.changes
    BY <1>1, <1>25 DEF Activity!Pages
  <2>4. ActivityLists(n)
    BY <1>4, <2>2 DEF ActivityLists
  <2>5. ActivityFigures(n)
    BY <1>25, <2>2, <2>3 DEF ActivityFigures
  <2>6. ActivityBegun(n) <= MaxChanges
    BY <1>4, <2>3 DEF ActivityBegun
  <2>7. ActivityLoose(n, ledger)
    BY <1>4, <2>2, <2>3, <2>4, <2>5, <2>6 DEF ActivityLoose
  <2>8. ActivityFresh(n)
    BY <1>4, <2>2, <2>3 DEF ActivityFresh
  <2> QED BY <2>1, <2>2, <2>7, <2>8 DEF ActivityGood
<1>26. /\ page.balance \in Activity!Figures /\ page.summary \in Activity!Figures
       /\ page.balance.of \in {None, page.applied} /\ page.balance.request \in {None, page.applied}
       /\ page.summary.of \in {None, page.applied} /\ page.summary.request \in {None, page.applied}
       /\ page.balance.loading <=> page.balance.request # None
       /\ page.summary.loading <=> page.summary.request # None
  BY <1>1, <1>4 DEF ActivityFigures, Activity!Pages
<1>27. PICK ba \in Activity!Figures, su \in Activity!Figures :
         /\ ba = page.balance /\ su = page.summary
         /\ ba.of \in {None, page.applied} /\ ba.request \in {None, page.applied}
         /\ su.of \in {None, page.applied} /\ su.request \in {None, page.applied}
         /\ ba.loading <=> ba.request # None
         /\ su.loading <=> su.request # None
  BY <1>26
<1>28. ASSUME NEW x \in {None, page.applied}, x \in Activity!Queries \cup {None},
              NEW f, f = [Activity!Nothing EXCEPT !.of = x]
       PROVE  f \in Activity!Figures /\ f.of = x /\ f.request = None /\ ~ f.loading
  BY <1>28 DEF Activity!Nothing, Activity!Figures
<1>29. ASSUME NEW ok \in BOOLEAN, Activity!BalanceAnswer(ok)
       PROVE  ActivityInv' /\ page' # None /\ ledger' = ledger
  <2>1. PICK x : x = IF ok THEN page.balance.request ELSE None
    OBVIOUS
  <2>2. x \in {None, page.applied} /\ x \in Activity!Queries \cup {None}
    BY <1>26, <2>1 DEF Activity!Figures
  <2>3. PICK f : f = [Activity!Nothing EXCEPT !.of = x]
    OBVIOUS
  <2>4. f \in Activity!Figures /\ f.of = x /\ f.request = None /\ ~ f.loading
    BY <1>28, <2>2, <2>3
  <2>5. PICK n : n = [page EXCEPT !.balance = f, !.summary = su]
    OBVIOUS
  <2>6. Activity!Become(n)
    BY <1>1, <1>27, <1>29, <2>1, <2>3, <2>5 DEF Activity!BalanceAnswer, Activity!Pages
  <2>7. ActivityGood(n, ledger) /\ n.filter = page.filter
    BY <1>25, <1>27, <2>2, <2>4, <2>5
  <2> QED BY <1>2, <2>6, <2>7
<1>30. ASSUME NEW ok \in BOOLEAN, Activity!SummaryAnswer(ok)
       PROVE  ActivityInv' /\ page' # None /\ ledger' = ledger
  <2>1. PICK x : x = IF ok THEN page.summary.request ELSE None
    OBVIOUS
  <2>2. x \in {None, page.applied} /\ x \in Activity!Queries \cup {None}
    BY <1>26, <2>1 DEF Activity!Figures
  <2>3. PICK f : f = [Activity!Nothing EXCEPT !.of = x]
    OBVIOUS
  <2>4. f \in Activity!Figures /\ f.of = x /\ f.request = None /\ ~ f.loading
    BY <1>28, <2>2, <2>3
  <2>5. PICK n : n = [page EXCEPT !.balance = ba, !.summary = f]
    OBVIOUS
  <2>6. Activity!Become(n)
    BY <1>1, <1>27, <1>30, <2>1, <2>3, <2>5 DEF Activity!SummaryAnswer, Activity!Pages
  <2>7. ActivityGood(n, ledger) /\ n.filter = page.filter
    BY <1>25, <1>27, <2>2, <2>4, <2>5
  <2> QED BY <1>2, <2>6, <2>7
<1>31. ASSUME NEW n \in Activity!Pages, ActivitySame(n, page), n.deletingBusy <=> n.deleteRequest # None,
              page.changes + (IF n.deleteRequest = None THEN 0 ELSE 1) + (IF n.editor = "saving" THEN 1 ELSE 0)
                < MaxChanges,
              Activity!Become(Activity!LoadEvents(Activity!Changed(n)))
       PROVE  ActivityInv' /\ page' # None /\ ledger' = ledger
  <2>1. ActivityBegun(n) < MaxChanges
    BY <1>31 DEF ActivityBegun, ActivitySame
  <2>2. PICK c : c = Activity!LoadEvents(Activity!Changed(n))
    OBVIOUS
  <2>3. ActivityGood(c, ledger) /\ c.filter = page.filter
    BY <1>1, <1>31, <2>1, <2>2, ActivityChanged
  <2> QED BY <1>2, <1>31, <2>2, <2>3
<1>32. ASSUME NEW ok \in BOOLEAN, Activity!SaveAnswer(ok)
       PROVE  ActivityInv' /\ page' # None /\ ledger' = ledger
  <2>1. page.editor = "saving"
        /\ Activity!Become(IF ok THEN Activity!LoadEvents(Activity!Changed([page EXCEPT !.editor = "closed"]))
                           ELSE [page EXCEPT !.editor = "open"])
    BY <1>32 DEF Activity!SaveAnswer
  <2>2. page.changes + (IF page.deleteRequest = None THEN 0 ELSE 1) < MaxChanges
    BY <1>4, <1>12, <2>1
  <2>3. PICK e \in {"closed", "open"} : e = IF ok THEN "closed" ELSE "open"
    OBVIOUS
  <2>4. PICK n : n = [page EXCEPT !.editor = e]
    OBVIOUS
  <2>5. n \in Activity!Pages
    BY <1>1, <2>4, Zenon DEF Activity!Pages
  <2>6. ActivitySame(n, page)
    BY <1>1, <2>4 DEF Activity!Pages, ActivitySame
  <2>7. n.editor = e /\ n.deletingBusy = page.deletingBusy /\ n.deleteRequest = page.deleteRequest
    BY <1>1, <2>4 DEF Activity!Pages
  <2>8. page.changes + (IF n.deleteRequest = None THEN 0 ELSE 1) + (IF n.editor = "saving" THEN 1 ELSE 0)
          < MaxChanges
    BY <1>4, <2>2, <2>7
  <2>9. CASE ok
    <3>1. Activity!Become(Activity!LoadEvents(Activity!Changed(n)))
      BY <2>1, <2>3, <2>4, <2>9
    <3> QED BY <1>4, <1>31, <2>5, <2>6, <2>7, <2>8, <3>1
  <2>10. CASE ~ ok
    <3>1. Activity!Become(n)
      BY <2>1, <2>3, <2>4, <2>10
    <3>2. ActivityGood(n, ledger) /\ n.filter = page.filter
      BY <1>4, <1>10, <2>5, <2>6, <2>7, <2>8
    <3> QED BY <1>2, <3>1, <3>2
  <2> QED BY <2>9, <2>10
<1>33. ASSUME NEW ok \in BOOLEAN, Activity!DeleteAnswer(ok)
       PROVE  ActivityInv' /\ page' # None /\ ledger' = ledger
  <2>1. PICK over : over = [page EXCEPT !.deleteRequest = None, !.deletingBusy = FALSE]
    OBVIOUS
  <2>2. PICK gone : gone = [over EXCEPT !.deleting = None]
    OBVIOUS
  <2>3. page.deleteRequest # None
        /\ Activity!Become(IF ok THEN Activity!LoadEvents(Activity!Changed(gone)) ELSE over)
    BY <1>33, <2>1, <2>2 DEF Activity!DeleteAnswer
  <2>4. page.changes + (IF page.editor = "saving" THEN 1 ELSE 0) < MaxChanges
    BY <1>4, <1>12, <2>3
  <2>5. over \in Activity!Pages
    BY <1>1, <2>1, Zenon DEF Activity!Pages
  <2>6. ActivitySame(over, page)
    BY <1>1, <2>1 DEF Activity!Pages, ActivitySame
  <2>7. over.editor = page.editor /\ ~ over.deletingBusy /\ over.deleteRequest = None
    BY <1>1, <2>1 DEF Activity!Pages
  <2>8. gone \in Activity!Pages
    BY <2>2, <2>5, Zenon DEF Activity!Pages
  <2>9. ActivitySame(gone, over)
    BY <2>2, <2>5 DEF Activity!Pages, ActivitySame
  <2>10. ActivitySame(gone, page)
    BY <2>6, <2>9 DEF ActivitySame
  <2>11. gone.editor = page.editor /\ ~ gone.deletingBusy /\ gone.deleteRequest = None
    BY <2>2, <2>5, <2>7 DEF Activity!Pages
  <2>12. CASE ok
    <3>1. page.changes + (IF gone.deleteRequest = None THEN 0 ELSE 1)
            + (IF gone.editor = "saving" THEN 1 ELSE 0) < MaxChanges
      BY <1>4, <2>4, <2>11
    <3> QED BY <1>31, <2>3, <2>8, <2>10, <2>11, <2>12, <3>1
  <2>13. CASE ~ ok
    <3>1. page.changes + (IF over.deleteRequest = None THEN 0 ELSE 1)
            + (IF over.editor = "saving" THEN 1 ELSE 0) <= MaxChanges
      BY <1>4, <2>4, <2>7
    <3>2. ActivityGood(over, ledger) /\ over.filter = page.filter
      BY <1>10, <2>5, <2>6, <2>7, <3>1
    <3> QED BY <1>2, <2>3, <2>13, <3>2
  <2> QED BY <2>12, <2>13
<1> QED
  BY <1>6, <1>7, <1>8, <1>9, <1>13, <1>14, <1>15, <1>16, <1>17, <1>18, <1>19, <1>20, <1>21, <1>22, <1>23,
     <1>24, <1>29, <1>30, <1>32, <1>33 DEF Activity!Next

--------------------------------------------------------------------------------
(* The budgets *)

BudgetsQuery(p, l) == [ledger |-> l, filter |-> p.filter, search |-> p.search]
BudgetsBegun(p) ==
  p.changes + (IF p.deleteRequest = None THEN 0 ELSE 1) + (IF p.editor = "saving" THEN 1 ELSE 0)

BudgetsSpinners(p) ==
  /\ p.resourcesLoading <=> p.resourcesRequest # None
  /\ (p.loading \/ p.loadingMore) <=> p.overviewRequest # None
  /\ ~ (p.loading /\ p.loadingMore)

\* While the resources load, a list that is there or under way is of the time
\* before: outlived.  Another list answers the filters and has the changes.
BudgetsLists(p, l) ==
  /\ ~ p.outlived /\ p.overviewRequest # None =>
       /\ ~ p.resourcesLoading /\ p.overviewRequest.query = BudgetsQuery(p, l)
       /\ p.overviewRequest.fresh = p.changes
  /\ ~ p.outlived /\ p.items # None =>
       ~ p.resourcesLoading /\ p.items.query = BudgetsQuery(p, l) /\ p.items.fresh = p.changes
  /\ p.error /\ p.items = None /\ p.overviewRequest # None => p.outlived
  /\ ~ p.resourcesLoading /\ p.overviewRequest = None /\ ~ p.error /\ ~ p.outlived => p.items # None
  /\ p.nextCursor => p.items # None /\ p.items.pages < MaxPages

BudgetsGood(p, l) ==
  /\ p \in Budgets!Pages /\ BudgetsSpinners(p) /\ BudgetsLists(p, l)
  /\ p.deletingBusy <=> p.deleteRequest # None
  /\ BudgetsBegun(p) <= MaxChanges

\* What holds of a page that is about to load its list.
BudgetsLoose(p) ==
  /\ BudgetsSpinners(p)
  /\ p.resourcesLoading => (p.overviewRequest # None \/ p.items # None => p.outlived)
  /\ p.nextCursor => p.items # None /\ p.items.pages < MaxPages
  /\ p.deletingBusy <=> p.deleteRequest # None
  /\ BudgetsBegun(p) <= MaxChanges

BudgetsSaved(p, v) == v # None => v.filter = p.filter /\ v.search \in {p.box, p.search}

BudgetsInv ==
  /\ saved \in [Ledgers -> Budgets!Views \cup {None}]
  /\ page # None => ledger \in Ledgers /\ BudgetsGood(page, ledger) /\ BudgetsSaved(page, saved[ledger])

BudgetsKept(n, p) ==
  /\ n.resourcesRequest = p.resourcesRequest /\ n.resourcesLoading = p.resourcesLoading
  /\ n.items = p.items /\ n.nextCursor = p.nextCursor /\ n.overviewRequest = p.overviewRequest
  /\ n.loading = p.loading /\ n.loadingMore = p.loadingMore /\ n.outlived = p.outlived
BudgetsSame(n, p) ==
  /\ BudgetsKept(n, p) /\ n.error = p.error
  /\ n.filter = p.filter /\ n.search = p.search /\ n.changes = p.changes

\* The editor, the dialog and the box do not change the list.
LEMMA BudgetsDialogs ==
  ASSUME NEW l \in Ledgers, NEW p, BudgetsGood(p, l), NEW n \in Budgets!Pages, BudgetsSame(n, p),
         n.deletingBusy <=> n.deleteRequest # None, BudgetsBegun(n) <= MaxChanges
  PROVE  BudgetsGood(n, l)
<1>1. BudgetsSpinners(n)
  BY DEF BudgetsGood, BudgetsSpinners, BudgetsSame, BudgetsKept
<1>2. BudgetsQuery(n, l) = BudgetsQuery(p, l)
  BY DEF BudgetsQuery, BudgetsSame
<1>3. BudgetsLists(n, l)
  BY <1>2 DEF BudgetsGood, BudgetsLists, BudgetsSame, BudgetsKept
<1> QED BY <1>1, <1>3 DEF BudgetsGood

\* The filters, the search and the count of the changes may differ, too.
LEMMA BudgetsLooser ==
  ASSUME NEW l \in Ledgers, NEW p, BudgetsGood(p, l), NEW n, BudgetsKept(n, p),
         n.deletingBusy <=> n.deleteRequest # None, BudgetsBegun(n) <= MaxChanges
  PROVE  BudgetsLoose(n)
<1>1. BudgetsSpinners(n)
  BY DEF BudgetsGood, BudgetsSpinners, BudgetsKept
<1>2. n.resourcesLoading => (n.overviewRequest # None \/ n.items # None => n.outlived)
  BY DEF BudgetsGood, BudgetsLists, BudgetsKept
<1>3. n.nextCursor => n.items # None /\ n.items.pages < MaxPages
  BY DEF BudgetsGood, BudgetsLists, BudgetsKept
<1> QED BY <1>1, <1>2, <1>3 DEF BudgetsLoose

LEMMA BudgetsLoad ==
  ASSUME ledger \in Ledgers, NEW p \in Budgets!Pages, BudgetsLoose(p), NEW n, n = Budgets!Load(p)
  PROVE  BudgetsGood(n, ledger) /\ n.filter = p.filter /\ n.search = p.search /\ n.box = p.box
<1>1. CASE p.resourcesLoading
  <2>1. n = p
    BY <1>1 DEF Budgets!Load
  <2>2. BudgetsLists(p, ledger)
    BY <1>1 DEF BudgetsLoose, BudgetsLists
  <2> QED BY <2>1, <2>2 DEF BudgetsGood, BudgetsLoose
<1>2. CASE ~ p.resourcesLoading
  <2>1. PICK q : q = BudgetsQuery(p, ledger)
    OBVIOUS
  <2>2. q \in Budgets!Queries /\ q = Budgets!Query(p)
    BY <2>1 DEF BudgetsQuery, Budgets!Query, Budgets!Queries, Budgets!Pages
  <2>3. PICK r : r = [query |-> q, pages |-> 1, fresh |-> p.changes]
    OBVIOUS
  <2>4. p.changes \in 0..MaxChanges /\ 1 \in 1..MaxPages
    BY WorkspaceAssumption DEF Budgets!Pages
  <2>5. r \in Budgets!Lists /\ r.query = q /\ r.fresh = p.changes
    BY <2>2, <2>3, <2>4 DEF Budgets!Lists
  <2>6. r # None
    BY <2>5, NoneAssumption
  <2>7. n = [p EXCEPT !.loading = TRUE, !.loadingMore = FALSE, !.items = None, !.nextCursor = FALSE,
                      !.error = FALSE, !.outlived = FALSE, !.overviewRequest = r]
    BY <1>2, <2>2, <2>3 DEF Budgets!Load
  <2>8. n \in Budgets!Pages
    <3>1. r \in Budgets!Lists
      BY <2>5
    <3>2. PICK a : a = [p EXCEPT !.loading = TRUE, !.loadingMore = FALSE]
      OBVIOUS
    <3>3. PICK b : b = [a EXCEPT !.items = None, !.nextCursor = FALSE]
      OBVIOUS
    <3>4. n = [b EXCEPT !.error = FALSE, !.outlived = FALSE, !.overviewRequest = r]
      BY <2>7, <3>2, <3>3, Zenon
    <3>5. a \in Budgets!Pages
      BY <3>2, Zenon DEF Budgets!Pages
    <3>6. b \in Budgets!Pages
      BY <3>3, <3>5, Zenon DEF Budgets!Pages
    <3>7. PICK c : c = [b EXCEPT !.error = FALSE]
      OBVIOUS
    <3>8. c \in Budgets!Pages
      BY <3>6, <3>7, Zenon DEF Budgets!Pages
    <3>9. PICK e : e = [c EXCEPT !.outlived = FALSE]
      OBVIOUS
    <3>10. e \in Budgets!Pages
      BY <3>8, <3>9, Zenon DEF Budgets!Pages
    <3>11. n = [e EXCEPT !.overviewRequest = r]
      BY <3>4, <3>7, <3>9, Zenon
    <3> QED BY <3>1, <3>10, <3>11, Zenon DEF Budgets!Pages
  <2>9. /\ n.filter = p.filter /\ n.search = p.search /\ n.box = p.box
        /\ n.resourcesRequest = p.resourcesRequest /\ n.resourcesLoading = p.resourcesLoading
        /\ n.items = None /\ ~ n.nextCursor /\ n.overviewRequest = r
        /\ n.loading /\ ~ n.loadingMore /\ ~ n.outlived /\ ~ n.error
    BY <2>7 DEF Budgets!Pages
  <2>10. /\ n.editor = p.editor /\ n.changes = p.changes
         /\ n.deletingBusy = p.deletingBusy /\ n.deleteRequest = p.deleteRequest
    BY <2>7 DEF Budgets!Pages
  <2>11. BudgetsSpinners(n)
    BY <2>6, <2>9 DEF BudgetsLoose, BudgetsSpinners
  <2>12. BudgetsQuery(n, ledger) = q
    BY <2>1, <2>9 DEF BudgetsQuery
  <2>13. BudgetsLists(n, ledger)
    BY <1>2, <2>5, <2>6, <2>9, <2>10, <2>12 DEF BudgetsLists
  <2>14. BudgetsBegun(n) = BudgetsBegun(p)
    BY <2>10 DEF BudgetsBegun
  <2> QED BY <2>8, <2>9, <2>10, <2>11, <2>13, <2>14 DEF BudgetsGood, BudgetsLoose
<1> QED BY <1>1, <1>2

LEMMA BudgetsLoadWorkspace ==
  ASSUME NEW l \in Ledgers, NEW p \in Budgets!Pages, BudgetsSpinners(p),
         p.overviewRequest # None \/ p.items # None => p.outlived,
         p.nextCursor => p.items # None /\ p.items.pages < MaxPages,
         p.deletingBusy <=> p.deleteRequest # None, BudgetsBegun(p) <= MaxChanges,
         NEW n, n = Budgets!LoadWorkspace(p, l)
  PROVE  BudgetsGood(n, l) /\ n.filter = p.filter /\ n.search = p.search /\ n.box = p.box
<1>1. l # None
  BY NoneAssumption
<1>2. n \in Budgets!Pages
  BY Zenon DEF Budgets!LoadWorkspace, Budgets!Pages
<1>3. /\ n.filter = p.filter /\ n.search = p.search /\ n.box = p.box
      /\ n.resourcesRequest = l /\ n.resourcesLoading
      /\ n.items = p.items /\ n.nextCursor = p.nextCursor /\ n.overviewRequest = p.overviewRequest
      /\ n.loading = p.loading /\ n.loadingMore = p.loadingMore /\ n.outlived = p.outlived /\ ~ n.error
  BY DEF Budgets!LoadWorkspace, Budgets!Pages
<1>4. /\ n.editor = p.editor /\ n.changes = p.changes
      /\ n.deletingBusy = p.deletingBusy /\ n.deleteRequest = p.deleteRequest
  BY DEF Budgets!LoadWorkspace, Budgets!Pages
<1>5. BudgetsSpinners(n) /\ BudgetsLists(n, l)
  BY <1>1, <1>3 DEF BudgetsSpinners, BudgetsLists
<1>6. BudgetsBegun(n) = BudgetsBegun(p)
  BY <1>4 DEF BudgetsBegun
<1> QED BY <1>2, <1>3, <1>4, <1>5, <1>6 DEF BudgetsGood

LEMMA BudgetsRestored ==
  ASSUME BudgetsInv, NEW l \in Ledgers
  PROVE  LET v == Budgets!Restored(l) IN
         v \in Budgets!Views /\ v.filter \in Budgets!Filters /\ v.search \in Texts /\ (saved[l] # None => saved[l] = v)
<1>1. Budgets!Restored(l) \in Budgets!Views
  BY WorkspaceAssumption DEF BudgetsInv, Budgets!Restored, Budgets!FirstView, Budgets!Views, Budgets!Filters
<1>2. saved[l] # None => saved[l] = Budgets!Restored(l)
  BY DEF Budgets!Restored
<1> QED BY <1>1, <1>2 DEF Budgets!Views

LEMMA BudgetsOpened ==
  ASSUME BudgetsInv, NEW l \in Ledgers, NEW n, n = Budgets!Opened(l)
  PROVE  BudgetsGood(n, l) /\ BudgetsSaved(n, saved[l])
<1>1. PICK v : v = Budgets!Restored(l)
  OBVIOUS
<1>2. PICK f \in Budgets!Filters, s \in Texts : f = v.filter /\ s = v.search /\ (saved[l] # None => saved[l] = v)
  BY <1>1, BudgetsRestored
<1>3. PICK p : p =
        [filter |-> f, search |-> s, box |-> s, typed |-> None, lastTyped |-> None,
         resources |-> None, resourcesRequest |-> None, resourcesLoading |-> FALSE,
         items |-> None, nextCursor |-> FALSE, overviewRequest |-> None, loading |-> FALSE, loadingMore |-> FALSE,
         error |-> FALSE, editor |-> "closed", deleting |-> None, deletingBusy |-> FALSE, deleteRequest |-> None,
         changes |-> 0, outlived |-> FALSE]
  OBVIOUS
<1>4. n = Budgets!LoadWorkspace(p, l)
  BY <1>1, <1>2, <1>3 DEF Budgets!Opened
<1>5. 0 \in 0..MaxChanges /\ 0 <= MaxChanges
  BY WorkspaceAssumption
<1>6. p \in Budgets!Pages
  BY <1>3, <1>5 DEF Budgets!Pages
<1>7. /\ p.filter = f /\ p.search = s /\ p.box = s
      /\ p.resourcesRequest = None /\ ~ p.resourcesLoading /\ p.items = None /\ ~ p.nextCursor
      /\ p.overviewRequest = None /\ ~ p.loading /\ ~ p.loadingMore
      /\ p.editor = "closed" /\ ~ p.deletingBusy /\ p.deleteRequest = None /\ p.changes = 0
  BY <1>3
<1>8. BudgetsSpinners(p) /\ BudgetsBegun(p) <= MaxChanges
  BY <1>5, <1>7 DEF BudgetsSpinners, BudgetsBegun
<1>9. BudgetsGood(n, l) /\ n.filter = p.filter /\ n.search = p.search /\ n.box = p.box
  BY <1>4, <1>6, <1>7, <1>8, BudgetsLoadWorkspace
<1> QED BY <1>2, <1>7, <1>9 DEF BudgetsSaved

\* The page that was another ledger's: its list is outlived.
LEMMA BudgetsSwitched ==
  ASSUME BudgetsInv, page # None, NEW l \in Ledgers, NEW n, n = Budgets!Switched(l)
  PROVE  BudgetsGood(n, l) /\ BudgetsSaved(n, saved[l])
<1>1. PICK v : v = Budgets!Restored(l)
  OBVIOUS
<1>2. PICK f \in Budgets!Filters, s \in Texts : f = v.filter /\ s = v.search /\ (saved[l] # None => saved[l] = v)
  BY <1>1, BudgetsRestored
<1>3. page \in Budgets!Pages /\ BudgetsGood(page, ledger)
  BY DEF BudgetsInv, BudgetsGood
<1>4. PICK b \in Texts : b = IF s = page.search THEN page.box ELSE s
  BY <1>3 DEF Budgets!Pages
<1>5. PICK u \in BOOLEAN : u <=> (page.outlived \/ page.overviewRequest # None)
  OBVIOUS
<1>6. PICK p : p = [page EXCEPT !.filter = f, !.search = s, !.box = b, !.items = None, !.nextCursor = FALSE,
                                !.editor = "closed", !.outlived = u]
  OBVIOUS
<1>7. n = Budgets!LoadWorkspace(p, l)
  <2>1. u = (page.outlived \/ page.overviewRequest # None)
    BY <1>5
  <2> QED BY <1>1, <1>2, <1>3, <1>4, <1>6, <2>1 DEF Budgets!Switched, Budgets!Pages
<1>8. p \in Budgets!Pages
  <2>1. page \in Budgets!Pages
    BY <1>3
  <2> QED BY <1>6, <2>1, Zenon DEF Budgets!Pages
<1>9. /\ p.filter = f /\ p.search = s /\ p.box = b
      /\ p.resourcesRequest = page.resourcesRequest /\ p.resourcesLoading = page.resourcesLoading
      /\ p.items = None /\ ~ p.nextCursor
      /\ p.overviewRequest = page.overviewRequest /\ p.loading = page.loading /\ p.loadingMore = page.loadingMore
  BY <1>3, <1>6 DEF Budgets!Pages
<1>10. /\ p.editor = "closed" /\ p.deletingBusy = page.deletingBusy /\ p.deleteRequest = page.deleteRequest
       /\ p.changes = page.changes /\ p.outlived = u
  BY <1>3, <1>6 DEF Budgets!Pages
<1>11. BudgetsBegun(p) <= MaxChanges
  <2>1. page.changes \in Nat /\ MaxChanges \in Nat /\ BudgetsBegun(page) <= MaxChanges
    BY <1>3, WorkspaceAssumption DEF Budgets!Pages, BudgetsGood
  <2> QED BY <1>10, <2>1 DEF BudgetsBegun
<1>12. BudgetsSpinners(p) /\ (p.deletingBusy <=> p.deleteRequest # None)
  BY <1>3, <1>9, <1>10 DEF BudgetsGood, BudgetsSpinners
<1>13. p.overviewRequest # None \/ p.items # None => p.outlived
  BY <1>5, <1>9, <1>10
<1>14. BudgetsGood(n, l) /\ n.filter = p.filter /\ n.search = p.search /\ n.box = p.box
  BY <1>7, <1>8, <1>9, <1>11, <1>12, <1>13, BudgetsLoadWorkspace
<1> QED BY <1>2, <1>9, <1>14 DEF BudgetsSaved

\* A change that has been made is followed by a load.
LEMMA BudgetsChanged ==
  ASSUME ledger \in Ledgers, NEW p, BudgetsGood(p, ledger), NEW n \in Budgets!Pages, BudgetsSame(n, p), n.box = p.box,
         n.deletingBusy <=> n.deleteRequest # None, BudgetsBegun(n) < MaxChanges,
         NEW c, c = Budgets!Load(Budgets!Changed(n))
  PROVE  BudgetsGood(c, ledger) /\ c.filter = p.filter /\ c.search = p.search /\ c.box = p.box
<1>1. n.changes \in 0..MaxChanges /\ MaxChanges \in Nat
  BY WorkspaceAssumption DEF Budgets!Pages
<1>2. n.changes + 1 \in 0..MaxChanges
  BY <1>1 DEF BudgetsBegun
<1>3. PICK ch \in 0..MaxChanges : ch = n.changes + 1
  BY <1>2
<1>4. PICK m : m = Budgets!Changed(n)
  OBVIOUS
<1>5. m = [n EXCEPT !.changes = ch]
  BY <1>3, <1>4 DEF Budgets!Changed, Budgets!Pages
<1>6. m \in Budgets!Pages
  BY <1>5, Zenon DEF Budgets!Pages
<1>7. BudgetsKept(m, n)
  BY <1>5 DEF Budgets!Pages, BudgetsKept
<1>8. /\ m.filter = n.filter /\ m.search = n.search /\ m.box = n.box /\ m.editor = n.editor
      /\ m.deletingBusy = n.deletingBusy /\ m.deleteRequest = n.deleteRequest /\ m.changes = n.changes + 1
  BY <1>3, <1>5 DEF Budgets!Pages
<1>9. BudgetsBegun(m) <= MaxChanges
  BY <1>1, <1>8 DEF BudgetsBegun
<1>10. BudgetsKept(m, p)
  BY <1>7 DEF BudgetsSame, BudgetsKept
<1>11. BudgetsLoose(m)
  BY <1>8, <1>9, <1>10, BudgetsLooser
<1>12. BudgetsGood(c, ledger) /\ c.filter = m.filter /\ c.search = m.search /\ c.box = m.box
  BY <1>4, <1>6, <1>11, BudgetsLoad
<1> QED BY <1>8, <1>12 DEF BudgetsSame

LEMMA BudgetsStep ==
  ASSUME BudgetsInv, Budgets!Next
  PROVE  BudgetsInv' /\ page' # None /\ ledger' = ledger
<1>0. page # None
  BY DEF Budgets!Next, Budgets!Open, Budgets!Free, Budgets!UpdateSearch, Budgets!UpdateFilter, Budgets!Retry,
         Budgets!LoadMore, Budgets!SaveBudget, Budgets!RequestDelete, Budgets!CloseDelete, Budgets!Remove,
         Budgets!SearchDue, Budgets!ResourcesAnswer, Budgets!ResourcesFail, Budgets!OverviewAnswer,
         Budgets!OverviewFail, Budgets!SaveAnswer, Budgets!DeleteAnswer
<1>1. page \in Budgets!Pages /\ BudgetsGood(page, ledger) /\ ledger \in Ledgers
      /\ saved \in [Ledgers -> Budgets!Views \cup {None}] /\ BudgetsSaved(page, saved[ledger])
  BY <1>0 DEF BudgetsInv, BudgetsGood
<1>2. ASSUME NEW p, Budgets!Become(p), BudgetsGood(p, ledger),
             p.filter = page.filter, p.search = page.search, p.box = page.box
      PROVE  BudgetsInv' /\ page' # None /\ ledger' = ledger
  <2>1. page' = p /\ UNCHANGED <<ledger, saved>>
    BY <1>2 DEF Budgets!Become
  <2>2. p # None
    BY <1>2, NoneAssumption DEF BudgetsGood
  <2>3. BudgetsSaved(p, saved[ledger])
    BY <1>1, <1>2 DEF BudgetsSaved
  <2>4. BudgetsGood(page, ledger)' /\ BudgetsSaved(page, saved[ledger])'
    BY <1>2, <2>1, <2>3 DEF BudgetsGood, BudgetsSpinners, BudgetsLists, BudgetsQuery, BudgetsBegun, BudgetsSaved
  <2> QED BY <1>1, <2>1, <2>2, <2>4 DEF BudgetsInv
<1>3. ASSUME NEW p, NEW t \in Texts, Budgets!Save(p, t), BudgetsGood(p, ledger), t \in {p.box, p.search}
      PROVE  BudgetsInv' /\ page' # None /\ ledger' = ledger
  <2>1. PICK v : v = [filter |-> p.filter, search |-> t]
    OBVIOUS
  <2>2. page' = p /\ saved' = [saved EXCEPT ![ledger] = v] /\ ledger' = ledger
    BY <1>3, <2>1 DEF Budgets!Save
  <2>3. p # None /\ v \in Budgets!Views /\ v.filter = p.filter /\ v.search = t
    BY <1>3, <2>1, NoneAssumption DEF BudgetsGood, Budgets!Pages, Budgets!Views
  <2>4. saved' \in [Ledgers -> Budgets!Views \cup {None}] /\ saved'[ledger] = v
    BY <1>1, <2>2, <2>3
  <2>5. BudgetsSaved(p, v)
    BY <1>3, <2>3 DEF BudgetsSaved
  <2>6. BudgetsGood(page, ledger)' /\ BudgetsSaved(page, saved[ledger])'
    BY <1>3, <2>2, <2>4, <2>5 DEF BudgetsGood, BudgetsSpinners, BudgetsLists, BudgetsQuery, BudgetsBegun, BudgetsSaved
  <2> QED BY <1>1, <2>2, <2>3, <2>4, <2>6 DEF BudgetsInv
<1>4. /\ page.deletingBusy <=> page.deleteRequest # None
      /\ BudgetsBegun(page) <= MaxChanges /\ page.changes \in 0..MaxChanges /\ MaxChanges \in Nat
      /\ page.filter \in Budgets!Filters /\ page.search \in Texts /\ page.box \in Texts
      /\ BudgetsLists(page, ledger) /\ BudgetsSpinners(page)
  BY <1>1, WorkspaceAssumption DEF BudgetsGood, Budgets!Pages
<1>5. ASSUME NEW n \in Budgets!Pages, BudgetsSame(n, page), n.deletingBusy <=> n.deleteRequest # None,
             page.changes + (IF n.deleteRequest = None THEN 0 ELSE 1) + (IF n.editor = "saving" THEN 1 ELSE 0)
               <= MaxChanges
      PROVE  BudgetsGood(n, ledger) /\ n.filter = page.filter /\ n.search = page.search
  <2>1. BudgetsBegun(n) <= MaxChanges
    BY <1>5 DEF BudgetsBegun, BudgetsSame
  <2> QED BY <1>1, <1>5, <2>1, BudgetsDialogs DEF BudgetsSame
<1>6. /\ page.changes + (IF page.deleteRequest = None THEN 0 ELSE 1) + (IF page.editor = "saving" THEN 1 ELSE 0)
           <= MaxChanges
      /\ page.changes + (IF page.deleteRequest = None THEN 0 ELSE 1) <= MaxChanges
      /\ page.changes + (IF page.editor = "saving" THEN 1 ELSE 0) <= MaxChanges
  BY <1>4 DEF BudgetsBegun
<1>7. ASSUME NEW t \in Texts, Budgets!UpdateSearch(t) PROVE BudgetsInv' /\ page' # None /\ ledger' = ledger
  <2>1. PICK n : n = [page EXCEPT !.box = t, !.typed = t]
    OBVIOUS
  <2>2. Budgets!Save(n, t)
    BY <1>7, <2>1 DEF Budgets!UpdateSearch
  <2>3. n \in Budgets!Pages
    BY <1>1, <2>1, Zenon DEF Budgets!Pages
  <2>4. BudgetsSame(n, page)
    BY <1>1, <2>1 DEF Budgets!Pages, BudgetsSame, BudgetsKept
  <2>5. n.box = t /\ n.editor = page.editor /\ n.deletingBusy = page.deletingBusy
        /\ n.deleteRequest = page.deleteRequest
    BY <1>1, <2>1 DEF Budgets!Pages
  <2>6. BudgetsGood(n, ledger)
    BY <1>4, <1>5, <1>6, <2>3, <2>4, <2>5
  <2> QED BY <1>3, <2>2, <2>5, <2>6
\* A page with another filter or search, which then loads.
<1>8. ASSUME NEW p \in Budgets!Pages, BudgetsKept(p, page), p.editor = page.editor, p.changes = page.changes,
             p.deletingBusy = page.deletingBusy, p.deleteRequest = page.deleteRequest,
             NEW n, n = Budgets!Load(p)
      PROVE  BudgetsGood(n, ledger) /\ n.filter = p.filter /\ n.search = p.search /\ n.box = p.box
  <2>1. BudgetsBegun(p) <= MaxChanges
    BY <1>6, <1>8 DEF BudgetsBegun
  <2>2. BudgetsLoose(p)
    BY <1>1, <1>4, <1>8, <2>1, BudgetsLooser
  <2> QED BY <1>1, <1>8, <2>2, BudgetsLoad
<1>9. ASSUME NEW c \in Budgets!Filters, Budgets!UpdateFilter(c) PROVE BudgetsInv' /\ page' # None /\ ledger' = ledger
  <2>1. PICK p : p = [page EXCEPT !.filter = c]
    OBVIOUS
  <2>2. PICK n : n = Budgets!Load(p)
    OBVIOUS
  <2>3. p \in Budgets!Pages
    BY <1>1, <2>1, Zenon DEF Budgets!Pages
  <2>4. BudgetsKept(p, page)
    BY <1>1, <2>1 DEF Budgets!Pages, BudgetsKept
  <2>5. /\ p.search = page.search /\ p.editor = page.editor /\ p.changes = page.changes
        /\ p.deletingBusy = page.deletingBusy /\ p.deleteRequest = page.deleteRequest
    BY <1>1, <2>1 DEF Budgets!Pages
  <2>6. Budgets!Save(n, page.search)
    BY <1>9, <2>1, <2>2, <2>5 DEF Budgets!UpdateFilter
  <2>7. BudgetsGood(n, ledger) /\ n.search = page.search
    BY <1>8, <2>2, <2>3, <2>4, <2>5
  <2> QED BY <1>3, <1>4, <2>6, <2>7
<1>10. CASE Budgets!Retry
  <2>1. page.error /\ page.items = None
    BY <1>10 DEF Budgets!Retry
  <2>2. PICK n : n = Budgets!LoadWorkspace(page, ledger)
    OBVIOUS
  <2>3. Budgets!Become(n)
    BY <1>10, <2>2 DEF Budgets!Retry
  <2>4. /\ page.overviewRequest # None \/ page.items # None => page.outlived
        /\ page.nextCursor => page.items # None /\ page.items.pages < MaxPages
    BY <1>4, <2>1 DEF BudgetsLists
  <2>5. BudgetsGood(n, ledger) /\ n.filter = page.filter /\ n.search = page.search /\ n.box = page.box
    BY <1>1, <1>4, <2>2, <2>4, BudgetsLoadWorkspace
  <2> QED BY <1>2, <2>3, <2>5
<1>11. CASE Budgets!LoadMore
  <2>1. /\ page.items # None /\ page.nextCursor /\ ~ page.loadingMore /\ ~ page.loading /\ ~ page.resourcesLoading
    BY <1>11 DEF Budgets!LoadMore, Budgets!ListShown
  <2>2. page.overviewRequest = None /\ page.items.pages < MaxPages
    BY <1>4, <2>1 DEF BudgetsLists, BudgetsSpinners
  <2>3. PICK q \in Budgets!Queries : q = BudgetsQuery(page, ledger) /\ q = Budgets!Query(page)
    BY <1>1, <1>4 DEF BudgetsQuery, Budgets!Query, Budgets!Queries
  <2>4. page.items \in Budgets!Lists
    BY <1>1, <2>1 DEF Budgets!Pages
  <2>5. PICK r : r = [query |-> q, pages |-> page.items.pages + 1, fresh |-> page.changes]
    OBVIOUS
  <2>6. page.items.pages + 1 \in 1..MaxPages
    BY <2>2, <2>4, WorkspaceAssumption DEF Budgets!Lists
  <2>7. r \in Budgets!Lists /\ r.query = q /\ r.fresh = page.changes
    BY <1>4, <2>5, <2>6 DEF Budgets!Lists
  <2>8. r # None
    BY <2>7, NoneAssumption
  <2>9. PICK n : n = [page EXCEPT !.loadingMore = TRUE, !.error = FALSE, !.overviewRequest = r]
    OBVIOUS
  <2>10. Budgets!Become(n)
    BY <1>11, <2>3, <2>5, <2>9 DEF Budgets!LoadMore
  <2>11. n \in Budgets!Pages
    <3>1. r \in Budgets!Lists
      BY <2>7
    <3> QED BY <1>1, <2>9, <3>1, Zenon DEF Budgets!Pages
  <2>12. /\ n.filter = page.filter /\ n.search = page.search /\ n.box = page.box
         /\ n.resourcesRequest = page.resourcesRequest /\ n.resourcesLoading = page.resourcesLoading
         /\ n.items = page.items /\ n.nextCursor = page.nextCursor /\ n.overviewRequest = r
         /\ n.loading = page.loading /\ n.loadingMore /\ n.outlived = page.outlived /\ ~ n.error
    BY <1>1, <2>9 DEF Budgets!Pages
  <2>13. /\ n.editor = page.editor /\ n.changes = page.changes
         /\ n.deletingBusy = page.deletingBusy /\ n.deleteRequest = page.deleteRequest
    BY <1>1, <2>9 DEF Budgets!Pages
  <2>14. BudgetsSpinners(n)
    BY <1>4, <2>1, <2>8, <2>12 DEF BudgetsSpinners
  <2>15. BudgetsQuery(n, ledger) = q /\ BudgetsQuery(page, ledger) = q
    BY <2>3, <2>12 DEF BudgetsQuery
  <2>16. BudgetsLists(n, ledger)
    BY <1>4, <2>1, <2>7, <2>12, <2>13, <2>15 DEF BudgetsLists
  <2>17. BudgetsGood(n, ledger)
    BY <1>4, <2>11, <2>13, <2>14, <2>16 DEF BudgetsGood, BudgetsBegun
  <2> QED BY <1>2, <2>10, <2>12, <2>17
<1>12. CASE Budgets!SaveBudget
  <2>1. PICK n : n = [page EXCEPT !.editor = "saving"]
    OBVIOUS
  <2>2. Budgets!Become(n) /\ page.editor = "closed" /\ Budgets!Begun < MaxChanges
    BY <1>12, <2>1 DEF Budgets!SaveBudget, Budgets!Free
  <2>3. n \in Budgets!Pages
    BY <1>1, <2>1, Zenon DEF Budgets!Pages
  <2>4. BudgetsSame(n, page)
    BY <1>1, <2>1 DEF Budgets!Pages, BudgetsSame, BudgetsKept
  <2>5. n.box = page.box /\ n.editor = "saving" /\ n.deletingBusy = page.deletingBusy /\ n.deleteRequest = page.deleteRequest
    BY <1>1, <2>1 DEF Budgets!Pages
  <2>6. page.changes + (IF page.deleteRequest = None THEN 0 ELSE 1) + 1 <= MaxChanges
    BY <1>4, <2>2 DEF Budgets!Begun
  <2>7. BudgetsGood(n, ledger) /\ n.filter = page.filter /\ n.search = page.search
    BY <1>4, <1>5, <2>3, <2>4, <2>5, <2>6
  <2> QED BY <1>2, <2>2, <2>5, <2>7
<1>13. CASE Budgets!RequestDelete
  <2>8. page.items # None
    BY <1>13 DEF Budgets!RequestDelete, Budgets!ListShown
  <2>9. PICK d \in Ledgers \cup {None} : d = page.items.query.ledger
    BY <1>1, <2>8 DEF Budgets!Pages, Budgets!Lists, Budgets!Queries
  <2>1. PICK n : n = [page EXCEPT !.deleting = d]
    OBVIOUS
  <2>2. Budgets!Become(n)
    BY <1>13, <2>1, <2>9 DEF Budgets!RequestDelete
  <2>3. n \in Budgets!Pages
    BY <1>1, <2>1, Zenon DEF Budgets!Pages
  <2>4. BudgetsSame(n, page)
    BY <1>1, <2>1 DEF Budgets!Pages, BudgetsSame, BudgetsKept
  <2>5. n.box = page.box /\ n.editor = page.editor /\ n.deletingBusy = page.deletingBusy /\ n.deleteRequest = page.deleteRequest
    BY <1>1, <2>1 DEF Budgets!Pages
  <2>7. BudgetsGood(n, ledger) /\ n.filter = page.filter /\ n.search = page.search
    BY <1>4, <1>5, <1>6, <2>3, <2>4, <2>5
  <2> QED BY <1>2, <2>2, <2>5, <2>7
<1>14. CASE Budgets!CloseDelete
  <2>1. PICK n : n = [page EXCEPT !.deleting = None]
    OBVIOUS
  <2>2. Budgets!Become(n)
    BY <1>14, <2>1 DEF Budgets!CloseDelete
  <2>3. n \in Budgets!Pages
    BY <1>1, <2>1, Zenon DEF Budgets!Pages
  <2>4. BudgetsSame(n, page)
    BY <1>1, <2>1 DEF Budgets!Pages, BudgetsSame, BudgetsKept
  <2>5. n.box = page.box /\ n.editor = page.editor /\ n.deletingBusy = page.deletingBusy /\ n.deleteRequest = page.deleteRequest
    BY <1>1, <2>1 DEF Budgets!Pages
  <2>7. BudgetsGood(n, ledger) /\ n.filter = page.filter /\ n.search = page.search
    BY <1>4, <1>5, <1>6, <2>3, <2>4, <2>5
  <2> QED BY <1>2, <2>2, <2>5, <2>7
<1>15. CASE Budgets!Remove
  <2>1. PICK n : n = [page EXCEPT !.deletingBusy = TRUE, !.deleteRequest = ledger]
    OBVIOUS
  <2>2. Budgets!Become(n) /\ ~ page.deletingBusy /\ Budgets!Begun < MaxChanges
    BY <1>15, <2>1 DEF Budgets!Remove
  <2>3. n \in Budgets!Pages
    BY <1>1, <2>1, Zenon DEF Budgets!Pages
  <2>4. BudgetsSame(n, page)
    BY <1>1, <2>1 DEF Budgets!Pages, BudgetsSame, BudgetsKept
  <2>5. n.box = page.box /\ n.editor = page.editor /\ n.deletingBusy /\ n.deleteRequest = ledger
    BY <1>1, <2>1 DEF Budgets!Pages
  <2>6. /\ page.deleteRequest = None /\ ledger # None
        /\ page.changes + 1 + (IF page.editor = "saving" THEN 1 ELSE 0) <= MaxChanges
    BY <1>1, <1>4, <2>2, NoneAssumption DEF Budgets!Begun
  <2>7. BudgetsGood(n, ledger) /\ n.filter = page.filter /\ n.search = page.search
    BY <1>5, <2>3, <2>4, <2>5, <2>6
  <2> QED BY <1>2, <2>2, <2>5, <2>7
<1>16. CASE Budgets!SearchDue
  <2>1. page.typed # None /\ page.typed \in Texts
    BY <1>1, <1>16 DEF Budgets!SearchDue, Budgets!Pages
  <2>2. CASE page.typed = page.lastTyped
    <3>1. PICK n : n = [page EXCEPT !.typed = None]
      OBVIOUS
    <3>2. Budgets!Become(n)
      BY <1>16, <2>2, <3>1 DEF Budgets!SearchDue
    <3>3. n \in Budgets!Pages
      BY <1>1, <3>1, Zenon DEF Budgets!Pages
    <3>4. BudgetsSame(n, page)
      BY <1>1, <3>1 DEF Budgets!Pages, BudgetsSame, BudgetsKept
    <3>5. n.box = page.box /\ n.editor = page.editor /\ n.deletingBusy = page.deletingBusy
          /\ n.deleteRequest = page.deleteRequest
      BY <1>1, <3>1 DEF Budgets!Pages
    <3>6. BudgetsGood(n, ledger) /\ n.filter = page.filter /\ n.search = page.search
      BY <1>4, <1>5, <1>6, <3>3, <3>4, <3>5
    <3> QED BY <1>2, <3>2, <3>5, <3>6
  <2>3. CASE page.typed # page.lastTyped
    <3>1. PICK t \in Texts : t = page.typed
      BY <2>1
    <3>2. PICK p : p = [page EXCEPT !.search = t, !.box = t, !.lastTyped = t, !.typed = None]
      OBVIOUS
    <3>3. PICK n : n = Budgets!Load(p)
      OBVIOUS
    <3>4. Budgets!Save(n, t)
      BY <1>16, <2>3, <3>1, <3>2, <3>3 DEF Budgets!SearchDue
    <3>5. p \in Budgets!Pages
      BY <1>1, <3>2, Zenon DEF Budgets!Pages
    <3>6. BudgetsKept(p, page)
      BY <1>1, <3>2 DEF Budgets!Pages, BudgetsKept
    <3>7. /\ p.search = t /\ p.editor = page.editor /\ p.changes = page.changes
          /\ p.deletingBusy = page.deletingBusy /\ p.deleteRequest = page.deleteRequest
      BY <1>1, <3>2 DEF Budgets!Pages
    <3>8. BudgetsGood(n, ledger) /\ n.search = t
      BY <1>8, <3>3, <3>5, <3>6, <3>7
    <3> QED BY <1>3, <3>4, <3>8
  <2> QED BY <2>2, <2>3
<1>17. ASSUME NEW c \in Budgets!Filters, Budgets!ResourcesAnswer(c)
       PROVE  BudgetsInv' /\ page' # None /\ ledger' = ledger
  <2>1. page.resourcesRequest # None
    BY <1>17 DEF Budgets!ResourcesAnswer
  <2>2. PICK r \in Ledgers : r = page.resourcesRequest
    BY <1>1, <2>1 DEF Budgets!Pages
  <2>3. PICK p : p = [page EXCEPT !.resources = r, !.resourcesRequest = None, !.resourcesLoading = FALSE,
                                  !.filter = c]
    OBVIOUS
  <2>4. PICK n : n = Budgets!Load(p)
    OBVIOUS
  <2>5. p \in Budgets!Pages
    BY <1>1, <2>3, Zenon DEF Budgets!Pages
  <2>6. /\ p.resourcesRequest = None /\ ~ p.resourcesLoading
        /\ p.items = page.items /\ p.nextCursor = page.nextCursor /\ p.overviewRequest = page.overviewRequest
        /\ p.loading = page.loading /\ p.loadingMore = page.loadingMore
    BY <1>1, <2>3 DEF Budgets!Pages
  <2>7. /\ p.search = page.search /\ p.editor = page.editor /\ p.changes = page.changes
        /\ p.deletingBusy = page.deletingBusy /\ p.deleteRequest = page.deleteRequest
    BY <1>1, <2>3 DEF Budgets!Pages
  <2>8. BudgetsSpinners(p)
    BY <1>4, <2>6 DEF BudgetsSpinners
  <2>9. p.nextCursor => p.items # None /\ p.items.pages < MaxPages
    BY <1>4, <2>6 DEF BudgetsLists
  <2>10. BudgetsBegun(p) <= MaxChanges
    BY <1>6, <2>7 DEF BudgetsBegun
  <2>11. BudgetsLoose(p)
    BY <1>4, <2>6, <2>7, <2>8, <2>9, <2>10 DEF BudgetsLoose
  <2>12. BudgetsGood(n, ledger) /\ n.search = p.search
    BY <1>1, <2>4, <2>5, <2>11, BudgetsLoad
  <2>13. Budgets!Save(n, page.search)
    BY <1>17, <2>2, <2>3, <2>4, <2>7 DEF Budgets!ResourcesAnswer
  <2> QED BY <1>3, <1>4, <2>7, <2>12, <2>13
<1>18. CASE Budgets!ResourcesFail
  <2>1. PICK n : n = [page EXCEPT !.resourcesRequest = None, !.resourcesLoading = FALSE, !.error = TRUE]
    OBVIOUS
  <2>2. Budgets!Become(n) /\ page.resourcesRequest # None
    BY <1>18, <2>1 DEF Budgets!ResourcesFail
  <2>3. n \in Budgets!Pages
    BY <1>1, <2>1, Zenon DEF Budgets!Pages
  <2>4. /\ n.filter = page.filter /\ n.search = page.search /\ n.box = page.box
        /\ n.resourcesRequest = None /\ ~ n.resourcesLoading
        /\ n.items = page.items /\ n.nextCursor = page.nextCursor /\ n.overviewRequest = page.overviewRequest
        /\ n.loading = page.loading /\ n.loadingMore = page.loadingMore /\ n.outlived = page.outlived /\ n.error
    BY <1>1, <2>1 DEF Budgets!Pages
  <2>5. /\ n.editor = page.editor /\ n.changes = page.changes
        /\ n.deletingBusy = page.deletingBusy /\ n.deleteRequest = page.deleteRequest
    BY <1>1, <2>1 DEF Budgets!Pages
  <2>6. page.resourcesLoading
    BY <1>4, <2>2 DEF BudgetsSpinners
  <2>7. BudgetsSpinners(n)
    BY <1>4, <2>4 DEF BudgetsSpinners
  <2>8. BudgetsLists(n, ledger)
    BY <1>4, <2>4, <2>6 DEF BudgetsLists
  <2>9. BudgetsGood(n, ledger)
    BY <1>4, <2>3, <2>5, <2>7, <2>8 DEF BudgetsGood, BudgetsBegun
  <2> QED BY <1>2, <2>2, <2>4, <2>9
<1>19. CASE Budgets!OverviewFail
  <2>1. PICK n : n = [page EXCEPT !.overviewRequest = None, !.loading = FALSE, !.loadingMore = FALSE, !.error = TRUE]
    OBVIOUS
  <2>2. Budgets!Become(n)
    BY <1>19, <2>1 DEF Budgets!OverviewFail
  <2>3. n \in Budgets!Pages
    BY <1>1, <2>1, Zenon DEF Budgets!Pages
  <2>4. /\ n.filter = page.filter /\ n.search = page.search /\ n.box = page.box
        /\ n.resourcesRequest = page.resourcesRequest /\ n.resourcesLoading = page.resourcesLoading
        /\ n.items = page.items /\ n.nextCursor = page.nextCursor /\ n.overviewRequest = None
        /\ ~ n.loading /\ ~ n.loadingMore /\ n.outlived = page.outlived /\ n.error
    BY <1>1, <2>1 DEF Budgets!Pages
  <2>5. /\ n.editor = page.editor /\ n.changes = page.changes
        /\ n.deletingBusy = page.deletingBusy /\ n.deleteRequest = page.deleteRequest
    BY <1>1, <2>1 DEF Budgets!Pages
  <2>6. BudgetsSpinners(n)
    BY <1>4, <2>4 DEF BudgetsSpinners
  <2>7. BudgetsQuery(n, ledger) = BudgetsQuery(page, ledger)
    BY <2>4 DEF BudgetsQuery
  <2>8. BudgetsLists(n, ledger)
    BY <1>4, <2>4, <2>5, <2>7 DEF BudgetsLists
  <2>9. BudgetsGood(n, ledger)
    BY <1>4, <2>3, <2>5, <2>6, <2>8 DEF BudgetsGood, BudgetsBegun
  <2> QED BY <1>2, <2>2, <2>4, <2>9
<1>20. ASSUME NEW more \in BOOLEAN, Budgets!OverviewAnswer(more)
       PROVE  BudgetsInv' /\ page' # None /\ ledger' = ledger
  <2>1. page.overviewRequest # None /\ (more => page.overviewRequest.pages < MaxPages)
    BY <1>20 DEF Budgets!OverviewAnswer
  <2>2. PICK r \in Budgets!Lists : r = page.overviewRequest
    BY <1>1, <2>1 DEF Budgets!Pages
  <2>3. PICK i : i = IF page.loading \/ page.items = None THEN r ELSE [page.items EXCEPT !.pages = r.pages]
    OBVIOUS
  <2>4. i \in Budgets!Lists /\ i.pages = r.pages
        /\ (\/ i = r
            \/ page.items # None /\ i.query = page.items.query /\ i.fresh = page.items.fresh)
    <3>1. r.pages \in 1..MaxPages
      BY DEF Budgets!Lists
    <3>2. page.items \in Budgets!Lists \cup {None}
      BY <1>1 DEF Budgets!Pages
    <3> QED BY <2>3, <3>1, <3>2 DEF Budgets!Lists
  <2>5. i # None
    BY <2>4, NoneAssumption
  <2>6. PICK n : n = [page EXCEPT !.items = i, !.overviewRequest = None, !.loading = FALSE, !.loadingMore = FALSE,
                                  !.nextCursor = more]
    OBVIOUS
  <2>7. Budgets!Become(n)
    BY <1>1, <1>20, <2>2, <2>3, <2>6 DEF Budgets!OverviewAnswer, Budgets!Pages
  <2>8. n \in Budgets!Pages
    <3>1. i \in Budgets!Lists
      BY <2>4
    <3> QED BY <1>1, <2>6, <3>1, Zenon DEF Budgets!Pages
  <2>9. /\ n.filter = page.filter /\ n.search = page.search /\ n.box = page.box
        /\ n.resourcesRequest = page.resourcesRequest /\ n.resourcesLoading = page.resourcesLoading
        /\ n.items = i /\ n.nextCursor = more /\ n.overviewRequest = None
        /\ ~ n.loading /\ ~ n.loadingMore /\ n.outlived = page.outlived /\ n.error = page.error
    BY <1>1, <2>6 DEF Budgets!Pages
  <2>10. /\ n.editor = page.editor /\ n.changes = page.changes
         /\ n.deletingBusy = page.deletingBusy /\ n.deleteRequest = page.deleteRequest
    BY <1>1, <2>6 DEF Budgets!Pages
  <2>11. BudgetsSpinners(n)
    BY <1>4, <2>9 DEF BudgetsSpinners
  <2>12. BudgetsQuery(n, ledger) = BudgetsQuery(page, ledger)
    BY <2>9 DEF BudgetsQuery
  <2>13. ~ page.outlived =>
           ~ page.resourcesLoading /\ i.query = BudgetsQuery(page, ledger) /\ i.fresh = page.changes
    BY <1>4, <2>1, <2>2, <2>4 DEF BudgetsLists
  <2>14. BudgetsLists(n, ledger)
    BY <2>1, <2>2, <2>4, <2>5, <2>9, <2>10, <2>12, <2>13 DEF BudgetsLists
  <2>15. BudgetsGood(n, ledger)
    BY <1>4, <2>8, <2>10, <2>11, <2>14 DEF BudgetsGood, BudgetsBegun
  <2> QED BY <1>2, <2>7, <2>9, <2>15
<1>21. ASSUME NEW n \in Budgets!Pages, BudgetsSame(n, page), n.box = page.box,
              n.deletingBusy <=> n.deleteRequest # None,
              page.changes + (IF n.deleteRequest = None THEN 0 ELSE 1) + (IF n.editor = "saving" THEN 1 ELSE 0)
                < MaxChanges,
              Budgets!Become(Budgets!Load(Budgets!Changed(n)))
       PROVE  BudgetsInv' /\ page' # None /\ ledger' = ledger
  <2>1. BudgetsBegun(n) < MaxChanges
    BY <1>21 DEF BudgetsBegun, BudgetsSame
  <2>2. PICK c : c = Budgets!Load(Budgets!Changed(n))
    OBVIOUS
  <2>3. BudgetsGood(c, ledger) /\ c.filter = page.filter /\ c.search = page.search /\ c.box = page.box
    BY <1>1, <1>21, <2>1, <2>2, BudgetsChanged
  <2> QED BY <1>2, <1>21, <2>2, <2>3
<1>22. ASSUME NEW ok \in BOOLEAN, Budgets!SaveAnswer(ok)
       PROVE  BudgetsInv' /\ page' # None /\ ledger' = ledger
  <2>1. PICK n : n = [page EXCEPT !.editor = "closed"]
    OBVIOUS
  <2>2. page.editor = "saving" /\ Budgets!Become(IF ok THEN Budgets!Load(Budgets!Changed(n)) ELSE n)
    BY <1>22, <2>1 DEF Budgets!SaveAnswer
  <2>3. n \in Budgets!Pages
    BY <1>1, <2>1, Zenon DEF Budgets!Pages
  <2>4. BudgetsSame(n, page)
    BY <1>1, <2>1 DEF Budgets!Pages, BudgetsSame, BudgetsKept
  <2>5. n.box = page.box /\ n.editor = "closed" /\ n.deletingBusy = page.deletingBusy
        /\ n.deleteRequest = page.deleteRequest
    BY <1>1, <2>1 DEF Budgets!Pages
  <2>6. page.changes + (IF n.deleteRequest = None THEN 0 ELSE 1) + (IF n.editor = "saving" THEN 1 ELSE 0)
          < MaxChanges
    BY <1>4, <1>6, <2>2, <2>5
  <2>7. CASE ok
    <3>1. Budgets!Become(Budgets!Load(Budgets!Changed(n)))
      BY <2>2, <2>7
    <3> QED BY <1>4, <1>21, <2>3, <2>4, <2>5, <2>6, <3>1
  <2>8. CASE ~ ok
    <3>1. Budgets!Become(n)
      BY <2>2, <2>8
    <3>2. BudgetsGood(n, ledger) /\ n.filter = page.filter /\ n.search = page.search
      BY <1>4, <1>5, <2>3, <2>4, <2>5, <2>6
    <3> QED BY <1>2, <2>5, <3>1, <3>2
  <2> QED BY <2>7, <2>8
<1>23. ASSUME NEW ok \in BOOLEAN, Budgets!DeleteAnswer(ok)
       PROVE  BudgetsInv' /\ page' # None /\ ledger' = ledger
  <2>1. PICK over : over = [page EXCEPT !.deleteRequest = None, !.deletingBusy = FALSE]
    OBVIOUS
  <2>2. PICK gone : gone = [over EXCEPT !.deleting = None, !.editor = "closed"]
    OBVIOUS
  <2>3. page.deleteRequest # None
        /\ Budgets!Become(IF ok THEN Budgets!Load(Budgets!Changed(gone)) ELSE over)
    BY <1>23, <2>1, <2>2 DEF Budgets!DeleteAnswer
  <2>4. page.changes + (IF page.editor = "saving" THEN 1 ELSE 0) < MaxChanges /\ page.changes < MaxChanges
    BY <1>4, <1>6, <2>3
  <2>5. over \in Budgets!Pages
    BY <1>1, <2>1, Zenon DEF Budgets!Pages
  <2>6. BudgetsSame(over, page)
    BY <1>1, <2>1 DEF Budgets!Pages, BudgetsSame, BudgetsKept
  <2>7. over.box = page.box /\ over.editor = page.editor /\ ~ over.deletingBusy /\ over.deleteRequest = None
    BY <1>1, <2>1 DEF Budgets!Pages
  <2>8. gone \in Budgets!Pages
    BY <2>2, <2>5, Zenon DEF Budgets!Pages
  <2>9. BudgetsSame(gone, over)
    BY <2>2, <2>5 DEF Budgets!Pages, BudgetsSame, BudgetsKept
  <2>10. BudgetsSame(gone, page)
    BY <2>6, <2>9 DEF BudgetsSame, BudgetsKept
  <2>11. gone.box = page.box /\ gone.editor = "closed" /\ ~ gone.deletingBusy /\ gone.deleteRequest = None
    BY <2>2, <2>5, <2>7 DEF Budgets!Pages
  <2>12. CASE ok
    <3>1. page.changes + (IF gone.deleteRequest = None THEN 0 ELSE 1)
            + (IF gone.editor = "saving" THEN 1 ELSE 0) < MaxChanges
      BY <1>4, <2>4, <2>11
    <3> QED BY <1>21, <2>3, <2>8, <2>10, <2>11, <2>12, <3>1
  <2>13. CASE ~ ok
    <3>1. page.changes + (IF over.deleteRequest = None THEN 0 ELSE 1)
            + (IF over.editor = "saving" THEN 1 ELSE 0) <= MaxChanges
      BY <1>4, <2>4, <2>7
    <3>2. BudgetsGood(over, ledger) /\ over.filter = page.filter /\ over.search = page.search
      BY <1>5, <2>5, <2>6, <2>7, <3>1
    <3> QED BY <1>2, <2>3, <2>7, <2>13, <3>2
  <2> QED BY <2>12, <2>13
<1> QED
  BY <1>7, <1>9, <1>10, <1>11, <1>12, <1>13, <1>14, <1>15, <1>16, <1>17, <1>18, <1>19, <1>20, <1>22, <1>23
     DEF Budgets!Next

--------------------------------------------------------------------------------
(* The categories *)

\* A move and a deletion take each other's place, and a deletion has its dialog.
CategoriesBusy(p) ==
  /\ p.moving # None <=> p.mutation = "move"
  /\ p.deletingBusy <=> p.mutation = "delete"
  /\ p.deletingBusy => p.deleting # None
  /\ Categories!Begun(p) <= 2

\* A tree that is there or under way is the ledger's, and it has the changes
\* unless the answer to a move was given up.
CategoriesTrees(p, l) ==
  /\ p.loading <=> p.request # None
  /\ p.tree # None => p.tree.ledger = l
  /\ p.request # None => p.request.ledger = l /\ (~ p.unsure => p.request.fresh = p.changes)
  /\ p.request = None /\ ~ p.error => p.tree # None /\ (~ p.unsure => p.tree.fresh = p.changes)

CategoriesGood(p, l) == p \in Categories!Pages /\ CategoriesBusy(p) /\ CategoriesTrees(p, l)

CategoriesSaved(p, v) == v # None => p.view \in {v, [v EXCEPT !.rootCollapsed = FALSE]}

CategoriesInv ==
  /\ saved \in [Ledgers -> Categories!Views \cup {None}]
  /\ page # None => ledger \in Ledgers /\ CategoriesGood(page, ledger) /\ CategoriesSaved(page, saved[ledger])

CategoriesSame(n, p) ==
  /\ n.tree = p.tree /\ n.request = p.request /\ n.loading = p.loading
  /\ n.error = p.error /\ n.changes = p.changes /\ n.unsure = p.unsure

LEMMA CategoriesDialogs ==
  ASSUME NEW l, NEW p, CategoriesGood(p, l), NEW n \in Categories!Pages, CategoriesSame(n, p), CategoriesBusy(n)
  PROVE  CategoriesGood(n, l)
<1>1. CategoriesTrees(n, l)
  BY DEF CategoriesGood, CategoriesTrees, CategoriesSame
<1> QED BY <1>1 DEF CategoriesGood

LEMMA CategoriesLoad ==
  ASSUME NEW l \in Ledgers, NEW p \in Categories!Pages, CategoriesBusy(p), p.tree # None => p.tree.ledger = l,
         NEW n, n = Categories!Load(p, l)
  PROVE  CategoriesGood(n, l) /\ n.view = p.view
<1>1. PICK r : r = [ledger |-> l, fresh |-> p.changes]
  OBVIOUS
<1>2. r \in Categories!Requests /\ r.ledger = l /\ r.fresh = p.changes
  BY <1>1 DEF Categories!Requests, Categories!Pages
<1>3. r # None
  BY <1>2, NoneAssumption
<1>4. n = [p EXCEPT !.request = r, !.loading = TRUE, !.error = FALSE, !.unsure = FALSE]
  BY <1>1 DEF Categories!Load
<1>5. n \in Categories!Pages
  <2>1. r \in Categories!Requests
    BY <1>2
  <2> QED BY <1>4, <2>1, Zenon DEF Categories!Pages
<1>6. /\ n.view = p.view /\ n.tree = p.tree /\ n.request = r /\ n.loading /\ ~ n.error /\ ~ n.unsure
      /\ n.changes = p.changes
  BY <1>4 DEF Categories!Pages
<1>7. /\ n.moving = p.moving /\ n.mutation = p.mutation /\ n.editor = p.editor
      /\ n.deleting = p.deleting /\ n.deletingBusy = p.deletingBusy
  BY <1>4 DEF Categories!Pages
<1>8. CategoriesBusy(n)
  BY <1>6, <1>7 DEF CategoriesBusy, Categories!Begun
<1>9. CategoriesTrees(n, l)
  BY <1>2, <1>3, <1>6 DEF CategoriesTrees
<1> QED BY <1>5, <1>6, <1>8, <1>9 DEF CategoriesGood

\* The page of ledger l, whether a page was there before or not.
LEMMA CategoriesOpened ==
  ASSUME CategoriesInv, NEW l \in Ledgers, NEW n, n = Categories!Opened(l)
  PROVE  CategoriesGood(n, l) /\ CategoriesSaved(n, saved[l])
<1>1. PICK v : v = IF saved[l] = None THEN Categories!FirstView ELSE saved[l]
  OBVIOUS
<1>2. v \in Categories!Views
  BY <1>1, WorkspaceAssumption DEF CategoriesInv, Categories!FirstView, Categories!Views
<1>3. PICK p : p =
        [view |-> v, tree |-> None, request |-> None, loading |-> FALSE, error |-> FALSE,
         dragging |-> None, target |-> None, moving |-> None, mutation |-> "none",
         editor |-> "closed", deleting |-> None, deletingBusy |-> FALSE, changes |-> 0, unsure |-> FALSE]
  OBVIOUS
<1>4. n = Categories!Load(p, l)
  BY <1>1, <1>3 DEF Categories!Opened
<1>5. p \in Categories!Pages
  BY <1>2, <1>3 DEF Categories!Pages
<1>6. p.view = v /\ p.tree = None /\ CategoriesBusy(p)
  BY <1>3 DEF CategoriesBusy, Categories!Begun
<1>7. CategoriesGood(n, l) /\ n.view = v
  BY <1>4, <1>5, <1>6, CategoriesLoad
<1>8. saved[l] # None => saved[l] = v
  BY <1>1
<1> QED BY <1>7, <1>8 DEF CategoriesSaved

LEMMA CategoriesBecome ==
  ASSUME CategoriesInv, page # None, NEW p, Categories!Become(p), CategoriesGood(p, ledger),
         CategoriesSaved(p, saved[ledger])
  PROVE  CategoriesInv' /\ page' # None /\ ledger' = ledger
<1>1. page' = p /\ UNCHANGED <<ledger, saved>>
  BY DEF Categories!Become
<1>2. p # None
  BY NoneAssumption DEF CategoriesGood
<1>3. CategoriesGood(page, ledger)' /\ CategoriesSaved(page, saved[ledger])'
  BY <1>1 DEF CategoriesGood, CategoriesBusy, CategoriesTrees, CategoriesSaved, Categories!Begun
<1> QED BY <1>1, <1>2, <1>3 DEF CategoriesInv

LEMMA CategoriesSave ==
  ASSUME CategoriesInv, page # None, NEW p, Categories!Save(p), CategoriesGood(p, ledger)
  PROVE  CategoriesInv' /\ page' # None /\ ledger' = ledger
<1>1. p \in Categories!Pages /\ p # None /\ ledger \in Ledgers /\ saved \in [Ledgers -> Categories!Views \cup {None}]
  BY NoneAssumption DEF CategoriesGood, CategoriesInv
<1>2. PICK v \in Categories!Views : v = p.view
  BY <1>1 DEF Categories!Pages
<1>3. page' = p /\ saved' = [saved EXCEPT ![ledger] = v] /\ ledger' = ledger
  BY <1>2 DEF Categories!Save
<1>4. saved' \in [Ledgers -> Categories!Views \cup {None}] /\ saved'[ledger] = v
  BY <1>1, <1>3
<1>5. CategoriesGood(page, ledger)'
  BY <1>3 DEF CategoriesGood, CategoriesBusy, CategoriesTrees, Categories!Begun
<1>6. CategoriesSaved(page, saved[ledger])'
  BY <1>2, <1>3, <1>4 DEF CategoriesSaved
<1> QED BY <1>1, <1>3, <1>4, <1>5, <1>6 DEF CategoriesInv

\* What the user or an answer changes of the dialogs, the editor or the drag.
LEMMA CategoriesAside ==
  ASSUME CategoriesInv, page # None, NEW n \in Categories!Pages, Categories!Become(n),
         CategoriesSame(n, page), n.view = page.view, CategoriesBusy(n)
  PROVE  CategoriesInv' /\ page' # None /\ ledger' = ledger
<1>1. CategoriesGood(n, ledger)
  BY CategoriesDialogs DEF CategoriesInv
<1>2. CategoriesSaved(n, saved[ledger])
  BY DEF CategoriesInv, CategoriesSaved
<1> QED BY <1>1, <1>2, CategoriesBecome

\* A move or a save that has been made.
LEMMA CategoriesReveal ==
  ASSUME CategoriesInv, page # None, NEW p \in Categories!Pages, CategoriesBusy(p), Categories!Begun(p) < 2,
         p.tree # None => p.tree.ledger = ledger, p.view = page.view,
         NEW parent, Categories!RevealAndLoad(p, parent)
  PROVE  CategoriesInv' /\ page' # None /\ ledger' = ledger
<1>1. p.view \in Categories!Views /\ p.changes \in 0..2 /\ ledger \in Ledgers
  BY DEF Categories!Pages, CategoriesInv
<1>2. PICK C : C = IF parent = Top THEN p.view.collapsed ELSE p.view.collapsed \ Categories!Path(p, parent)
  OBVIOUS
<1>3. PICK v : v = [p.view EXCEPT !.rootCollapsed = FALSE, !.collapsed = C]
  OBVIOUS
<1>4. v \in Categories!Views
  BY <1>1, <1>2, <1>3 DEF Categories!Views
<1>5. p.changes + 1 \in 0..2
  BY <1>1 DEF Categories!Begun
<1>6. PICK ch \in 0..2 : ch = p.changes + 1
  BY <1>5
<1>7. PICK m : m = [p EXCEPT !.view = v, !.changes = ch]
  OBVIOUS
<1>8. [[p EXCEPT !.view.rootCollapsed = FALSE,
                 !.view.collapsed = IF parent = Top THEN @ ELSE @ \ Categories!Path(p, parent)]
         EXCEPT !.changes = @ + 1] = m
  BY <1>1, <1>2, <1>3, <1>6, <1>7 DEF Categories!Pages, Categories!Views
<1>9. m \in Categories!Pages
  BY <1>4, <1>6, <1>7, Zenon DEF Categories!Pages
<1>10. m.view = v /\ m.tree = p.tree /\ m.changes = ch
  BY <1>7 DEF Categories!Pages
<1>11. /\ m.moving = p.moving /\ m.mutation = p.mutation /\ m.editor = p.editor
       /\ m.deleting = p.deleting /\ m.deletingBusy = p.deletingBusy
  BY <1>7 DEF Categories!Pages
<1>12. CategoriesBusy(m)
  BY <1>1, <1>6, <1>10, <1>11 DEF CategoriesBusy, Categories!Begun
<1>13. PICK n : n = Categories!Load(m, ledger)
  OBVIOUS
<1>14. CategoriesGood(n, ledger) /\ n.view = v
  BY <1>1, <1>9, <1>10, <1>12, <1>13, CategoriesLoad
<1>15. IF parent = Top THEN Categories!Become(n) ELSE Categories!Save(n)
  BY <1>8, <1>13 DEF Categories!RevealAndLoad
<1>16. CASE parent = Top
  <2>1. v = [page.view EXCEPT !.rootCollapsed = FALSE]
    BY <1>1, <1>2, <1>3, <1>16 DEF Categories!Views
  <2>2. saved[ledger] \in Categories!Views \cup {None}
    BY <1>1 DEF CategoriesInv
  <2>3. CategoriesSaved(n, saved[ledger])
    BY <1>14, <2>1, <2>2 DEF CategoriesInv, CategoriesSaved, Categories!Views
  <2> QED BY <1>14, <1>15, <1>16, <2>3, CategoriesBecome
<1>17. CASE parent # Top
  BY <1>14, <1>15, <1>17, CategoriesSave
<1> QED BY <1>16, <1>17

\* The categories of the tree on the screen are among those that may be.
LEMMA ParentsAreCategories ==
  ASSUME NEW p \in Categories!Pages
  PROVE  DOMAIN Categories!Parents(p) \subseteq Categories!Categories
<1>1. CASE p.tree = None
  BY <1>1 DEF Categories!Parents
<1>2. CASE p.tree # None
  <2>1. p.tree \in Categories!Loaded
    BY <1>2 DEF Categories!Pages
  <2>2. PICK l \in Ledgers : p.tree \in [ledger : {l}, of : Forests[l], fresh : 0..2]
    BY <2>1 DEF Categories!Loaded
  <2>3. p.tree.of \in Forests[l]
    BY <2>2
  <2>4. p.tree.of \in Categories!Trees
    BY <2>3 DEF Categories!Trees
  <2> QED BY <1>2, <2>4 DEF Categories!Parents, Categories!Categories
<1> QED BY <1>1, <1>2

LEMMA CategoriesStep ==
  ASSUME CategoriesInv, Categories!Next
  PROVE  CategoriesInv' /\ page' # None /\ ledger' = ledger
<1>0. page # None
  BY DEF Categories!Next, Categories!Open, Categories!Free, Categories!Filter, Categories!ToggleRoot,
         Categories!ToggleCategory, Categories!Retry, Categories!SaveCategory, Categories!RequestDelete,
         Categories!CloseDelete, Categories!Remove, Categories!StartPointerDrag, Categories!PointerDrag,
         Categories!Drop, Categories!TreeAnswer, Categories!TreeFail, Categories!MoveAnswer,
         Categories!SaveAnswer, Categories!SaveFail, Categories!MoveFail, Categories!DeleteAnswer
<1>1. /\ page \in Categories!Pages /\ CategoriesBusy(page) /\ CategoriesTrees(page, ledger)
      /\ CategoriesGood(page, ledger) /\ ledger \in Ledgers
      /\ saved \in [Ledgers -> Categories!Views \cup {None}] /\ CategoriesSaved(page, saved[ledger])
  BY <1>0 DEF CategoriesInv, CategoriesGood
<1>2. /\ page.view \in Categories!Views /\ page.changes \in 0..2
      /\ page.changes + (IF page.mutation = "none" THEN 0 ELSE 1) + (IF page.editor = "saving" THEN 1 ELSE 0) <= 2
      /\ page.changes + (IF page.mutation = "none" THEN 0 ELSE 1) <= 2
      /\ page.changes + (IF page.editor = "saving" THEN 1 ELSE 0) <= 2
  BY <1>1 DEF CategoriesBusy, Categories!Begun, Categories!Pages
\* A view that is saved.
<1>3. ASSUME NEW v \in Categories!Views, Categories!Save([page EXCEPT !.view = v])
      PROVE  CategoriesInv' /\ page' # None /\ ledger' = ledger
  <2>1. PICK n : n = [page EXCEPT !.view = v]
    OBVIOUS
  <2>2. n \in Categories!Pages
    BY <1>1, <1>3, <2>1, Zenon DEF Categories!Pages
  <2>3. CategoriesSame(n, page)
    BY <1>1, <2>1 DEF Categories!Pages, CategoriesSame
  <2>4. /\ n.moving = page.moving /\ n.mutation = page.mutation /\ n.editor = page.editor
        /\ n.deleting = page.deleting /\ n.deletingBusy = page.deletingBusy /\ n.changes = page.changes
    BY <1>1, <2>1 DEF Categories!Pages
  <2>5. CategoriesBusy(n)
    BY <1>1, <2>4 DEF CategoriesBusy, Categories!Begun
  <2>6. CategoriesGood(n, ledger)
    BY <1>1, <2>2, <2>3, <2>5, CategoriesDialogs
  <2> QED BY <1>0, <1>3, <2>1, <2>6, CategoriesSave
<1>4. ASSUME NEW t \in Texts, Categories!Filter(t) PROVE CategoriesInv' /\ page' # None /\ ledger' = ledger
  <2>1. PICK v : v = [page.view EXCEPT !.search = t]
    OBVIOUS
  <2>2. v \in Categories!Views
    BY <1>2, <2>1 DEF Categories!Views
  <2>3. Categories!Save([page EXCEPT !.view = v])
    BY <1>4, <2>1 DEF Categories!Filter
  <2> QED BY <1>3, <2>2, <2>3
<1>5. CASE Categories!ToggleRoot
  <2>1. PICK v : v = [page.view EXCEPT !.rootCollapsed = ~ @]
    OBVIOUS
  <2>2. v \in Categories!Views
    BY <1>2, <2>1 DEF Categories!Views
  <2>3. Categories!Save([page EXCEPT !.view = v])
    BY <1>5, <2>1 DEF Categories!ToggleRoot
  <2> QED BY <1>3, <2>2, <2>3
<1>6. ASSUME NEW c \in Categories!Categories, Categories!ToggleCategory(c)
      PROVE  CategoriesInv' /\ page' # None /\ ledger' = ledger
  <2>1. PICK v : v = [page.view EXCEPT !.collapsed = IF c \in @ THEN @ \ {c} ELSE @ \cup {c}]
    OBVIOUS
  <2>2. v \in Categories!Views
    BY <1>2, <2>1 DEF Categories!Views
  <2>3. Categories!Save([page EXCEPT !.view = v])
    BY <1>6, <2>1 DEF Categories!ToggleCategory
  <2> QED BY <1>3, <2>2, <2>3
<1>7. CASE Categories!Retry
  <2>1. PICK n : n = Categories!Load(page, ledger)
    OBVIOUS
  <2>2. CategoriesGood(n, ledger) /\ n.view = page.view
    BY <1>1, <2>1, CategoriesLoad DEF CategoriesTrees
  <2>3. Categories!Become(n) /\ CategoriesSaved(n, saved[ledger])
    BY <1>1, <1>7, <2>1, <2>2 DEF Categories!Retry, CategoriesSaved
  <2> QED BY <1>0, <2>2, <2>3, CategoriesBecome
<1>8. CASE Categories!SaveCategory
  <2>1. PICK n : n = [page EXCEPT !.editor = "saving"]
    OBVIOUS
  <2>2. Categories!Become(n) /\ page.editor = "closed" /\ Categories!Begun(page) < 2
    BY <1>8, <2>1 DEF Categories!SaveCategory, Categories!Free
  <2>3. n \in Categories!Pages
    BY <1>1, <2>1, Zenon DEF Categories!Pages
  <2>4. CategoriesSame(n, page)
    BY <1>1, <2>1 DEF Categories!Pages, CategoriesSame
  <2>5. /\ n.view = page.view /\ n.moving = page.moving /\ n.mutation = page.mutation /\ n.editor = "saving"
        /\ n.deleting = page.deleting /\ n.deletingBusy = page.deletingBusy /\ n.changes = page.changes
    BY <1>1, <2>1 DEF Categories!Pages
  <2>6. page.changes + (IF page.mutation = "none" THEN 0 ELSE 1) + 1 <= 2
    BY <1>2, <2>2 DEF Categories!Begun
  <2>7. CategoriesBusy(n)
    BY <1>1, <2>5, <2>6 DEF CategoriesBusy, Categories!Begun
  <2> QED BY <1>0, <2>2, <2>3, <2>4, <2>5, <2>7, CategoriesAside
\* The dialog and the drag.
<1>9. ASSUME NEW d \in Categories!Categories \cup {None}, NEW g \in Categories!Categories \cup {None},
             NEW t \in Categories!Categories \cup {Top, None}, page.deletingBusy => d # None,
             Categories!Become([page EXCEPT !.deleting = d, !.dragging = g, !.target = t])
      PROVE  CategoriesInv' /\ page' # None /\ ledger' = ledger
  <2>1. PICK n : n = [page EXCEPT !.deleting = d, !.dragging = g, !.target = t]
    OBVIOUS
  <2>2. n \in Categories!Pages
    BY <1>1, <1>9, <2>1, Zenon DEF Categories!Pages
  <2>3. CategoriesSame(n, page)
    BY <1>1, <2>1 DEF Categories!Pages, CategoriesSame
  <2>4. /\ n.view = page.view /\ n.moving = page.moving /\ n.mutation = page.mutation /\ n.editor = page.editor
        /\ n.deleting = d /\ n.deletingBusy = page.deletingBusy /\ n.changes = page.changes
    BY <1>1, <2>1 DEF Categories!Pages
  <2>5. CategoriesBusy(n)
    BY <1>1, <1>9, <2>4 DEF CategoriesBusy, Categories!Begun
  <2> QED BY <1>0, <1>9, <2>1, <2>2, <2>3, <2>4, <2>5, CategoriesAside
<1>10. /\ page.deleting \in Categories!Categories \cup {None} /\ page.dragging \in Categories!Categories \cup {None}
       /\ page.target \in Categories!Categories \cup {Top, None}
  BY <1>1 DEF Categories!Pages
<1>11. ASSUME NEW c \in Categories!Categories, Categories!RequestDelete(c)
       PROVE  CategoriesInv' /\ page' # None /\ ledger' = ledger
  <2>1. c # None
    BY NoneAssumption
  <2>2. Categories!Become([page EXCEPT !.deleting = c])
    BY <1>11 DEF Categories!RequestDelete
  <2>3. [page EXCEPT !.deleting = c] = [page EXCEPT !.deleting = c, !.dragging = page.dragging, !.target = page.target]
    BY <1>1 DEF Categories!Pages
  <2>4. Categories!Become([page EXCEPT !.deleting = c, !.dragging = page.dragging, !.target = page.target])
    BY <2>2, <2>3
  <2>5. c \in Categories!Categories \cup {None} /\ (page.deletingBusy => c # None)
    BY <2>1
  <2> QED BY <1>9, <1>10, <2>4, <2>5
<1>12. CASE Categories!CloseDelete
  <2>1. Categories!Become([page EXCEPT !.deleting = None]) /\ ~ page.deletingBusy
    BY <1>12 DEF Categories!CloseDelete
  <2>2. [page EXCEPT !.deleting = None]
          = [page EXCEPT !.deleting = None, !.dragging = page.dragging, !.target = page.target]
    BY <1>1 DEF Categories!Pages
  <2>3. Categories!Become([page EXCEPT !.deleting = None, !.dragging = page.dragging, !.target = page.target])
    BY <2>1, <2>2
  <2> QED BY <1>9, <1>10, <2>1, <2>3
<1>13. ASSUME NEW c \in Categories!Categories, Categories!StartPointerDrag(c)
       PROVE  CategoriesInv' /\ page' # None /\ ledger' = ledger
  <2>1. Categories!Become([page EXCEPT !.dragging = c, !.target = None])
    BY <1>13 DEF Categories!StartPointerDrag
  <2>2. [page EXCEPT !.dragging = c, !.target = None]
          = [page EXCEPT !.deleting = page.deleting, !.dragging = c, !.target = None]
    BY <1>1 DEF Categories!Pages
  <2>3. Categories!Become([page EXCEPT !.deleting = page.deleting, !.dragging = c, !.target = None])
    BY <2>1, <2>2
  <2>4. page.deletingBusy => page.deleting # None
    BY <1>1 DEF CategoriesBusy
  <2> QED BY <1>9, <1>10, <2>3, <2>4
<1>14. ASSUME NEW c \in Categories!Categories \cup {Top}, Categories!PointerDrag(c)
       PROVE  CategoriesInv' /\ page' # None /\ ledger' = ledger
  <2>1. PICK t \in Categories!Categories \cup {Top, None} :
          t = IF Categories!CanMove(page, page.dragging, c) THEN c ELSE None
    OBVIOUS
  <2>2. Categories!Become([page EXCEPT !.target = t])
    BY <1>14, <2>1 DEF Categories!PointerDrag
  <2>3. [page EXCEPT !.target = t]
          = [page EXCEPT !.deleting = page.deleting, !.dragging = page.dragging, !.target = t]
    BY <1>1 DEF Categories!Pages
  <2>4. Categories!Become([page EXCEPT !.deleting = page.deleting, !.dragging = page.dragging, !.target = t])
    BY <2>2, <2>3
  <2>5. page.deletingBusy => page.deleting # None
    BY <1>1 DEF CategoriesBusy
  <2> QED BY <1>9, <1>10, <2>4, <2>5
<1>15. CASE Categories!Drop
  <2>1. PICK e : e = Categories!EndDrag(page)
    OBVIOUS
  <2>2. e = [page EXCEPT !.dragging = None, !.target = None]
    BY <2>1 DEF Categories!EndDrag
  <2>3. CASE page.target = None \/ ~ Categories!CanMove(page, page.dragging, page.target)
    <3>1. Categories!Become(e)
      BY <1>15, <2>1, <2>3 DEF Categories!Drop
    <3>2. e = [page EXCEPT !.deleting = page.deleting, !.dragging = None, !.target = None]
      BY <1>1, <2>2 DEF Categories!Pages
    <3>3. Categories!Become([page EXCEPT !.deleting = page.deleting, !.dragging = None, !.target = None])
      BY <3>1, <3>2
    <3>4. page.deletingBusy => page.deleting # None
      BY <1>1 DEF CategoriesBusy
    <3> QED BY <1>9, <1>10, <3>3, <3>4
  <2>4. CASE ~ (page.target = None \/ ~ Categories!CanMove(page, page.dragging, page.target))
    <3>1. PICK g : g = page.dragging
      OBVIOUS
    <3>2. g \in Categories!Categories
      BY <1>1, <2>4, <3>1, ParentsAreCategories DEF Categories!CanMove
    <3>3. g # None
      BY <3>2, NoneAssumption
    <3>4. PICK n : n = [e EXCEPT !.moving = g, !.mutation = "move"]
      OBVIOUS
    <3>5. Categories!Become(n) /\ Categories!Begun(page) < 2 /\ page.editor = "closed" /\ page.deleting = None
      BY <1>15, <2>1, <2>4, <3>1, <3>4 DEF Categories!Drop, Categories!Free
    <3>6. e \in Categories!Pages
      BY <1>1, <2>2, Zenon DEF Categories!Pages
    <3>7. n \in Categories!Pages
      BY <3>2, <3>4, <3>6, Zenon DEF Categories!Pages
    <3>8. CategoriesSame(n, page)
      BY <1>1, <2>2, <3>4 DEF Categories!Pages, CategoriesSame
    <3>9. /\ n.view = page.view /\ n.moving = g /\ n.mutation = "move" /\ n.editor = "closed"
          /\ n.deleting = page.deleting /\ n.deletingBusy = page.deletingBusy /\ n.changes = page.changes
      BY <1>1, <2>2, <3>4, <3>5 DEF Categories!Pages
    <3>10. page.changes + 1 <= 2 /\ page.changes \in Nat
      BY <1>2, <3>5 DEF Categories!Begun
    <3>11. ~ page.deletingBusy
      BY <1>1, <3>5 DEF CategoriesBusy
    <3>12. CategoriesBusy(n)
      BY <3>3, <3>9, <3>10, <3>11 DEF CategoriesBusy, Categories!Begun
    <3> QED BY <1>0, <3>5, <3>7, <3>8, <3>9, <3>12, CategoriesAside
  <2> QED BY <2>3, <2>4
<1>16. ASSUME NEW made \in BOOLEAN, Categories!Remove(made)
       PROVE  CategoriesInv' /\ page' # None /\ ledger' = ledger
  <2>1. PICK u \in BOOLEAN : u <=> (page.unsure \/ page.mutation = "move")
    OBVIOUS
  <2>2. u = (page.unsure \/ page.mutation = "move")
    BY <2>1
  <2>3. PICK ch : ch = IF made THEN page.changes + 1 ELSE page.changes
    OBVIOUS
  <2>4. PICK p : p = [page EXCEPT !.mutation = "none", !.moving = None, !.unsure = u, !.changes = ch]
    OBVIOUS
  <2>5. p = [page EXCEPT !.mutation = "none", !.moving = None, !.unsure = @ \/ page.mutation = "move",
                         !.changes = IF made THEN @ + 1 ELSE @]
    BY <1>1, <2>2, <2>3, <2>4 DEF Categories!Pages
  <2>6. PICK n : n = [p EXCEPT !.deletingBusy = TRUE, !.mutation = "delete"]
    OBVIOUS
  <2>7. /\ page.deleting # None /\ ~ page.deletingBusy /\ (made => page.mutation = "move")
        /\ Categories!Begun(p) < 2 /\ Categories!Become(n)
    BY <1>16, <2>5, <2>6 DEF Categories!Remove
  <2>8. ch \in 0..2
    BY <1>2, <2>3, <2>7
  <2>9. p \in Categories!Pages
    BY <1>1, <2>4, <2>8, Zenon DEF Categories!Pages
  <2>10. n \in Categories!Pages
    BY <2>6, <2>9, Zenon DEF Categories!Pages
  <2>11. /\ n.view = page.view /\ n.tree = page.tree /\ n.request = page.request /\ n.loading = page.loading
         /\ n.error = page.error /\ n.changes = ch /\ n.unsure = u
    BY <1>1, <2>4, <2>6 DEF Categories!Pages
  <2>12. /\ n.moving = None /\ n.mutation = "delete" /\ n.editor = page.editor
         /\ n.deleting = page.deleting /\ n.deletingBusy
    BY <1>1, <2>4, <2>6 DEF Categories!Pages
  <2>13. p.changes = ch /\ p.mutation = "none" /\ p.editor = page.editor
    BY <1>1, <2>4 DEF Categories!Pages
  <2>14. ch + 1 + (IF page.editor = "saving" THEN 1 ELSE 0) <= 2
    BY <2>7, <2>8, <2>13 DEF Categories!Begun
  <2>15. CategoriesBusy(n)
    BY <2>7, <2>11, <2>12, <2>14 DEF CategoriesBusy, Categories!Begun
  <2>16. ~ u => ~ page.unsure /\ ch = page.changes
    BY <2>1, <2>3, <2>7
  <2>17. CategoriesTrees(n, ledger)
    BY <1>1, <2>11, <2>16 DEF CategoriesTrees
  <2>18. CategoriesGood(n, ledger) /\ CategoriesSaved(n, saved[ledger])
    BY <1>1, <2>10, <2>11, <2>15, <2>17 DEF CategoriesGood, CategoriesSaved
  <2> QED BY <1>0, <2>7, <2>18, CategoriesBecome
<1>17. ASSUME NEW tree, Categories!TreeAnswer(tree)
       PROVE  CategoriesInv' /\ page' # None /\ ledger' = ledger
  <2>1. page.request # None /\ tree \in Forests[page.request.ledger]
    BY <1>17 DEF Categories!TreeAnswer
  <2>2. /\ page.request.ledger = ledger /\ page.request.fresh \in 0..2
        /\ (~ page.unsure => page.request.fresh = page.changes)
    BY <1>1, <2>1 DEF CategoriesTrees, Categories!Pages, Categories!Requests
  <2>3. PICK r : r = [ledger |-> ledger, of |-> tree, fresh |-> page.request.fresh]
    OBVIOUS
  <2>4. r \in [ledger : {ledger}, of : Forests[ledger], fresh : 0..2]
    BY <2>1, <2>2, <2>3
  <2>5. r \in Categories!Loaded
    BY <1>1, <2>4 DEF Categories!Loaded
  <2>6. r # None /\ r.ledger = ledger /\ r.fresh = page.request.fresh
    BY <2>3, <2>5, NoneAssumption
  <2>7. PICK n : n = [page EXCEPT !.tree = r, !.request = None, !.loading = FALSE]
    OBVIOUS
  <2>8. Categories!Become(n)
    BY <1>17, <2>2, <2>3, <2>7 DEF Categories!TreeAnswer
  <2>9. n \in Categories!Pages
    BY <1>1, <2>5, <2>7, Zenon DEF Categories!Pages
  <2>10. /\ n.view = page.view /\ n.tree = r /\ n.request = None /\ ~ n.loading
         /\ n.error = page.error /\ n.changes = page.changes /\ n.unsure = page.unsure
    BY <1>1, <2>7 DEF Categories!Pages
  <2>11. /\ n.moving = page.moving /\ n.mutation = page.mutation /\ n.editor = page.editor
         /\ n.deleting = page.deleting /\ n.deletingBusy = page.deletingBusy
    BY <1>1, <2>7 DEF Categories!Pages
  <2>12. CategoriesBusy(n)
    BY <1>1, <2>10, <2>11 DEF CategoriesBusy, Categories!Begun
  <2>13. CategoriesTrees(n, ledger)
    BY <2>2, <2>6, <2>10 DEF CategoriesTrees
  <2>14. CategoriesGood(n, ledger) /\ CategoriesSaved(n, saved[ledger])
    BY <1>1, <2>9, <2>10, <2>12, <2>13 DEF CategoriesGood, CategoriesSaved
  <2> QED BY <1>0, <2>8, <2>14, CategoriesBecome
<1>18. CASE Categories!TreeFail
  <2>1. PICK n : n = [page EXCEPT !.request = None, !.loading = FALSE, !.error = TRUE]
    OBVIOUS
  <2>2. Categories!Become(n)
    BY <1>18, <2>1 DEF Categories!TreeFail
  <2>3. n \in Categories!Pages
    BY <1>1, <2>1, Zenon DEF Categories!Pages
  <2>4. /\ n.view = page.view /\ n.tree = page.tree /\ n.request = None /\ ~ n.loading
        /\ n.error /\ n.changes = page.changes /\ n.unsure = page.unsure
    BY <1>1, <2>1 DEF Categories!Pages
  <2>5. /\ n.moving = page.moving /\ n.mutation = page.mutation /\ n.editor = page.editor
        /\ n.deleting = page.deleting /\ n.deletingBusy = page.deletingBusy
    BY <1>1, <2>1 DEF Categories!Pages
  <2>6. CategoriesBusy(n)
    BY <1>1, <2>4, <2>5 DEF CategoriesBusy, Categories!Begun
  <2>7. CategoriesTrees(n, ledger)
    BY <1>1, <2>4 DEF CategoriesTrees
  <2>8. CategoriesGood(n, ledger) /\ CategoriesSaved(n, saved[ledger])
    BY <1>1, <2>3, <2>4, <2>6, <2>7 DEF CategoriesGood, CategoriesSaved
  <2> QED BY <1>0, <2>2, <2>8, CategoriesBecome
\* A move that has its answer.
<1>19. ASSUME NEW n, n = [page EXCEPT !.mutation = "none", !.moving = None], page.mutation = "move"
       PROVE  /\ n \in Categories!Pages /\ CategoriesSame(n, page) /\ n.view = page.view
              /\ CategoriesBusy(n) /\ Categories!Begun(n) < 2
  <2>1. n \in Categories!Pages
    BY <1>1, <1>19, Zenon DEF Categories!Pages
  <2>2. CategoriesSame(n, page)
    BY <1>1, <1>19 DEF Categories!Pages, CategoriesSame
  <2>3. /\ n.view = page.view /\ n.moving = None /\ n.mutation = "none" /\ n.editor = page.editor
        /\ n.deleting = page.deleting /\ n.deletingBusy = page.deletingBusy /\ n.changes = page.changes
    BY <1>1, <1>19 DEF Categories!Pages
  <2>4. page.changes + (IF page.editor = "saving" THEN 1 ELSE 0) < 2
    BY <1>2, <1>19
  <2>5. Categories!Begun(n) < 2 /\ Categories!Begun(n) <= 2
    BY <1>2, <2>3, <2>4 DEF Categories!Begun
  <2>6. CategoriesBusy(n)
    BY <1>1, <1>19, <2>3, <2>5 DEF CategoriesBusy
  <2> QED BY <2>1, <2>2, <2>3, <2>5, <2>6
\* The editor that has its answer.
<1>20. ASSUME NEW n, n = [page EXCEPT !.editor = "closed"], page.editor = "saving"
       PROVE  /\ n \in Categories!Pages /\ CategoriesSame(n, page) /\ n.view = page.view
              /\ CategoriesBusy(n) /\ Categories!Begun(n) < 2
  <2>1. n \in Categories!Pages
    BY <1>1, <1>20, Zenon DEF Categories!Pages
  <2>2. CategoriesSame(n, page)
    BY <1>1, <1>20 DEF Categories!Pages, CategoriesSame
  <2>3. /\ n.view = page.view /\ n.moving = page.moving /\ n.mutation = page.mutation /\ n.editor = "closed"
        /\ n.deleting = page.deleting /\ n.deletingBusy = page.deletingBusy /\ n.changes = page.changes
    BY <1>1, <1>20 DEF Categories!Pages
  <2>4. page.changes + (IF page.mutation = "none" THEN 0 ELSE 1) < 2
    BY <1>2, <1>20
  <2>5. Categories!Begun(n) < 2 /\ Categories!Begun(n) <= 2
    BY <1>2, <2>3, <2>4 DEF Categories!Begun
  <2>6. CategoriesBusy(n)
    BY <1>1, <2>3, <2>5 DEF CategoriesBusy
  <2> QED BY <2>1, <2>2, <2>3, <2>5, <2>6
<1>21. ASSUME NEW n, CategoriesSame(n, page) PROVE n.tree # None => n.tree.ledger = ledger
  BY <1>1, <1>21 DEF CategoriesSame, CategoriesTrees
<1>22. ASSUME NEW parent, Categories!MoveAnswer(parent)
       PROVE  CategoriesInv' /\ page' # None /\ ledger' = ledger
  <2>1. PICK n : n = [page EXCEPT !.mutation = "none", !.moving = None]
    OBVIOUS
  <2>2. page.mutation = "move" /\ Categories!RevealAndLoad(n, parent)
    BY <1>22, <2>1 DEF Categories!MoveAnswer
  <2>3. /\ n \in Categories!Pages /\ n.view = page.view /\ CategoriesBusy(n) /\ Categories!Begun(n) < 2
        /\ (n.tree # None => n.tree.ledger = ledger)
    BY <1>19, <1>21, <2>1, <2>2
  <2> QED BY <1>0, <2>2, <2>3, CategoriesReveal
<1>23. ASSUME NEW parent, Categories!SaveAnswer(parent)
       PROVE  CategoriesInv' /\ page' # None /\ ledger' = ledger
  <2>1. PICK n : n = [page EXCEPT !.editor = "closed"]
    OBVIOUS
  <2>2. page.editor = "saving" /\ Categories!RevealAndLoad(n, parent)
    BY <1>23, <2>1 DEF Categories!SaveAnswer
  <2>3. /\ n \in Categories!Pages /\ n.view = page.view /\ CategoriesBusy(n) /\ Categories!Begun(n) < 2
        /\ (n.tree # None => n.tree.ledger = ledger)
    BY <1>20, <1>21, <2>1, <2>2
  <2> QED BY <1>0, <2>2, <2>3, CategoriesReveal
<1>24. CASE Categories!SaveFail
  <2>1. PICK n : n = [page EXCEPT !.editor = "closed"]
    OBVIOUS
  <2>2. page.editor = "saving" /\ Categories!Become(n)
    BY <1>24, <2>1 DEF Categories!SaveFail
  <2>3. n \in Categories!Pages /\ CategoriesSame(n, page) /\ n.view = page.view /\ CategoriesBusy(n)
    BY <1>20, <2>1, <2>2
  <2> QED BY <1>0, <2>2, <2>3, CategoriesAside
<1>25. CASE Categories!MoveFail
  <2>1. PICK n : n = [page EXCEPT !.mutation = "none", !.moving = None]
    OBVIOUS
  <2>2. page.mutation = "move" /\ Categories!Become(n)
    BY <1>25, <2>1 DEF Categories!MoveFail
  <2>3. n \in Categories!Pages /\ CategoriesSame(n, page) /\ n.view = page.view /\ CategoriesBusy(n)
    BY <1>19, <2>1, <2>2
  <2> QED BY <1>0, <2>2, <2>3, CategoriesAside
<1>26. ASSUME NEW ok \in BOOLEAN, Categories!DeleteAnswer(ok)
       PROVE  CategoriesInv' /\ page' # None /\ ledger' = ledger
  <2>1. PICK over : over = [page EXCEPT !.mutation = "none", !.deletingBusy = FALSE]
    OBVIOUS
  <2>2. PICK gone : gone = [over EXCEPT !.deleting = None, !.changes = @ + 1]
    OBVIOUS
  <2>3. /\ page.mutation = "delete"
        /\ Categories!Become(IF ok THEN Categories!Load(gone, ledger) ELSE over)
    BY <1>26, <2>1, <2>2 DEF Categories!DeleteAnswer
  <2>4. page.moving = None
    BY <1>1, <2>3 DEF CategoriesBusy
  <2>5. page.changes + (IF page.editor = "saving" THEN 1 ELSE 0) < 2 /\ page.changes < 2
    BY <1>2, <2>3
  <2>6. over \in Categories!Pages
    BY <1>1, <2>1, Zenon DEF Categories!Pages
  <2>7. CategoriesSame(over, page)
    BY <1>1, <2>1 DEF Categories!Pages, CategoriesSame
  <2>8. /\ over.view = page.view /\ over.moving = page.moving /\ over.mutation = "none"
        /\ over.editor = page.editor /\ ~ over.deletingBusy /\ over.changes = page.changes
    BY <1>1, <2>1 DEF Categories!Pages
  <2>9. CASE ~ ok
    <3>1. CategoriesBusy(over)
      BY <1>2, <2>4, <2>5, <2>8 DEF CategoriesBusy, Categories!Begun
    <3>2. Categories!Become(over)
      BY <2>3, <2>9
    <3> QED BY <1>0, <2>6, <2>7, <2>8, <3>1, <3>2, CategoriesAside
  <2>10. CASE ok
    <3>1. PICK ch \in 0..2 : ch = page.changes + 1
      BY <1>2, <2>5
    <3>2. gone = [over EXCEPT !.deleting = None, !.changes = ch]
      BY <2>2, <2>6, <2>8, <3>1 DEF Categories!Pages
    <3>3. gone \in Categories!Pages
      BY <2>6, <3>1, <3>2, Zenon DEF Categories!Pages
    <3>4. /\ gone.view = over.view /\ gone.tree = over.tree /\ gone.moving = over.moving
          /\ gone.mutation = over.mutation /\ gone.editor = over.editor
          /\ gone.deletingBusy = over.deletingBusy /\ gone.changes = ch
      BY <2>6, <3>2 DEF Categories!Pages
    <3>5. CategoriesBusy(gone)
      BY <1>2, <2>4, <2>5, <2>8, <3>1, <3>4 DEF CategoriesBusy, Categories!Begun
    <3>6. gone.tree # None => gone.tree.ledger = ledger
      BY <1>21, <2>7, <3>4
    <3>7. PICK n : n = Categories!Load(gone, ledger)
      OBVIOUS
    <3>8. CategoriesGood(n, ledger) /\ n.view = page.view
      BY <1>1, <2>8, <3>3, <3>4, <3>5, <3>6, <3>7, CategoriesLoad
    <3>9. Categories!Become(n) /\ CategoriesSaved(n, saved[ledger])
      BY <1>1, <2>3, <2>10, <3>7, <3>8 DEF CategoriesSaved
    <3> QED BY <1>0, <3>8, <3>9, CategoriesBecome
  <2> QED BY <2>9, <2>10
<1> QED
  BY <1>4, <1>5, <1>6, <1>7, <1>8, <1>11, <1>12, <1>13, <1>14, <1>15, <1>16, <1>17, <1>18,
     <1>22, <1>23, <1>24, <1>25, <1>26 DEF Categories!Next

\* Only a drop makes a category move: KeepsTheTree asks of it what CanMove does.
LEMMA CategoriesKeepTheTree ==
  ASSUME CategoriesInv, Categories!Next
  PROVE  Categories!KeepsTheTree
<1> SUFFICES ASSUME page # None, page.moving = None, page'.moving # None
             PROVE  /\ page'.moving \in DOMAIN Categories!Parents(page)
                    /\ page.target # Top => page'.moving \notin Categories!Path(page, page.target)
  BY DEF Categories!KeepsTheTree, Categories!Open
<1>1. page \in Categories!Pages
  BY DEF CategoriesInv, CategoriesGood
<1>2. ASSUME NEW p \in Categories!Pages, NEW l PROVE Categories!Load(p, l).moving = p.moving
  BY <1>2 DEF Categories!Load, Categories!Pages
<1>3. ASSUME NEW p \in Categories!Pages, p.moving = None, p.changes < 2, NEW parent,
             Categories!RevealAndLoad(p, parent)
      PROVE  FALSE
  <2>1. PICK C : C = IF parent = Top THEN p.view.collapsed ELSE p.view.collapsed \ Categories!Path(p, parent)
    OBVIOUS
  <2>2. PICK v : v = [p.view EXCEPT !.rootCollapsed = FALSE, !.collapsed = C]
    OBVIOUS
  <2>3. p.view \in Categories!Views /\ p.changes + 1 \in 0..2
    BY <1>3 DEF Categories!Pages
  <2>4. v \in Categories!Views
    BY <2>1, <2>2, <2>3 DEF Categories!Views
  <2>5. PICK ch \in 0..2 : ch = p.changes + 1
    BY <2>3
  <2>6. PICK m : m = [p EXCEPT !.view = v, !.changes = ch]
    OBVIOUS
  <2>7. [[p EXCEPT !.view.rootCollapsed = FALSE,
                   !.view.collapsed = IF parent = Top THEN @ ELSE @ \ Categories!Path(p, parent)]
           EXCEPT !.changes = @ + 1] = m
    BY <2>1, <2>2, <2>3, <2>5, <2>6 DEF Categories!Pages, Categories!Views
  <2>8. m \in Categories!Pages
    BY <1>3, <2>4, <2>5, <2>6, Zenon DEF Categories!Pages
  <2>9. m.moving = None
    BY <1>3, <2>6 DEF Categories!Pages
  <2>10. page' = Categories!Load(m, ledger)
    BY <1>3, <2>7 DEF Categories!RevealAndLoad, Categories!Become, Categories!Save
  <2> QED BY <1>2, <2>8, <2>9, <2>10
<1>4. page.changes + (IF page.mutation = "none" THEN 0 ELSE 1) + (IF page.editor = "saving" THEN 1 ELSE 0) <= 2
      /\ page.changes \in 0..2 /\ page.mutation # "move"
  BY <1>1 DEF CategoriesInv, CategoriesGood, CategoriesBusy, Categories!Begun, Categories!Pages
<1>5. ASSUME NEW t, Categories!Filter(t) PROVE FALSE
  BY <1>1, <1>5 DEF Categories!Filter, Categories!Save, Categories!Pages
<1>6. ASSUME NEW c, Categories!ToggleCategory(c) PROVE FALSE
  <2>1. PICK v : v = [page.view EXCEPT !.collapsed = IF c \in @ THEN @ \ {c} ELSE @ \cup {c}]
    OBVIOUS
  <2>2. page' = [page EXCEPT !.view = v]
    BY <1>6, <2>1 DEF Categories!ToggleCategory, Categories!Save
  <2> QED BY <1>1, <2>2 DEF Categories!Pages
<1>7. CASE Categories!ToggleRoot
  <2>1. PICK v : v = [page.view EXCEPT !.rootCollapsed = ~ @]
    OBVIOUS
  <2>2. page' = [page EXCEPT !.view = v]
    BY <1>7, <2>1 DEF Categories!ToggleRoot, Categories!Save
  <2> QED BY <1>1, <2>2 DEF Categories!Pages
<1>8. ASSUME NEW c, Categories!RequestDelete(c) \/ Categories!StartPointerDrag(c) \/ Categories!PointerDrag(c)
      PROVE  FALSE
  BY <1>1, <1>8 DEF Categories!RequestDelete, Categories!StartPointerDrag, Categories!PointerDrag,
                    Categories!Become, Categories!Pages
<1>9. CASE Categories!Retry
  BY <1>1, <1>2, <1>9 DEF Categories!Retry, Categories!Become
<1>10. CASE Categories!SaveCategory \/ Categories!CloseDelete
  BY <1>1, <1>10 DEF Categories!SaveCategory, Categories!CloseDelete, Categories!Become, Categories!Pages
<1>11. CASE Categories!TreeFail \/ Categories!SaveFail \/ Categories!MoveFail
  BY <1>1, <1>11 DEF Categories!TreeFail, Categories!SaveFail, Categories!MoveFail, Categories!Become,
                     Categories!Pages
<1>12. ASSUME NEW t, Categories!TreeAnswer(t) PROVE FALSE
  BY <1>1, <1>12 DEF Categories!TreeAnswer, Categories!Become, Categories!Pages
<1>13. ASSUME NEW c, Categories!MoveAnswer(c) PROVE FALSE
  BY <1>4, <1>13 DEF Categories!MoveAnswer
<1>14. ASSUME NEW c, Categories!SaveAnswer(c) PROVE FALSE
  <2>1. PICK n : n = [page EXCEPT !.editor = "closed"]
    OBVIOUS
  <2>2. n \in Categories!Pages
    BY <1>1, <2>1 DEF Categories!Pages
  <2>3. n.moving = None /\ n.changes = page.changes
    BY <1>1, <2>1 DEF Categories!Pages
  <2>4. page.changes < 2 /\ Categories!RevealAndLoad(n, c)
    BY <1>4, <1>14, <2>1 DEF Categories!SaveAnswer
  <2> QED BY <1>3, <2>2, <2>3, <2>4
<1>15. ASSUME NEW made, Categories!Remove(made) PROVE FALSE
  <2>1. PICK u, ch : u = (page.unsure \/ page.mutation = "move") /\ ch = IF made THEN page.changes + 1 ELSE page.changes
    OBVIOUS
  <2>2. PICK p : p = [page EXCEPT !.mutation = "none", !.moving = None, !.unsure = u, !.changes = ch]
    OBVIOUS
  <2>3. p = [page EXCEPT !.mutation = "none", !.moving = None, !.unsure = @ \/ page.mutation = "move",
                         !.changes = IF made THEN @ + 1 ELSE @]
    BY <1>1, <2>1, <2>2 DEF Categories!Pages
  <2>4. page' = [p EXCEPT !.deletingBusy = TRUE, !.mutation = "delete"]
    BY <1>15, <2>3 DEF Categories!Remove, Categories!Become
  <2> QED BY <1>1, <2>2, <2>4 DEF Categories!Pages
<1>16. ASSUME NEW ok \in BOOLEAN, Categories!DeleteAnswer(ok) PROVE FALSE
  <2>1. PICK over : over = [page EXCEPT !.mutation = "none", !.deletingBusy = FALSE]
    OBVIOUS
  <2>2. PICK gone : gone = [over EXCEPT !.deleting = None, !.changes = @ + 1]
    OBVIOUS
  <2>3. page' = IF ok THEN Categories!Load(gone, ledger) ELSE over
    BY <1>16, <2>1, <2>2 DEF Categories!DeleteAnswer, Categories!Become
  <2>4. over.moving = None /\ gone.moving = None
    BY <1>1, <2>1, <2>2 DEF Categories!Pages
  <2>5. Categories!Load(gone, ledger).moving = None
    BY <1>1, <2>1, <2>2, <2>4 DEF Categories!Load, Categories!Pages
  <2> QED BY <2>3, <2>4, <2>5
<1>17. CASE Categories!Drop
  <2>1. CASE page.target = None \/ ~ Categories!CanMove(page, page.dragging, page.target)
    <3>1. page' = Categories!EndDrag(page)
      BY <1>17, <2>1 DEF Categories!Drop, Categories!Become
    <3> QED BY <1>1, <3>1 DEF Categories!EndDrag, Categories!Pages
  <2>2. CASE ~ (page.target = None \/ ~ Categories!CanMove(page, page.dragging, page.target))
    <3>1. page' = [Categories!EndDrag(page) EXCEPT !.moving = page.dragging, !.mutation = "move"]
      BY <1>17, <2>2 DEF Categories!Drop, Categories!Become
    <3>2. page'.moving = page.dragging
      BY <1>1, <3>1 DEF Categories!EndDrag, Categories!Pages
    <3> QED BY <2>2, <3>2 DEF Categories!CanMove
  <2> QED BY <2>1, <2>2
<1> QED
  BY <1>5, <1>6, <1>7, <1>8, <1>9, <1>10, <1>11, <1>12, <1>13, <1>14, <1>15, <1>16, <1>17 DEF Categories!Next
--------------------------------------------------------------------------------
(* The router and the layout *)

SectionInv ==
  /\ section = "flows" => FlowsInv
  /\ section = "home" => HomeInv
  /\ section = "activity" => ActivityInv
  /\ section = "budgets" => BudgetsInv
  /\ section = "categories" => CategoriesInv
  /\ section = "entities" => EntityInv

\* There is a ledger wherever a page of one may open.
LayoutInv ==
  /\ section \in Sections
  /\ route \in {"home", "section", "elsewhere"}
  /\ ledger \in Ledgers \cup {None}
  /\ known \subseteq Ledgers
  /\ access \in {"idle", "asked", "failed"}
  /\ route # "home" \/ access = "asked" => ledger \in Ledgers

WorkspaceInv == LayoutInv /\ SectionInv

LEMMA SectionsKnown ==
  ASSUME section \in Sections
  PROVE  \/ section = "flows" \/ section = "home" \/ section = "activity"
         \/ section = "budgets" \/ section = "categories" \/ section = "entities"
BY WorkspaceAssumption

\* No page keeps what is saved.
LEMMA Closed ==
  ASSUME SectionInv, page' = None, UNCHANGED <<section, saved>>
  PROVE  SectionInv'
BY DEF SectionInv, FlowsInv, HomeInv, ActivityInv, BudgetsInv, CategoriesInv, EntityInv

\* A page that opens in ledger l satisfies the invariant of its section.
LEMMA PageOpened ==
  ASSUME section \in Sections, SectionInv, NEW l \in Ledgers, ledger' = l, page' = Opened(l),
         UNCHANGED <<section, saved>>
  PROVE  SectionInv'
<1>1. CASE section = "flows"
  <2>1. page' = Flows!Opened(l) /\ FlowsInv
    BY <1>1 DEF Opened, SectionInv
  <2>2. FlowsGood(page', l) /\ (saved[l] # None => saved[l] = Flows!ViewState(page'))
    BY <2>1, FlowsOpened
  <2>3. FlowsInv'
    BY <2>1, <2>2 DEF FlowsInv
  <2> QED BY <1>1, <2>3 DEF SectionInv
<1>2. CASE section = "home"
  <2>1. page' = Home!Opened(l) /\ HomeInv
    BY <1>2 DEF Opened, SectionInv
  <2>2. HomeGood(page', l) /\ (saved[l] # None => saved[l] = Home!ViewState(page'))
    BY <2>1, HomeOpened
  <2>3. HomeInv'
    BY <2>1, <2>2 DEF HomeInv
  <2> QED BY <1>2, <2>3 DEF SectionInv
<1>3. CASE section = "activity"
  <2>1. page' = Activity!Opened(l) /\ ActivityInv
    BY <1>3 DEF Opened, SectionInv
  <2>2. ActivityGood(page', l) /\ (saved[l] # None => saved[l] = page'.filter)
    BY <2>1, ActivityOpened
  <2>3. ActivityInv'
    BY <2>1, <2>2 DEF ActivityInv
  <2> QED BY <1>3, <2>3 DEF SectionInv
<1>4. CASE section = "budgets"
  <2>1. page' = Budgets!Opened(l) /\ BudgetsInv
    BY <1>4 DEF Opened, SectionInv
  <2>2. BudgetsGood(page', l) /\ BudgetsSaved(page', saved[l])
    BY <2>1, BudgetsOpened
  <2>3. BudgetsInv'
    BY <2>1, <2>2 DEF BudgetsInv
  <2> QED BY <1>4, <2>3 DEF SectionInv
<1>5. CASE section = "categories"
  <2>1. page' = Categories!Opened(l) /\ CategoriesInv
    BY <1>5 DEF Opened, SectionInv
  <2>2. CategoriesGood(page', l) /\ CategoriesSaved(page', saved[l])
    BY <2>1, CategoriesOpened
  <2>3. CategoriesInv'
    BY <2>1, <2>2 DEF CategoriesInv
  <2> QED BY <1>5, <2>3 DEF SectionInv
<1>6. CASE section = "entities"
  <2>1. page' = Entities!Opened(l) /\ EntityInv
    BY <1>6 DEF Opened, SectionInv
  <2>2. EntityGood(page', l) /\ (saved[l] # None => saved[l] = page'.search)
    BY <2>1, EntityOpened
  <2>3. EntityInv'
    BY <2>1, <2>2 DEF EntityInv
  <2> QED BY <1>6, <2>3 DEF SectionInv
<1> QED BY <1>1, <1>2, <1>3, <1>4, <1>5, <1>6, SectionsKnown

\* The page at hand, when the router gives it ledger l.
LEMMA PageSwitched ==
  ASSUME section \in Sections, SectionInv, page # None, NEW l \in Ledgers, ledger' = l, page' = Switched(l),
         UNCHANGED <<section, saved>>
  PROVE  SectionInv'
<1>1. CASE section = "activity"
  <2>1. page' = Activity!Switched(l) /\ ActivityInv
    BY <1>1 DEF Switched, SectionInv
  <2>2. ActivityGood(page', l) /\ (saved[l] # None => saved[l] = page'.filter)
    BY <2>1, ActivitySwitched
  <2>3. ActivityInv'
    BY <2>1, <2>2 DEF ActivityInv
  <2> QED BY <1>1, <2>3 DEF SectionInv
<1>2. CASE section = "budgets"
  <2>1. page' = Budgets!Switched(l) /\ BudgetsInv
    BY <1>2 DEF Switched, SectionInv
  <2>2. BudgetsGood(page', l) /\ BudgetsSaved(page', saved[l])
    BY <2>1, BudgetsSwitched
  <2>3. BudgetsInv'
    BY <2>1, <2>2 DEF BudgetsInv
  <2> QED BY <1>2, <2>3 DEF SectionInv
<1>3. CASE section = "entities"
  <2>1. page' = Entities!Switched(l) /\ EntityInv
    BY <1>3 DEF Switched, SectionInv
  <2>2. EntityGood(page', l) /\ (saved[l] # None => saved[l] = page'.search)
    BY <2>1, EntitySwitched
  <2>3. EntityInv'
    BY <2>1, <2>2 DEF EntityInv
  <2> QED BY <1>3, <2>3 DEF SectionInv
<1>4. CASE section \notin {"activity", "budgets", "entities"}
  <2>1. page' = Opened(l)
    BY <1>4 DEF Switched
  <2> QED BY <2>1, PageOpened
<1> QED BY <1>1, <1>2, <1>3, <1>4

LEMMA WorkspaceInit == Init => WorkspaceInv
<1> SUFFICES ASSUME Init PROVE WorkspaceInv
  OBVIOUS
<1>1. LayoutInv
  BY DEF Init, LayoutInv
<1>2. page = None /\ saved = [l \in Ledgers |-> None]
  BY SectionsKnown DEF Init, Flows!Init, Home!Init, Activity!Init, Budgets!Init, Categories!Init, Entities!Init
<1>3. SectionInv
  BY <1>2 DEF SectionInv, FlowsInv, HomeInv, ActivityInv, BudgetsInv, CategoriesInv, EntityInv
<1> QED BY <1>1, <1>3 DEF WorkspaceInv

\* A step of the page at hand.
LEMMA SectionStep ==
  ASSUME WorkspaceInv, UNCHANGED <<section, route, known, access>>,
         \/ section = "flows" /\ Flows!Next
         \/ section = "home" /\ Home!Next
         \/ section = "activity" /\ Activity!Next
         \/ section = "budgets" /\ Budgets!Next
         \/ section = "categories" /\ Categories!Next
         \/ section = "entities" /\ Entities!Next
  PROVE  WorkspaceInv'
<1>1. CASE section = "flows" /\ Flows!Next
  <2>1. FlowsInv' /\ ledger' = ledger
    BY <1>1, FlowsStep DEF WorkspaceInv, SectionInv
  <2> QED BY <1>1, <2>1 DEF WorkspaceInv, LayoutInv, SectionInv
<1>2. CASE section = "home" /\ Home!Next
  <2>1. HomeInv' /\ ledger' = ledger
    BY <1>2, HomeStep DEF WorkspaceInv, SectionInv
  <2> QED BY <1>2, <2>1 DEF WorkspaceInv, LayoutInv, SectionInv
<1>3. CASE section = "activity" /\ Activity!Next
  <2>1. ActivityInv' /\ ledger' = ledger
    BY <1>3, ActivityStep DEF WorkspaceInv, SectionInv
  <2> QED BY <1>3, <2>1 DEF WorkspaceInv, LayoutInv, SectionInv
<1>4. CASE section = "budgets" /\ Budgets!Next
  <2>1. BudgetsInv' /\ ledger' = ledger
    BY <1>4, BudgetsStep DEF WorkspaceInv, SectionInv
  <2> QED BY <1>4, <2>1 DEF WorkspaceInv, LayoutInv, SectionInv
<1>5. CASE section = "categories" /\ Categories!Next
  <2>1. CategoriesInv' /\ ledger' = ledger
    BY <1>5, CategoriesStep DEF WorkspaceInv, SectionInv
  <2> QED BY <1>5, <2>1 DEF WorkspaceInv, LayoutInv, SectionInv
<1>6. CASE section = "entities" /\ Entities!Next
  <2>1. EntityInv' /\ ledger' = ledger
    BY <1>6, EntityStep DEF WorkspaceInv, SectionInv
  <2> QED BY <1>6, <2>1 DEF WorkspaceInv, LayoutInv, SectionInv
<1> QED BY <1>1, <1>2, <1>3, <1>4, <1>5, <1>6

LEMMA WorkspaceStep == WorkspaceInv /\ [Next]_vars => WorkspaceInv'
<1> SUFFICES ASSUME WorkspaceInv, [Next]_vars PROVE WorkspaceInv'
  OBVIOUS
<1>1. section \in Sections /\ SectionInv /\ LayoutInv
  BY DEF WorkspaceInv, LayoutInv
<1>2. ASSUME NEW to \in {"section", "elsewhere"}, Turn(to) PROVE WorkspaceInv'
  <2>1. LayoutInv' /\ ledger \in Ledgers
    BY <1>1, <1>2 DEF Turn, LayoutInv
  <2>2. UNCHANGED <<section, ledger, saved>> /\ (page' = Opened(ledger) \/ page' = None)
    BY <1>2 DEF Turn
  <2>3. SectionInv'
    BY <1>1, <2>1, <2>2, PageOpened, Closed
  <2> QED BY <2>1, <2>3 DEF WorkspaceInv
<1>3. ASSUME NEW to \in {"section", "elsewhere"}, NEW l \in Ledgers, Go(to, l) PROVE WorkspaceInv'
  <2>1. LayoutInv'
    BY <1>1, <1>3 DEF Go, Enter, LayoutInv
  <2>2. /\ UNCHANGED <<section, saved>> /\ ledger' = l
        /\ page' = None \/ (page = None /\ page' = Opened(l)) \/ (page # None /\ page' = Switched(l))
    BY <1>3 DEF Go, Enter
  <2>3. SectionInv'
    BY <1>1, <2>2, PageOpened, PageSwitched, Closed
  <2> QED BY <2>1, <2>3 DEF WorkspaceInv
<1>4. CASE LeaveLedger
  <2>1. LayoutInv'
    BY <1>1, <1>4 DEF LeaveLedger, LayoutInv
  <2>2. SectionInv'
    BY <1>1, <1>4, Closed DEF LeaveLedger
  <2> QED BY <2>1, <2>2 DEF WorkspaceInv
<1>5. CASE AccessAnswer
  <2>1. LayoutInv' /\ ledger \in Ledgers
    BY <1>1, <1>5 DEF AccessAnswer, LayoutInv
  <2>2. UNCHANGED <<section, ledger, saved>> /\ (page' = Opened(ledger) \/ page' = page)
    BY <1>5 DEF AccessAnswer
  <2>3. CASE page' = Opened(ledger)
    <3>1. SectionInv'
      BY <1>1, <2>1, <2>2, <2>3, PageOpened
    <3> QED BY <2>1, <3>1 DEF WorkspaceInv
  <2>4. CASE page' = page
    <3>1. SectionInv'
      BY <1>1, <2>2, <2>4 DEF SectionInv, FlowsInv, HomeInv, ActivityInv, BudgetsInv, CategoriesInv, EntityInv
    <3> QED BY <2>1, <3>1 DEF WorkspaceInv
  <2> QED BY <2>2, <2>3, <2>4
<1>6. CASE AccessFail
  <2>1. LayoutInv'
    BY <1>1, <1>6 DEF AccessFail, LayoutInv
  <2>2. SectionInv'
    BY <1>1, <1>6, Closed DEF AccessFail
  <2> QED BY <2>1, <2>2 DEF WorkspaceInv
<1>7. CASE UNCHANGED vars
  <2>1. LayoutInv'
    BY <1>1, <1>7 DEF vars, LayoutInv
  <2>2. SectionInv'
    BY <1>1, <1>7 DEF vars, SectionInv, FlowsInv, HomeInv, ActivityInv, BudgetsInv, CategoriesInv, EntityInv
  <2> QED BY <2>1, <2>2 DEF WorkspaceInv
<1> QED BY <1>2, <1>3, <1>4, <1>5, <1>6, <1>7, SectionStep DEF Next

LEMMA WorkspaceHolds == Spec => []WorkspaceInv
BY WorkspaceInit, WorkspaceStep, PTL DEF Spec

\* The context and the layout have their types, and so have the page of the
\* section at hand and the view states that are kept for the ledgers.
THEOREM TypeCorrect == Spec => []TypeOK
<1>1. WorkspaceInv => TypeOK
  <2> SUFFICES ASSUME WorkspaceInv PROVE TypeOK
    OBVIOUS
  <2>1. section = "flows" => Flows!TypeOK
    BY DEF WorkspaceInv, SectionInv, FlowsInv, FlowsGood, Flows!TypeOK
  <2>2. section = "home" => Home!TypeOK
    BY DEF WorkspaceInv, SectionInv, HomeInv, HomeGood, Home!TypeOK
  <2>3. section = "activity" => Activity!TypeOK
    BY DEF WorkspaceInv, SectionInv, ActivityInv, ActivityGood, Activity!TypeOK
  <2>4. section = "budgets" => Budgets!TypeOK
    BY DEF WorkspaceInv, SectionInv, BudgetsInv, BudgetsGood, Budgets!TypeOK
  <2>5. section = "categories" => Categories!TypeOK
    BY DEF WorkspaceInv, SectionInv, CategoriesInv, CategoriesGood, Categories!TypeOK
  <2>6. section = "entities" => Entities!TypeOK
    BY DEF WorkspaceInv, SectionInv, EntityInv, EntityGood, Entities!TypeOK
  <2> QED BY <2>1, <2>2, <2>3, <2>4, <2>5, <2>6 DEF WorkspaceInv, LayoutInv, TypeOK
<1> QED BY <1>1, WorkspaceHolds, PTL

\* What a section shows, once nothing is under way and no error is shown, is
\* what its filters, its selection and its ledger ask for.
THEOREM ScreenAnswersTheFilters == Spec => []ShowsWhatIsAsked
<1>1. WorkspaceInv => ShowsWhatIsAsked
  <2> SUFFICES ASSUME WorkspaceInv PROVE ShowsWhatIsAsked
    OBVIOUS
  <2>1. ASSUME section = "flows" PROVE Flows!ShowsWhatIsAsked
    BY <2>1 DEF WorkspaceInv, SectionInv, FlowsInv, FlowsGood, FlowsQuery, Flows!ShowsWhatIsAsked, Flows!Open,
                Flows!Query, Flows!Ranged
  <2>2. ASSUME section = "home" PROVE Home!ShowsWhatIsAsked
    BY <2>2 DEF WorkspaceInv, SectionInv, HomeInv, HomeGood, HomeReady, HomeFigures, HomeChart, HomeScope, HomeQuery,
                HomeRanged, Home!ShowsWhatIsAsked, Home!Open, Home!Scope, Home!Query, Home!Ranged
  <2>3. ASSUME section = "activity" PROVE Activity!ShowsWhatIsAsked
    BY <2>3 DEF WorkspaceInv, SectionInv, ActivityInv, ActivityGood, ActivityLoose, ActivityLists, ActivityFigures,
                Activity!ShowsWhatIsAsked, Activity!Settled, Activity!Open
  <2>4. ASSUME section = "budgets" PROVE Budgets!ShowsWhatIsAsked
    BY <2>4 DEF WorkspaceInv, SectionInv, BudgetsInv, BudgetsGood, BudgetsLists, BudgetsQuery, BudgetsSpinners,
                Budgets!ShowsWhatIsAsked, Budgets!Settled, Budgets!Open, Budgets!Query
  <2>5. ASSUME section = "categories" PROVE Categories!ShowsWhatIsAsked
    BY <2>5 DEF WorkspaceInv, SectionInv, CategoriesInv, CategoriesGood, CategoriesTrees,
                Categories!ShowsWhatIsAsked, Categories!Settled, Categories!Open
  <2>6. ASSUME section = "entities" PROVE Entities!ShowsWhatIsAsked
    BY <2>6 DEF WorkspaceInv, SectionInv, EntityInv, EntityGood, Entities!ShowsWhatIsAsked, Entities!Settled,
                Entities!Open
  <2> QED BY <2>1, <2>2, <2>3, <2>4, <2>5, <2>6 DEF ShowsWhatIsAsked
<1> QED BY <1>1, WorkspaceHolds, PTL

\* A section says that it loads, saves, moves or deletes exactly while an
\* exchange is under way that will end that.
THEOREM SpinnersArePending == Spec => []SpinnerIsPending
<1>1. WorkspaceInv => SpinnerIsPending
  <2> SUFFICES ASSUME WorkspaceInv PROVE SpinnerIsPending
    OBVIOUS
  <2>1. ASSUME section = "flows" PROVE Flows!SpinnerIsPending
    BY <2>1 DEF WorkspaceInv, SectionInv, FlowsInv, FlowsGood, Flows!SpinnerIsPending, Flows!Open
  <2>2. ASSUME section = "home" PROVE Home!SpinnerIsPending
    BY <2>2 DEF WorkspaceInv, SectionInv, HomeInv, HomeGood, HomeSpinners, Home!SpinnerIsPending, Home!Open
  <2>3. ASSUME section = "activity" PROVE Activity!SpinnerIsPending
    BY <2>3 DEF WorkspaceInv, SectionInv, ActivityInv, ActivityGood, ActivityLoose, ActivityFresh, ActivityFigures,
                Activity!SpinnerIsPending, Activity!Open
  <2>4. ASSUME section = "budgets" PROVE Budgets!SpinnerIsPending
    BY <2>4 DEF WorkspaceInv, SectionInv, BudgetsInv, BudgetsGood, BudgetsSpinners, Budgets!SpinnerIsPending,
                Budgets!Open
  <2>5. ASSUME section = "categories" PROVE Categories!SpinnerIsPending
    BY <2>5 DEF WorkspaceInv, SectionInv, CategoriesInv, CategoriesGood, CategoriesTrees, CategoriesBusy,
                Categories!SpinnerIsPending, Categories!Open
  <2>6. ASSUME section = "entities" PROVE Entities!SpinnerIsPending
    BY <2>6 DEF WorkspaceInv, SectionInv, EntityInv, EntityGood, Entities!SpinnerIsPending, Entities!Open
  <2> QED BY <2>1, <2>2, <2>3, <2>4, <2>5, <2>6 DEF SpinnerIsPending
<1> QED BY <1>1, WorkspaceHolds, PTL

\* The view state that is kept for a ledger is the one on its screen.
THEOREM SavedViewIsShown == Spec => []SavedIsShown
<1>1. WorkspaceInv => SavedIsShown
  <2> SUFFICES ASSUME WorkspaceInv PROVE SavedIsShown
    OBVIOUS
  <2>1. section = "flows" => Flows!SavedIsShown
    BY DEF WorkspaceInv, SectionInv, FlowsInv, Flows!SavedIsShown, Flows!Open
  <2>2. section = "home" => Home!SavedIsShown
    BY DEF WorkspaceInv, SectionInv, HomeInv, Home!SavedIsShown, Home!Open
  <2>3. section = "activity" => Activity!SavedIsShown
    BY DEF WorkspaceInv, SectionInv, ActivityInv, Activity!SavedIsShown, Activity!Open
  <2>4. section = "budgets" => Budgets!SavedIsShown
    BY DEF WorkspaceInv, SectionInv, BudgetsInv, BudgetsSaved, Budgets!SavedIsShown, Budgets!Open
  <2>5. section = "categories" => Categories!SavedIsShown
    BY DEF WorkspaceInv, SectionInv, CategoriesInv, CategoriesSaved, Categories!SavedIsShown, Categories!Open
  <2>6. section = "entities" => Entities!SavedIsShown
    BY DEF WorkspaceInv, SectionInv, EntityInv, Entities!SavedIsShown, Entities!Open
  <2> QED BY <2>1, <2>2, <2>3, <2>4, <2>5, <2>6 DEF SavedIsShown
<1> QED BY <1>1, WorkspaceHolds, PTL

\* A list on the screen was asked for after the last change that the user of
\* its page made.
THEOREM NewestChangesAreSeen == Spec => []ChangesAreSeen
<1>1. WorkspaceInv => ChangesAreSeen
  <2> SUFFICES ASSUME WorkspaceInv PROVE ChangesAreSeen
    OBVIOUS
  <2>1. ASSUME section = "activity" PROVE Activity!ChangesAreSeen
    BY <2>1 DEF WorkspaceInv, SectionInv, ActivityInv, ActivityGood, ActivityFresh, Activity!ChangesAreSeen,
                Activity!Settled, Activity!Open
  <2>2. ASSUME section = "budgets" PROVE Budgets!ChangesAreSeen
    BY <2>2 DEF WorkspaceInv, SectionInv, BudgetsInv, BudgetsGood, BudgetsLists, BudgetsSpinners,
                Budgets!ChangesAreSeen, Budgets!Settled, Budgets!Open
  <2>3. ASSUME section = "categories" PROVE Categories!ChangesAreSeen
    BY <2>3 DEF WorkspaceInv, SectionInv, CategoriesInv, CategoriesGood, CategoriesTrees,
                Categories!ChangesAreSeen, Categories!Settled, Categories!Open
  <2>4. ASSUME section = "entities" PROVE Entities!ChangesAreSeen
    BY <2>4 DEF WorkspaceInv, SectionInv, EntityInv, EntityGood, Entities!ChangesAreSeen, Entities!Settled,
                Entities!Open
  <2> QED BY <2>1, <2>2, <2>3, <2>4 DEF ChangesAreSeen
<1> QED BY <1>1, WorkspaceHolds, PTL

LEMMA CategoryPageOpens ==
  ASSUME section = "categories", NEW l
  PROVE  Opened(l).moving = None /\ Switched(l).moving = None
<1>1. Opened(l) = Categories!Opened(l) /\ Switched(l) = Categories!Opened(l)
  BY DEF Opened, Switched
<1>2. Categories!Opened(l).moving = None
  BY DEF Categories!Opened, Categories!Load
<1> QED BY <1>1, <1>2

\* A category that is dragged is never asked to move under itself, whatever
\* tree arrives between the start of the drag and the drop.
THEOREM MovesAreSound == Spec => MovesKeepTheTree
<1>1. WorkspaceInv /\ [Next]_vars => [section = "categories" => Categories!KeepsTheTree]_vars
  <2> SUFFICES ASSUME WorkspaceInv, Next, section = "categories" PROVE Categories!KeepsTheTree
    OBVIOUS
  <2>1. CategoriesInv
    BY DEF WorkspaceInv, SectionInv
  <2>2. CASE Categories!Next
    BY <2>1, <2>2, CategoriesKeepTheTree
  <2>3. ASSUME NEW l, page' \in {None, page, Opened(l), Switched(l)} PROVE Categories!KeepsTheTree
    BY <2>3, CategoryPageOpens DEF Categories!KeepsTheTree
  <2>4. ASSUME NEW to, Turn(to) PROVE Categories!KeepsTheTree
    BY <2>3, <2>4 DEF Turn
  <2>5. ASSUME NEW to, NEW l, Go(to, l) PROVE Categories!KeepsTheTree
    BY <2>3, <2>5 DEF Go, Enter
  <2>6. CASE LeaveLedger \/ AccessAnswer \/ AccessFail
    BY <2>3, <2>6 DEF LeaveLedger, AccessAnswer, AccessFail
  <2> QED BY <2>2, <2>4, <2>5, <2>6 DEF Next
<1> QED BY <1>1, WorkspaceHolds, PTL DEF Spec, MovesKeepTheTree
================================================================================
