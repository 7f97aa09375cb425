---------------------------- MODULE Business_proofs ----------------------------
(***************************************************************************)
(* What holds of the price of a product and of the stock of a stand, for   *)
(* any requests, drafts, prices and costs, any refills, lines and          *)
(* products; and of the two beside the accounts, as MCBusiness puts them.  *)
(***************************************************************************)
EXTENDS MCBusiness, Accounts_proofs, FiniteSetTheorems, WellFoundedInduction

(***************************************************************************)
(* Pricing                                                                 *)
(***************************************************************************)
Syncing == {"syncCheck", "syncFind", "syncWrite"}

\* Only approvals synchronise the price.
PhasesFit == \A x \in Requests : requestPc[x] \in Syncing => Kind(x) = "approve"

\* The margin a call has checked still holds, unless the row changed since.
MarginsHold ==
    \A x \in Requests :
        /\ requestPc[x] = "write" /\ Kind(x) = "create" => Covers(request[x].net, request[x].cost)
        /\ requestPc[x] = "write" /\ Kind(x) = "update" /\ x \notin outdated =>
              seen[x] = row /\ MarginHolds(x, row)
        /\ requestPc[x] \in Syncing \cup {"setStatus"} /\ Kind(x) = "approve" /\ x \notin outdated =>
              Mine(x) # NoDraft /\ Covers(Mine(x).net, row.cost)

\* Nothing is left of a product that is gone.
GoneForGood == ~exists => /\ row = NoPricing /\ ~history
                          /\ \A d \in Drafts : draft[d] = NoDraft

PricingInv == /\ PricingTypeOK /\ PhasesFit /\ MarginsHold /\ GoneForGood
              /\ PriceCoversCost /\ ApprovedDraftsAreApplied

--------------------------------------------------------------------------------
\* What each kind of request is made with.
LEMMA Fields ==
    ASSUME NEW x \in Requests, request[x] \in Requested \cup {Unasked}
    PROVE  /\ Kind(x) \in {"create", "update", "import"} =>
                 request[x].net \in Prices \cup {Null} /\ request[x].cost \in Costs \cup {Null}
           /\ Kind(x) \in {"draft", "submit", "reject", "approve"} => Of(x) \in Drafts
           /\ Kind(x) = "draft" =>
                 request[x].net \in Prices \cup {Null} /\ request[x].status \in {"DRAFT", "APPROVED"}
BY DEF Requested, Unasked, Kind, Of

\* A row is told from none by its id.
LEMMA RowIds ==
    ASSUME PricingTypeOK
    PROVE  /\ NoPricing.id = 0 /\ NoPricing \notin Row
           /\ row # NoPricing => row \in Row /\ row.id \in 1..MaxRows
           /\ \A x \in Requests : seen[x] # NoPricing /\ row.id = seen[x].id => row # NoPricing
BY MoneyAssumption DEF PricingTypeOK, Row, NoPricing

\* It holds of a product without a price.
LEMMA PricingInitInv == PricingInit => PricingInv
<1> SUFFICES ASSUME PricingInit PROVE PricingInv
  OBVIOUS
<1>1. row \in Row \cup {NoPricing} /\ rows \in 0..MaxRows
  BY MoneyAssumption DEF PricingInit, Row, NoPricing
<1>2. PricingTypeOK
  BY <1>1 DEF PricingInit, PricingTypeOK, Draft, DraftStatuses, RequestPhases
<1>3. PhasesFit /\ MarginsHold
  BY DEF PricingInit, PhasesFit, MarginsHold, Syncing
<1>4. GoneForGood /\ ApprovedDraftsAreApplied
  BY DEF PricingInit, GoneForGood, ApprovedDraftsAreApplied, NoDraft
<1>5. PriceCoversCost
  BY MoneyAssumption DEF PricingInit, PriceCoversCost, BelowCost, Covers, NoPricing
<1> QED BY <1>2, <1>3, <1>4, <1>5 DEF PricingInv

PricingStep(x) == PricingCall(x) \/ RowStep(x) \/ RemoveProduct(x) \/ DraftStep(x) \/ SyncStep(x) \/ Stop(x)

--------------------------------------------------------------------------------
\* Every variable keeps its type.
LEMMA TypeStep ==
    ASSUME PricingTypeOK, PhasesFit, NEW x \in Requests, PricingStep(x)
    PROVE  PricingTypeOK'
<1> USE DEF PricingTypeOK, DataUnchanged, Nothing
<1>0. request[x] \in Requested \cup {Unasked}
  OBVIOUS
<1>1. CASE PricingCall(x)
  <2>1. Approval \subseteq Requested
    BY DEF Approval, Requested
  <2>2. request' \in [Requests -> Requested \cup {Unasked}]
    BY <1>1, <2>1 DEF PricingCall
  <2> QED BY <1>1, <2>2 DEF PricingCall, Move, RequestPhases
<1>2. CASE CheckRow(x) \/ CheckDraft(x) \/ CheckStatus(x) \/ SyncCheck(x) \/ SyncFind(x)
  <2>1. requestPc' \in [Requests -> RequestPhases]
    BY <1>2 DEF CheckRow, CheckDraft, CheckStatus, SyncCheck, SyncFind, Move, RequestPhases
  <2>2. halted' \subseteq Drafts
    BY <1>0, <1>2, Fields DEF CheckRow, CheckDraft, CheckStatus, SyncCheck, SyncFind
  <2> QED BY <1>2, <2>1, <2>2 DEF CheckRow, CheckDraft, CheckStatus, SyncCheck, SyncFind
<1>3. CASE InsertRow(x)
  <2>1. request[x].net \in Prices \cup {Null} /\ request[x].cost \in Costs \cup {Null}
    BY <1>0, <1>3, Fields DEF InsertRow
  <2>2. row' \in Row /\ rows' \in 0..MaxRows
    BY <1>3, <2>1, MoneyAssumption DEF InsertRow, Changes, Row
  <2>3. requestPc' \in [Requests -> RequestPhases] /\ outdated' \subseteq Requests
    BY <1>3 DEF InsertRow, Move, Changes, RequestPhases
  <2> QED BY <1>3, <2>2, <2>3 DEF InsertRow
<1>4. CASE UpdateRow(x)
  <2>1. request[x].net \in Prices \cup {Null} /\ request[x].cost \in Costs \cup {Null}
    BY <1>0, <1>4, Fields DEF UpdateRow
  <2>2. row \in Row
    BY <1>4, RowIds DEF UpdateRow
  <2>3. row' \in Row
    BY <1>4, <2>1, <2>2 DEF UpdateRow, Changes, Row, Merged
  <2>4. requestPc' \in [Requests -> RequestPhases] /\ outdated' \subseteq Requests
    BY <1>4 DEF UpdateRow, Move, Changes, RequestPhases
  <2> QED BY <1>4, <2>3, <2>4 DEF UpdateRow
<1>5. CASE DeleteRow(x) \/ RemoveProduct(x)
  <2>1. /\ requestPc' \in [Requests -> RequestPhases] /\ outdated' \subseteq Requests
        /\ row' = NoPricing
    BY <1>5 DEF DeleteRow, RemoveProduct, Move, Changes, RequestPhases
  <2>2. draft' \in [Drafts -> Draft \cup {NoDraft}]
    BY <1>5 DEF DeleteRow, RemoveProduct
  <2> QED BY <1>5, <2>1, <2>2 DEF DeleteRow, RemoveProduct
<1>6. CASE RecordHistory(x)
  BY <1>6 DEF RecordHistory, Move, RequestPhases
<1>7. CASE CreateDraft(x)
  <2>1. /\ Of(x) \in Drafts /\ request[x].net \in Prices \cup {Null}
        /\ request[x].status \in {"DRAFT", "APPROVED"}
    BY <1>0, <1>7, Fields DEF CreateDraft
  <2>2. draft' \in [Drafts -> Draft \cup {NoDraft}]
    BY <1>7, <2>1 DEF CreateDraft, Draft, DraftStatuses
  <2> QED BY <1>7, <2>2 DEF CreateDraft, Move, RequestPhases
<1>8. CASE SetStatus(x)
  <2>1. Of(x) \in Drafts /\ Mine(x) \in Draft
    BY <1>0, <1>8, Fields DEF SetStatus, Mine
  <2>2. draft' = [draft EXCEPT ![Of(x)] = [Mine(x) EXCEPT !.status = NewStatus(x)]]
    BY <1>8 DEF SetStatus, Mine
  <2>3. [Mine(x) EXCEPT !.status = NewStatus(x)] \in Draft
    BY <2>1 DEF Draft, DraftStatuses, NewStatus
  <2>4. draft' \in [Drafts -> Draft \cup {NoDraft}]
    BY <2>1, <2>2, <2>3
  <2> QED BY <1>8, <2>4 DEF SetStatus, Move, RequestPhases
<1>9. CASE SyncWrite(x)
  <2>1. Of(x) \in Drafts /\ Approved(x) \in Prices \cup {Null}
    BY <1>0, <1>9, Fields DEF SyncWrite, Mine, Approved, Draft, NoDraft
  <2>2. row' \in Row /\ rows' \in 0..MaxRows
    <3>1. CASE row # NoPricing
      <4>1. row \in Row /\ row' = [row EXCEPT !.net = Approved(x)] /\ rows' = rows
        BY <1>9, <3>1 DEF SyncWrite, Changes
      <4> QED BY <2>1, <4>1 DEF Row
    <3>2. CASE row = NoPricing
      BY <1>9, <2>1, <3>2, MoneyAssumption DEF SyncWrite, Changes, Row
    <3> QED BY <3>1, <3>2
  <2>3. requestPc' \in [Requests -> RequestPhases] /\ outdated' \subseteq Requests
    BY <1>9 DEF SyncWrite, Move, Changes, RequestPhases
  <2>4. unguarded' \in BOOLEAN
    <3>1. unguarded' = FALSE \/ unguarded' = (x \in outdated)
      BY <1>9 DEF SyncWrite
    <3>2. (x \in outdated) \in BOOLEAN
      OBVIOUS
    <3> QED BY <3>1, <3>2, Zenon
  <2>5. applied' \subseteq Drafts
    BY <1>9, <2>1 DEF SyncWrite
  <2> QED BY <1>9, <2>2, <2>3, <2>4, <2>5 DEF SyncWrite
<1>10. CASE Stop(x)
  <2>1. requestPc[x] \in Syncing => Of(x) \in Drafts
    BY <1>0, Fields DEF PhasesFit
  <2> QED BY <1>10, <2>1 DEF Stop, RequestPhases, Syncing
<1> QED BY <1>1, <1>2, <1>3, <1>4, <1>5, <1>6, <1>7, <1>8, <1>9, <1>10
        DEF PricingStep, RowStep, DraftStep, SyncStep

\* A step moves one call, which asks for what it asked for before.
LEMMA OneMoves ==
    ASSUME PricingTypeOK, NEW x \in Requests, PricingStep(x)
    PROVE  /\ \A y \in Requests \ {x} : requestPc'[y] = requestPc[y] /\ request'[y] = request[y]
           /\ requestPc'[x] # requestPc[x] /\ requestPc[x] # "done"
           /\ requestPc[x] # "idle" => request'[x] = request[x]
           /\ requestPc[x] = "idle" => requestPc'[x] = "check"
<1> USE DEF PricingTypeOK, Move, DataUnchanged, Nothing
<1>1. CASE PricingCall(x)
  BY <1>1 DEF PricingCall
<1>2. CASE RowStep(x) \/ RemoveProduct(x)
  BY <1>2 DEF RowStep, RemoveProduct, CheckRow, InsertRow, UpdateRow, DeleteRow, RecordHistory
<1>3. CASE DraftStep(x)
  BY <1>3 DEF DraftStep, CheckDraft, CreateDraft, CheckStatus, SetStatus
<1>4. CASE SyncStep(x) \/ Stop(x)
  BY <1>4 DEF SyncStep, SyncCheck, SyncFind, SyncWrite, Stop
<1> QED BY <1>1, <1>2, <1>3, <1>4 DEF PricingStep

\* Whoever is in progress is told apart if the row changes, and no call but x is told
\* apart no longer.
LEMMA ChangesAreNoticed ==
    ASSUME PricingTypeOK, NEW x \in Requests, PricingStep(x),
           NEW y \in Requests \ {x}, y \notin outdated'
    PROVE  /\ y \notin outdated
           /\ row' # row => requestPc[y] \in {"idle", "done"}
           /\ requestPc[y] \notin {"idle", "done"} => ~RemoveProduct(x)
<1> USE DEF PricingTypeOK, DataUnchanged, Nothing
<1>1. CASE PricingCall(x)
  BY <1>1 DEF PricingCall, RemoveProduct, Move
<1>2. CASE RowStep(x) \/ RemoveProduct(x)
  BY <1>2 DEF RowStep, RemoveProduct, CheckRow, InsertRow, UpdateRow, DeleteRow, RecordHistory, Changes
<1>3. CASE DraftStep(x)
  BY <1>3 DEF DraftStep, CheckDraft, CreateDraft, CheckStatus, SetStatus, RemoveProduct
<1>4. CASE SyncStep(x) \/ Stop(x)
  BY <1>4 DEF SyncStep, SyncCheck, SyncFind, SyncWrite, Stop, Changes, RemoveProduct, Move
<1> QED BY <1>1, <1>2, <1>3, <1>4 DEF PricingStep

\* A draft keeps its price, and goes only with its product.
LEMMA DraftsKeepPrices ==
    ASSUME PricingTypeOK, NEW x \in Requests, PricingStep(x), ~RemoveProduct(x),
           NEW d \in Drafts, draft[d] # NoDraft
    PROVE  /\ draft'[d] # NoDraft
           /\ draft'[d].net = draft[d].net /\ draft'[d].born = draft[d].born
<1> USE DEF PricingTypeOK, DataUnchanged, Nothing
<1>0. request[x] \in Requested \cup {Unasked}
  OBVIOUS
<1>1. CASE PricingCall(x) \/ RowStep(x) \/ SyncStep(x) \/ Stop(x)
  BY <1>1 DEF PricingCall, RowStep, CheckRow, InsertRow, UpdateRow, DeleteRow, RecordHistory,
              SyncStep, SyncCheck, SyncFind, SyncWrite, Stop
<1>2. CASE CheckDraft(x) \/ CheckStatus(x)
  BY <1>2 DEF CheckDraft, CheckStatus
<1>3. CASE CreateDraft(x)
  BY <1>3 DEF CreateDraft, Mine
<1>4. CASE SetStatus(x)
  <2>1. Of(x) \in Drafts /\ Mine(x) \in Draft
    BY <1>0, <1>4, Fields DEF SetStatus, Mine
  <2>2. draft' = [draft EXCEPT ![Of(x)] = [Mine(x) EXCEPT !.status = NewStatus(x)]]
    BY <1>4 DEF SetStatus, Mine
  <2>3. [Mine(x) EXCEPT !.status = NewStatus(x)] \in Draft
    BY <2>1 DEF Draft, DraftStatuses, NewStatus
  <2>4. \A e \in Draft : e # NoDraft
    BY DEF Draft, NoDraft, DraftStatuses
  <2> QED BY <2>1, <2>2, <2>3, <2>4 DEF Draft, Mine
<1> QED BY <1>1, <1>2, <1>3, <1>4 DEF PricingStep, DraftStep

\* A request that is no approval never synchronises.
LEMMA PhasesStep ==
    ASSUME PricingTypeOK, PhasesFit, NEW x \in Requests, PricingStep(x)
    PROVE  PhasesFit'
<1> SUFFICES ASSUME NEW y \in Requests, requestPc'[y] \in Syncing PROVE Kind(y)' = "approve"
  BY DEF PhasesFit
<1> USE DEF PricingTypeOK, Move, Syncing, Nothing
<1>1. CASE y # x \/ requestPc[y] \in Syncing
  BY <1>1, OneMoves DEF PhasesFit, Kind
<1>2. CASE y = x /\ requestPc[x] \notin Syncing
  <2>1. CASE SetStatus(x)
    BY <1>2, <2>1 DEF SetStatus, Kind
  <2>2. CASE ~SetStatus(x)
    <3>1. requestPc'[x] \notin Syncing
      BY <1>2, <2>2 DEF PricingStep, PricingCall, RowStep, CheckRow, InsertRow, UpdateRow, DeleteRow,
         RecordHistory, RemoveProduct, DraftStep, CheckDraft, CreateDraft, CheckStatus, SyncStep,
         SyncCheck, SyncFind, SyncWrite, Stop
    <3> QED BY <1>2, <3>1
  <2> QED BY <2>1, <2>2
<1> QED BY <1>1, <1>2

\* What an update may write covers the cost if what was checked does.
LEMMA MergedCovers ==
    ASSUME PricingTypeOK, NEW x \in Requests, Kind(x) = "update", row # NoPricing, MarginHolds(x, row)
    PROVE  ~BelowCost(Merged(x))
<1>1. row \in Row
  BY RowIds
<1>2. /\ request[x].net \in Nat \cup {Null} /\ request[x].cost \in Nat \cup {Null}
      /\ row.net \in Nat \cup {Null} /\ row.cost \in Nat \cup {Null}
  BY <1>1, Fields, MoneyAssumption DEF PricingTypeOK, Row
<1>3. Covers(Target(x, request[x].net, row.net), Target(x, request[x].cost, row.cost))
  BY DEF MarginHolds
<1> QED BY <1>2, <1>3, MoneyAssumption DEF Merged, BelowCost, Covers, Target, OrZero

\* An approval holds what it has checked about its draft, unless the row changed.
LEMMA ApprovalHolds ==
    ASSUME PricingInv, NEW x \in Requests, PricingStep(x),
           NEW y \in Requests, y \notin outdated', Kind(y)' = "approve",
           requestPc'[y] \in Syncing \cup {"setStatus"}
    PROVE  Mine(y)' # NoDraft /\ Covers(Mine(y)'.net, row'.cost)
<1> USE DEF PricingInv
<1>0. requestPc[y] # "idle" /\ request'[y] = request[y] /\ Of(y) \in Drafts /\ Of(y)' = Of(y)
  <2>1. requestPc[y] # "idle" /\ request'[y] = request[y]
    BY OneMoves DEF Syncing
  <2>2. request[y] \in Requested \cup {Unasked} /\ Kind(y) = "approve"
    BY <2>1 DEF PricingTypeOK, Kind
  <2> QED BY <2>1, <2>2, Fields DEF Of
<1>1. CASE y # x
  <2>1. /\ requestPc'[y] = requestPc[y] /\ y \notin outdated
        /\ row' = row /\ ~RemoveProduct(x)
    BY <1>0, <1>1, OneMoves, ChangesAreNoticed DEF Syncing
  <2>2. Mine(y) # NoDraft /\ Covers(Mine(y).net, row.cost)
    BY <1>0, <2>1 DEF MarginsHold, Kind
  <2>3. draft'[Of(y)] # NoDraft /\ draft'[Of(y)].net = draft[Of(y)].net
    BY <1>0, <2>1, <2>2, DraftsKeepPrices DEF Mine
  <2> QED BY <1>0, <2>1, <2>2, <2>3 DEF Mine
<1>2. CASE y = x
  <2> USE DEF PricingTypeOK, Move, DataUnchanged, Nothing, Syncing
  <2>1. CheckStatus(x) \/ SetStatus(x) \/ SyncCheck(x) \/ SyncFind(x)
    BY <1>2 DEF PricingStep, PricingCall, RowStep, CheckRow, InsertRow, UpdateRow, DeleteRow,
       RecordHistory, RemoveProduct, DraftStep, CheckDraft, CreateDraft, SyncStep, SyncWrite, Stop
  <2>2. CASE CheckStatus(x)
    BY <1>0, <1>2, <2>2 DEF CheckStatus, Mine, Kind
  <2>3. CASE SetStatus(x)
    <3>1. Mine(x) # NoDraft /\ Covers(Mine(x).net, row.cost) /\ row' = row /\ ~RemoveProduct(x)
      BY <1>0, <1>2, <2>3 DEF SetStatus, MarginsHold, Kind, RemoveProduct
    <3>2. draft'[Of(x)] # NoDraft /\ draft'[Of(x)].net = draft[Of(x)].net
      BY <1>0, <1>2, <3>1, DraftsKeepPrices DEF Mine
    <3> QED BY <1>0, <1>2, <3>1, <3>2 DEF Mine
  <2>4. CASE SyncCheck(x)
    BY <1>0, <1>2, <2>4 DEF SyncCheck, Mine, Approved
  <2>5. CASE SyncFind(x)
    BY <1>0, <1>2, <2>5 DEF SyncFind, MarginsHold, Mine, Kind
  <2> QED BY <2>1, <2>2, <2>3, <2>4, <2>5
<1> QED BY <1>1, <1>2

\* A margin once checked holds while nobody changes the row.
LEMMA MarginsStep ==
    ASSUME PricingInv, NEW x \in Requests, PricingStep(x)
    PROVE  MarginsHold'
<1> USE DEF PricingInv
<1> SUFFICES ASSUME NEW y \in Requests
             PROVE  /\ requestPc'[y] = "write" /\ Kind(y)' = "create" =>
                          Covers(request'[y].net, request'[y].cost)
                    /\ requestPc'[y] = "write" /\ Kind(y)' = "update" /\ y \notin outdated' =>
                          seen'[y] = row' /\ MarginHolds(y, row)'
  BY ApprovalHolds DEF MarginsHold
<1>1. CASE requestPc'[y] # "write"
  BY <1>1
<1>2. CASE requestPc'[y] = "write" /\ y # x
  <2>1. requestPc[y] = "write" /\ request'[y] = request[y]
    BY <1>2, OneMoves
  <2>2. y \notin outdated' => y \notin outdated /\ row' = row
    BY <1>2, <2>1, ChangesAreNoticed
  <2>3. seen'[y] = seen[y]
    BY <1>2 DEF PricingStep, PricingCall, RowStep, CheckRow, InsertRow, UpdateRow, DeleteRow,
       RecordHistory, RemoveProduct, DraftStep, CheckDraft, CreateDraft, CheckStatus, SetStatus,
       SyncStep, SyncCheck, SyncFind, SyncWrite, Stop, Nothing, PricingTypeOK
  <2> QED BY <2>1, <2>2, <2>3 DEF MarginsHold, MarginHolds, Kind, Target
<1>3. CASE requestPc'[y] = "write" /\ y = x
  <2> USE DEF PricingTypeOK, Move, DataUnchanged, Nothing
  <2>1. CheckRow(x) \/ CheckDraft(x)
    BY <1>3 DEF PricingStep, PricingCall, RowStep, InsertRow, UpdateRow, DeleteRow, RecordHistory,
       RemoveProduct, DraftStep, CreateDraft, CheckStatus, SetStatus, SyncStep, SyncCheck, SyncFind,
       SyncWrite, Stop
  <2>2. CASE CheckRow(x)
    <3>1. /\ MarginHolds(x, row) /\ seen'[x] = row /\ row' = row
          /\ request' = request
      BY <1>3, <2>2 DEF CheckRow
    <3> QED BY <1>3, <3>1 DEF MarginHolds, Kind, Target
  <2>3. CASE CheckDraft(x)
    BY <1>3, <2>3 DEF CheckDraft, Kind
  <2> QED BY <2>1, <2>2, <2>3
<1> QED BY <1>1, <1>2, <1>3

--------------------------------------------------------------------------------
\* What is removed stays removed.
LEMMA GoneStep ==
    ASSUME PricingInv, NEW x \in Requests, PricingStep(x)
    PROVE  GoneForGood'
<1> USE DEF PricingInv, DataUnchanged, Nothing
<1>0. request[x] \in Requested \cup {Unasked}
  BY DEF PricingTypeOK
<1>1. CASE RemoveProduct(x)
  BY <1>1 DEF RemoveProduct, Changes, GoneForGood
<1>2. CASE InsertRow(x) \/ RecordHistory(x) \/ CreateDraft(x)
  BY <1>2 DEF InsertRow, RecordHistory, CreateDraft, GoneForGood
<1>3. CASE UpdateRow(x)
  BY <1>3, RowIds DEF UpdateRow, GoneForGood
<1>4. CASE DeleteRow(x)
  BY <1>4 DEF DeleteRow, Changes, GoneForGood
<1>5. CASE SetStatus(x)
  <2>1. Of(x) \in Drafts /\ Mine(x) # NoDraft
    BY <1>0, <1>5, Fields DEF SetStatus
  <2> QED BY <1>5, <2>1 DEF SetStatus, Mine, GoneForGood
<1>6. CASE SyncWrite(x)
  BY <1>6 DEF SyncWrite, GoneForGood
<1>7. CASE PricingCall(x) \/ CheckRow(x) \/ CheckDraft(x) \/ CheckStatus(x) \/ SyncCheck(x)
           \/ SyncFind(x) \/ Stop(x)
  BY <1>7 DEF PricingCall, CheckRow, CheckDraft, CheckStatus, SyncCheck, SyncFind, Stop, GoneForGood
<1> QED BY <1>1, <1>2, <1>3, <1>4, <1>5, <1>6, <1>7 DEF PricingStep, RowStep, DraftStep, SyncStep

\* No step writes a price below its cost.
LEMMA CoverStep ==
    ASSUME PricingInv, NEW x \in Requests, PricingStep(x)
    PROVE  PriceCoversCost'
<1> USE DEF PricingInv, DataUnchanged, Nothing
<1>1. CASE InsertRow(x)
  BY <1>1 DEF InsertRow, Move, Changes, MarginsHold, PriceCoversCost, BelowCost
<1>2. CASE UpdateRow(x)
  <2>1. row # NoPricing
    BY <1>2, RowIds DEF UpdateRow
  <2>2. Kind(x) = "update" /\ x \notin outdated => ~BelowCost(Merged(x))
    BY <1>2, <2>1, MergedCovers DEF UpdateRow, Move, MarginsHold
  <2> QED BY <1>2, <2>2 DEF UpdateRow, Changes, PriceCoversCost, BelowCost
<1>3. CASE DeleteRow(x) \/ RemoveProduct(x)
  BY <1>3 DEF DeleteRow, RemoveProduct, Changes, PriceCoversCost, BelowCost, Covers, NoPricing
<1>4. CASE SyncWrite(x)
  <2>1. CASE row # NoPricing
    <3>1. row \in Row /\ row' = [row EXCEPT !.net = Mine(x).net]
      BY <1>4, <2>1, RowIds DEF SyncWrite, Changes, Approved
    <3>2. row'.net = Mine(x).net /\ row'.cost = row.cost
      BY <3>1 DEF Row
    <3>3. x \notin outdated => Covers(Mine(x).net, row.cost)
      BY <1>4 DEF SyncWrite, Move, MarginsHold, Syncing
    <3> QED BY <1>4, <2>1, <3>2, <3>3 DEF SyncWrite, PriceCoversCost, BelowCost
  <2>2. CASE row = NoPricing
    BY <1>4, <2>2 DEF SyncWrite, Changes, PriceCoversCost, BelowCost, Covers
  <2> QED BY <2>1, <2>2
<1>5. CASE PricingCall(x) \/ CheckRow(x) \/ RecordHistory(x) \/ DraftStep(x) \/ SyncCheck(x)
           \/ SyncFind(x) \/ Stop(x)
  BY <1>5 DEF PricingCall, CheckRow, RecordHistory, DraftStep, CheckDraft, CreateDraft, CheckStatus,
              SetStatus, SyncCheck, SyncFind, Stop, PriceCoversCost, BelowCost
<1> QED BY <1>1, <1>2, <1>3, <1>4, <1>5 DEF PricingStep, RowStep, SyncStep

\* What accounts for an approved draft.
Accounted(d) == \/ d \in applied \cup halted
                \/ draft[d].born = "APPROVED"
                \/ \E x \in Requests : Kind(x) = "approve" /\ Of(x) = d /\ requestPc[x] \in Syncing

\* A draft accounted for stays so.
LEMMA AccountsStand ==
    ASSUME PricingInv, NEW x \in Requests, PricingStep(x),
           NEW d \in Drafts, draft'[d].born = draft[d].born, Accounted(d)
    PROVE  Accounted(d)'
<1> USE DEF PricingInv, DataUnchanged, Nothing
<1>1. CASE d \in applied \cup halted
  <2>1. applied \subseteq applied' /\ halted \subseteq halted'
    BY DEF PricingStep, PricingCall, RowStep, CheckRow, InsertRow, UpdateRow, DeleteRow, RecordHistory,
       RemoveProduct, DraftStep, CheckDraft, CreateDraft, CheckStatus, SetStatus, SyncStep, SyncCheck,
       SyncFind, SyncWrite, Stop
  <2> QED BY <1>1, <2>1 DEF Accounted
<1>2. CASE draft[d].born = "APPROVED"
  BY <1>2 DEF Accounted
<1>3. CASE \E y \in Requests : Kind(y) = "approve" /\ Of(y) = d /\ requestPc[y] \in Syncing
  <2>1. PICK y \in Requests : Kind(y) = "approve" /\ Of(y) = d /\ requestPc[y] \in Syncing
    BY <1>3
  <2>2. requestPc[y] # "idle" /\ requestPc[y] \in RequestPhases
    BY <2>1 DEF PricingTypeOK, Syncing
  <2>3. Kind(y)' = "approve" /\ Of(y)' = d
    BY <2>1, <2>2, OneMoves DEF Kind, Of
  <2>4. CASE requestPc'[y] \in Syncing
    BY <2>3, <2>4 DEF Accounted
  <2>5. CASE requestPc'[y] \notin Syncing
    <3> USE DEF PricingTypeOK, Move, Syncing
    <3>1. y = x
      BY <2>1, <2>5, OneMoves
    <3>2. SyncCheck(x) \/ SyncWrite(x) \/ Stop(x)
      BY <2>1, <2>5, <3>1 DEF PricingStep, PricingCall, RowStep, CheckRow, InsertRow, UpdateRow,
         DeleteRow, RecordHistory, RemoveProduct, DraftStep, CheckDraft, CreateDraft, CheckStatus,
         SetStatus, SyncStep, SyncFind
    <3>3. CASE SyncCheck(x)
      <4>1. ~Covers(Approved(x), row.cost)
        BY <2>5, <3>1, <3>3 DEF SyncCheck
      <4>2. x \in outdated
        BY <2>1, <3>1, <4>1 DEF MarginsHold, Approved
      <4> QED BY <2>1, <3>1, <3>3, <4>1, <4>2 DEF SyncCheck, Accounted
    <3>4. CASE SyncWrite(x)
      BY <2>1, <3>1, <3>4 DEF SyncWrite, Accounted
    <3>5. CASE Stop(x)
      BY <2>1, <3>1, <3>5 DEF Stop, Accounted
    <3> QED BY <3>2, <3>3, <3>4, <3>5
  <2> QED BY <2>4, <2>5
<1> QED BY <1>1, <1>2, <1>3 DEF Accounted

\* Every approved draft is accounted for.
LEMMA ApprovedStep ==
    ASSUME PricingInv, NEW x \in Requests, PricingStep(x)
    PROVE  ApprovedDraftsAreApplied'
<1> USE DEF PricingInv, DataUnchanged, Nothing
<1> SUFFICES ASSUME NEW d \in Drafts, draft'[d].status = "APPROVED", draft'[d].net # Null
             PROVE  Accounted(d)'
  BY DEF ApprovedDraftsAreApplied, Accounted, Syncing
<1>0. request[x] \in Requested \cup {Unasked} /\ draft \in [Drafts -> Draft \cup {NoDraft}]
  BY DEF PricingTypeOK
<1>1. CASE draft'[d] = draft[d]
  <2>1. Accounted(d)
    BY <1>1 DEF ApprovedDraftsAreApplied, Accounted, Syncing
  <2> QED BY <1>1, <2>1, AccountsStand
<1>2. CASE draft'[d] # draft[d]
  <2>1. CASE RemoveProduct(x)
    BY <2>1 DEF RemoveProduct, NoDraft
  <2>2. CASE CreateDraft(x)
    <3>1. d = Of(x)
      BY <1>0, <1>2, <2>2 DEF CreateDraft
    <3> QED BY <1>0, <2>2, <3>1 DEF CreateDraft, Accounted
  <2>3. CASE SetStatus(x)
    <3>1. d = Of(x) /\ Mine(x) \in Draft
      BY <1>0, <1>2, <2>3 DEF SetStatus, Mine
    <3>2. draft'[d] = [Mine(x) EXCEPT !.status = NewStatus(x)]
      BY <1>0, <2>3, <3>1 DEF SetStatus, Mine
    <3>3. NewStatus(x) = "APPROVED" /\ Priced(x)
      BY <3>1, <3>2 DEF Draft, Priced
    <3>4. Kind(x) = "approve"
      BY <2>3, <3>3 DEF SetStatus, NewStatus
    <3>5. requestPc'[x] = "syncCheck" /\ request' = request
      BY <2>3, <3>3, <3>4 DEF SetStatus, Move, PricingTypeOK
    <3> QED BY <3>1, <3>4, <3>5 DEF Accounted, Kind, Of, Syncing
  <2>4. CASE ~RemoveProduct(x) /\ ~CreateDraft(x) /\ ~SetStatus(x)
    BY <1>2, <2>4 DEF PricingStep, PricingCall, RowStep, CheckRow, InsertRow, UpdateRow, DeleteRow,
       RecordHistory, DraftStep, CheckDraft, CheckStatus, SyncStep, SyncCheck, SyncFind, SyncWrite, Stop
  <2> QED BY <2>1, <2>2, <2>3, <2>4
<1> QED BY <1>1, <1>2

--------------------------------------------------------------------------------
\* The invariant holds over every step.
LEMMA PricingNextInv == PricingInv /\ [PricingNext]_pricingVars => PricingInv'
<1> SUFFICES ASSUME PricingInv, [PricingNext]_pricingVars PROVE PricingInv'
  OBVIOUS
<1>1. ASSUME NEW x \in Requests, PricingStep(x) PROVE PricingInv'
  <2>1. PricingTypeOK' /\ PhasesFit'
    BY <1>1, TypeStep, PhasesStep DEF PricingInv
  <2> QED BY <1>1, <2>1, MarginsStep, GoneStep, CoverStep, ApprovedStep DEF PricingInv
<1>2. CASE UNCHANGED pricingVars
  <2>1. /\ exists' = exists /\ row' = row /\ rows' = rows /\ draft' = draft /\ history' = history
        /\ requestPc' = requestPc /\ request' = request /\ seen' = seen /\ outdated' = outdated
        /\ unguarded' = unguarded /\ applied' = applied /\ halted' = halted
    BY <1>2 DEF pricingVars
  <2>2. PricingTypeOK' /\ PhasesFit' /\ GoneForGood'
    BY <2>1 DEF PricingInv, PricingTypeOK, PhasesFit, GoneForGood, Kind
  <2>3. MarginsHold'
    BY <2>1 DEF PricingInv, MarginsHold, MarginHolds, Target, Kind, Mine, Of
  <2>4. PriceCoversCost' /\ ApprovedDraftsAreApplied'
    BY <2>1 DEF PricingInv, PriceCoversCost, BelowCost, ApprovedDraftsAreApplied, Kind, Of
  <2> QED BY <2>2, <2>3, <2>4 DEF PricingInv
<1> QED BY <1>1, <1>2 DEF PricingNext, PricingStep

\* Hence always.
LEMMA PricingInvariance == PricingSpec => []PricingInv
BY PricingInitInv, PricingNextInv, PTL DEF PricingSpec

\* Every variable keeps its type, for any requests, drafts, prices and costs.
THEOREM PricingTypes == PricingSpec => []PricingTypeOK
BY PricingInvariance, PTL DEF PricingInv

\* A price below the cost comes of an import or of a check that was overtaken.
THEOREM PricesCover == PricingSpec => []PriceCoversCost
BY PricingInvariance, PTL DEF PricingInv

\* An approved draft is applied, unless its approval was cut short, overtaken or
\* never asked for.
THEOREM DraftsAreApplied == PricingSpec => []ApprovedDraftsAreApplied
BY PricingInvariance, PTL DEF PricingInv

\* A product is removed with all that is its own, and nothing comes back to it.
THEOREM Removals == PricingSpec => RemovalsAreWhole
<1> DEFINE Kept ==
      IF exists'
      THEN /\ \A d \in Drafts : draft[d] # NoDraft => draft'[d] # NoDraft
           /\ row # NoPricing /\ row' = NoPricing =>
                 \E x \in Requests : Kind(x) = "delete" /\ requestPc[x] # requestPc'[x]
      ELSE row' = NoPricing /\ ~history' /\ \A d \in Drafts : draft'[d] = NoDraft
<1>1. ASSUME PricingInv, PricingInv', [PricingNext]_pricingVars PROVE [Kept]_pricingVars
  <2>1. ~exists' => Kept
    BY <1>1 DEF PricingInv, GoneForGood
  <2>2. ASSUME NEW x \in Requests, PricingStep(x), exists' PROVE Kept
    <3> USE DEF DataUnchanged, Nothing
    <3>1. PricingTypeOK
      BY <1>1 DEF PricingInv
    <3>2. ~RemoveProduct(x)
      BY <2>2 DEF RemoveProduct, Removes
    <3>3. \A d \in Drafts : draft[d] # NoDraft => draft'[d] # NoDraft
      BY <2>2, <3>1, <3>2, DraftsKeepPrices
    <3>4. ASSUME row # NoPricing, row' = NoPricing
          PROVE  Kind(x) = "delete" /\ requestPc[x] # requestPc'[x]
      <4>1. CASE UpdateRow(x) \/ InsertRow(x) \/ SyncWrite(x)
        <5>1. row'.id # 0
          <6>1. row \in Row /\ row.id # 0
            BY <3>1, <3>4, RowIds
          <6>2. CASE UpdateRow(x)
            BY <6>1, <6>2 DEF UpdateRow, Changes, Merged
          <6>3. CASE InsertRow(x)
            BY <3>4, <6>3 DEF InsertRow
          <6>4. CASE SyncWrite(x)
            BY <3>4, <6>1, <6>4 DEF SyncWrite, Changes, Row
          <6> QED BY <4>1, <6>2, <6>3, <6>4
        <5> QED BY <3>4, <5>1 DEF NoPricing
      <4>2. CASE DeleteRow(x)
        BY <3>1, <4>2 DEF DeleteRow, Move, PricingTypeOK
      <4>3. CASE ~(UpdateRow(x) \/ InsertRow(x) \/ SyncWrite(x) \/ DeleteRow(x))
        BY <2>2, <3>2, <3>4, <4>3 DEF PricingStep, PricingCall, RowStep, CheckRow, RecordHistory,
           DraftStep, CheckDraft, CreateDraft, CheckStatus, SetStatus, SyncStep, SyncCheck, SyncFind, Stop
      <4> QED BY <4>1, <4>2, <4>3
    <3> QED BY <2>2, <3>3, <3>4
  <2> QED BY <1>1, <2>1, <2>2 DEF PricingNext, PricingStep
<1> QED BY <1>1, PricingInvariance, PTL DEF PricingSpec, RemovalsAreWhole

--------------------------------------------------------------------------------
(***************************************************************************)
(* Sums over finite sets.  Total folds with an element it chooses; what    *)
(* the proofs need is that it does not matter which.  Each fact is proved  *)
(* on the smallest set that would be a counterexample.                     *)
(***************************************************************************)
\* The element a fold takes out first, and the function it is computed with.
Pick(T) == CHOOSE x \in T : TRUE
Iter(g, f, S) == g = [T \in SUBSET S |-> IF T = {} THEN 0 ELSE f[Pick(T)] + g[T \ {Pick(T)}]]

\* Total, unfolded.
LEMMA TotalIs ==
  ASSUME NEW f, NEW S
  PROVE Total(f, S) = (CHOOSE g : Iter(g, f, S))[S]
BY DEF Total, MapThenSumSet, MapThenFoldSet, Iter, Pick

\* Among finite sets there is a smallest.
LEMMA SmallestCard ==
  ASSUME NEW P, P # {}, \A T \in P : IsFiniteSet(T)
  PROVE \E T \in P : \A U \in P : Cardinality(T) <= Cardinality(U)
<1> DEFINE Sizes == {Cardinality(T) : T \in P}
<1>1. Sizes \subseteq Nat /\ Sizes # {}
  BY FS_CardinalityType
<1>2. PICK n \in Sizes : \A m \in Sizes : ~ (<<m, n>> \in OpToRel(<, Nat))
  <2> HIDE DEF Sizes
  <2>1. IsWellFoundedOn(OpToRel(<, Nat), Nat)
    BY NatLessThanWellFounded
  <2> QED BY <1>1, <2>1, WFMin
<1>3. \A m \in Sizes : n <= m
  <2> SUFFICES ASSUME NEW m \in Sizes, ~ (n <= m) PROVE FALSE
    OBVIOUS
  <2> HIDE DEF Sizes
  <2>1. <<m, n>> \in Nat \X Nat /\ <<m, n>>[1] < <<m, n>>[2]
    BY <1>1
  <2>2. <<m, n>> \in OpToRel(<, Nat)
    BY <2>1, Zenon DEF OpToRel
  <2> QED BY <1>2, <2>2
<1> QED BY <1>3

\* The function at a subset, by the definition.
LEMMA IterAt ==
  ASSUME NEW f, NEW S, NEW g, Iter(g, f, S), NEW T \in SUBSET S
  PROVE  /\ T = {} => g[T] = 0
         /\ T # {} => Pick(T) \in T /\ g[T] = f[Pick(T)] + g[T \ {Pick(T)}]
BY DEF Iter, Pick

\* Taking an element out makes a finite set smaller.
LEMMA Smaller ==
  ASSUME NEW T, IsFiniteSet(T), NEW x \in T
  PROVE  /\ IsFiniteSet(T \ {x}) /\ Cardinality(T \ {x}) \in Nat /\ Cardinality(T) \in Nat
         /\ ~ (Cardinality(T) <= Cardinality(T \ {x}))
BY FS_RemoveElement, FS_CardinalityType

\* Two such functions agree where their summands do: on a smallest subset where they
\* did not, they would not either without the element picked.
LEMMA IterAgree ==
  ASSUME NEW f, NEW S, NEW g, Iter(g, f, S), IsFiniteSet(S),
         NEW e, NEW R, NEW h, Iter(h, e, R), S \subseteq R, \A x \in S : f[x] = e[x]
  PROVE \A T \in SUBSET S : g[T] = h[T]
<1> DEFINE Bad == {T \in SUBSET S : g[T] # h[T]}
<1> SUFFICES ASSUME Bad # {} PROVE FALSE
  OBVIOUS
<1>1. \A T \in Bad : IsFiniteSet(T)
  BY FS_Subset
<1>2. PICK T \in Bad : \A U \in Bad : Cardinality(T) <= Cardinality(U)
  <2> HIDE DEF Bad
  <2> QED BY <1>1, SmallestCard
<1>3. T \in SUBSET S /\ T \in SUBSET R /\ g[T] # h[T]
  OBVIOUS
<1>4. T # {}
  <2>1. {} \in SUBSET S /\ {} \in SUBSET R
    OBVIOUS
  <2>2. g[{}] = 0
    BY <2>1 DEF Iter
  <2>3. h[{}] = 0
    BY <2>1 DEF Iter
  <2> QED BY <1>3, <2>2, <2>3
<1> DEFINE x == Pick(T)
<1>5. x \in T /\ g[T] = f[x] + g[T \ {x}] /\ h[T] = e[x] + h[T \ {x}]
  BY <1>3, <1>4, IterAt
<1>6. ~ (T \ {x} \in Bad)
  <2> HIDE DEF Bad, x
  <2> QED BY <1>1, <1>2, <1>5, Smaller
<1>7. g[T \ {x}] = h[T \ {x}]
  BY <1>6
<1>8. f[x] = e[x]
  BY <1>5, <1>3
<1> QED BY <1>3, <1>5, <1>7, <1>8

\* There is such a function: over the smallest subset without one it is put together
\* from those of the subsets below it.
LEMMA IterExists ==
  ASSUME NEW f, NEW S, IsFiniteSet(S)
  PROVE \E g : Iter(g, f, S)
<1> DEFINE Bad == {T \in SUBSET S : ~ \E g : Iter(g, f, T)}
<1> SUFFICES ASSUME Bad # {} PROVE FALSE
  OBVIOUS
<1>1. \A T \in SUBSET S : IsFiniteSet(T)
  BY FS_Subset
<1>2. PICK T \in Bad : \A U \in Bad : Cardinality(T) <= Cardinality(U)
  <2> \A U \in Bad : IsFiniteSet(U)
    BY <1>1
  <2> HIDE DEF Bad
  <2> QED BY SmallestCard
<1>3. T \in SUBSET S /\ ~ \E g : Iter(g, f, T)
  OBVIOUS
<1> DEFINE It(U) == CHOOSE g : Iter(g, f, U)
           Val(U) == It(U)[U]
           all == [U \in SUBSET T |-> IF U = {} THEN 0 ELSE f[Pick(U)] + Val(U \ {Pick(U)})]
\* every smaller set has its function
<1>4. ASSUME NEW U \in SUBSET T, U # T PROVE Iter(It(U), f, U)
  <2>1. IsFiniteSet(T) /\ U \subseteq T
    BY <1>1, <1>3
  <2>2. Cardinality(U) < Cardinality(T) /\ Cardinality(U) \in Nat /\ Cardinality(T) \in Nat
    BY <2>1, <1>4, FS_Subset, FS_CardinalityType
  <2>3. ~ (U \in Bad)
    <3> HIDE DEF Bad, It
    <3> QED BY <1>2, <2>2
  <2>4. \E g : Iter(g, f, U)
    BY <2>1, <2>3, <1>3
  <2> QED BY <2>4
<1>5. \A U \in SUBSET T : U # {} => Pick(U) \in U
  BY DEF Pick
<1>6. ASSUME NEW U \in SUBSET T, U # T PROVE all[U] = Val(U)
  <2>1. Iter(It(U), f, U)
    BY <1>4, <1>6
  <2> HIDE DEF It
  <2>2. CASE U = {}
    BY <2>1, <2>2, IterAt
  <2>3. CASE U # {}
    <3> DEFINE V == U \ {Pick(U)}
    <3>1. V \in SUBSET U /\ V # T /\ V \in SUBSET T /\ Pick(U) \in U
      BY <1>5, <2>3, <1>6
    <3>2. Iter(It(V), f, V)
      BY <3>1, <1>4
    <3>3. It(U)[U] = f[Pick(U)] + It(U)[V]
      BY <2>1, <2>3, IterAt
    <3>4. It(V)[V] = It(U)[V]
      <4>1. IsFiniteSet(V) /\ V \subseteq U /\ V \in SUBSET V
        BY <1>1, <1>3, <3>1, FS_Subset
      <4> HIDE DEF V
      <4> QED BY <2>1, <3>2, <4>1, IterAgree
    <3>5. all[U] = f[Pick(U)] + Val(V)
      BY <2>3
    <3> QED BY <3>3, <3>4, <3>5
  <2> QED BY <2>2, <2>3
<1>7. Iter(all, f, T)
  <2>1. \A U \in SUBSET T : U # {} => all[U \ {Pick(U)}] = Val(U \ {Pick(U)})
    <3> SUFFICES ASSUME NEW U \in SUBSET T, U # {} PROVE all[U \ {Pick(U)}] = Val(U \ {Pick(U)})
      OBVIOUS
    <3>1. U \ {Pick(U)} \in SUBSET T /\ U \ {Pick(U)} # T
      BY <1>5
    <3> HIDE DEF Val, all
    <3> QED BY <3>1, <1>6
  <2>2. all = [U \in SUBSET T |-> IF U = {} THEN 0 ELSE f[Pick(U)] + all[U \ {Pick(U)}]]
    <3> HIDE DEF Val
    <3>1. all = [U \in SUBSET T |-> IF U = {} THEN 0 ELSE f[Pick(U)] + Val(U \ {Pick(U)})]
      OBVIOUS
    <3> HIDE DEF all
    <3> QED BY <2>1, <3>1
  <2> HIDE DEF all
  <2> QED BY <2>2 DEF Iter
<1> QED BY <1>3, <1>7

\* The recursive equation of Total.
LEMMA TotalStep ==
  ASSUME NEW f, NEW S, IsFiniteSet(S)
  PROVE  /\ S = {} => Total(f, S) = 0
         /\ S # {} => Pick(S) \in S /\ Total(f, S) = f[Pick(S)] + Total(f, S \ {Pick(S)})
<1> DEFINE It(U) == CHOOSE g : Iter(g, f, U)
<1>1. \A U : Total(f, U) = It(U)[U]
  BY TotalIs
<1>2. \A U : IsFiniteSet(U) => Iter(It(U), f, U)
  BY IterExists
<1> HIDE DEF It
<1>3. S = {} => Total(f, S) = 0
  <2>1. It({})[{}] = 0 /\ Total(f, {}) = It({})[{}]
    <3>1. Iter(It({}), f, {}) /\ {} \in SUBSET {}
      BY <1>2, FS_EmptySet
    <3> QED BY <1>1, <3>1, IterAt
  <2> QED BY <2>1
<1>4. ASSUME S # {}
      PROVE  Pick(S) \in S /\ Total(f, S) = f[Pick(S)] + Total(f, S \ {Pick(S)})
  <2> DEFINE V == S \ {Pick(S)}
  <2>1. It(S)[S] = f[Pick(S)] + It(S)[V] /\ Pick(S) \in S
    BY <1>2, <1>4, IterAt
  <2>2. IsFiniteSet(V) /\ V \subseteq S /\ V \in SUBSET V
    BY FS_Subset
  <2>3. It(V)[V] = It(S)[V]
    <3> HIDE DEF V
    <3> QED BY <1>2, <2>2, IterAgree
  <2> QED BY <1>1, <1>4, <2>1, <2>3
<1> QED BY <1>3, <1>4

\* Equal summands have equal totals.
LEMMA TotalAgrees ==
  ASSUME NEW f, NEW e, NEW S, IsFiniteSet(S), \A x \in S : f[x] = e[x]
  PROVE  Total(f, S) = Total(e, S)
<1> DEFINE It(d) == CHOOSE g : Iter(g, d, S)
<1>1. \A d : Total(d, S) = It(d)[S] /\ Iter(It(d), d, S)
  BY TotalIs, IterExists
<1> HIDE DEF It
<1>2. Iter(It(f), f, S) /\ Iter(It(e), e, S)
  BY <1>1
<1>3. \A T \in SUBSET S : It(f)[T] = It(e)[T]
  BY <1>2, IterAgree
<1> QED BY <1>1, <1>3

\* The total of naturals is one.
LEMMA TotalIsNat ==
  ASSUME NEW f, NEW S, IsFiniteSet(S), \A x \in S : f[x] \in Nat
  PROVE  Total(f, S) \in Nat
<1> DEFINE Bad == {T \in SUBSET S : Total(f, T) \notin Nat}
<1> SUFFICES ASSUME Bad # {} PROVE FALSE
  OBVIOUS
<1>1. \A T \in SUBSET S : IsFiniteSet(T)
  BY FS_Subset
<1>2. PICK T \in Bad : \A U \in Bad : Cardinality(T) <= Cardinality(U)
  <2> \A U \in Bad : IsFiniteSet(U)
    BY <1>1
  <2> HIDE DEF Bad
  <2> QED BY SmallestCard
<1>3. T \in SUBSET S /\ IsFiniteSet(T) /\ Total(f, T) \notin Nat
  BY <1>1
<1>4. T # {}
  <2>1. Total(f, {}) = 0
    BY FS_EmptySet, TotalStep
  <2> QED BY <1>3, <2>1
<1>5. Pick(T) \in T /\ Total(f, T) = f[Pick(T)] + Total(f, T \ {Pick(T)})
  BY <1>3, <1>4, TotalStep
<1>6. ~ (T \ {Pick(T)} \in Bad)
  <2> HIDE DEF Bad
  <2> QED BY <1>2, <1>3, <1>5, Smaller
<1> QED BY <1>3, <1>5, <1>6

\* Any element can be taken out first, not only the one picked.
LEMMA TotalWithout ==
  ASSUME NEW f, NEW S, IsFiniteSet(S), \A x \in S : f[x] \in Nat
  PROVE  \A x \in S : Total(f, S) = f[x] + Total(f, S \ {x})
<1> DEFINE Holds(T) == \A x \in T : Total(f, T) = f[x] + Total(f, T \ {x})
           Bad == {T \in SUBSET S : ~ Holds(T)}
<1> SUFFICES ASSUME Bad # {} PROVE FALSE
  OBVIOUS
<1>1. \A T \in SUBSET S : IsFiniteSet(T)
  BY FS_Subset
<1>2. PICK T \in Bad : \A U \in Bad : Cardinality(T) <= Cardinality(U)
  <2> \A U \in Bad : IsFiniteSet(U)
    BY <1>1
  <2> HIDE DEF Bad
  <2> QED BY SmallestCard
<1>3. T \in SUBSET S /\ IsFiniteSet(T) /\ ~ Holds(T)
  BY <1>1
<1>4. PICK x \in T : Total(f, T) # f[x] + Total(f, T \ {x})
  BY <1>3
<1> DEFINE c == Pick(T)
<1>5. c \in T /\ Total(f, T) = f[c] + Total(f, T \ {c})
  BY <1>3, <1>4, TotalStep
<1>6. x # c
  BY <1>4, <1>5
<1>7. \A y \in T : Holds(T \ {y})
  <2> SUFFICES ASSUME NEW y \in T PROVE Holds(T \ {y})
    OBVIOUS
  <2>1. ~ (T \ {y} \in Bad)
    <3> HIDE DEF Bad
    <3> QED BY <1>2, <1>3, Smaller
  <2>2. T \ {y} \in SUBSET S
    BY <1>3
  <2> HIDE DEF Holds
  <2> QED BY <2>1, <2>2
<1> HIDE DEF c
<1>8. Total(f, T \ {c}) = f[x] + Total(f, (T \ {c}) \ {x})
  <2>1. x \in T \ {c}
    BY <1>4, <1>6
  <2> QED BY <1>5, <1>7, <2>1
<1>9. Total(f, T \ {x}) = f[c] + Total(f, (T \ {x}) \ {c})
  <2>1. c \in T \ {x}
    BY <1>5, <1>6
  <2> QED BY <1>4, <1>7, <2>1
<1>10. (T \ {c}) \ {x} = (T \ {x}) \ {c}
  OBVIOUS
<1>11. Total(f, (T \ {c}) \ {x}) \in Nat /\ f[x] \in Nat /\ f[c] \in Nat
  <2>1. (T \ {c}) \ {x} \in SUBSET S
    BY <1>3
  <2> QED BY <1>1, <1>3, <1>5, <2>1, TotalIsNat
<1> DEFINE t == Total(f, (T \ {c}) \ {x})
<1>12. Total(f, T) = f[c] + (f[x] + t) /\ Total(f, T \ {x}) = f[c] + t
  BY <1>5, <1>8, <1>9, <1>10
<1> HIDE DEF t
<1>13. f[c] + (f[x] + t) = f[x] + (f[c] + t)
  BY <1>11 DEF t
<1> QED BY <1>4, <1>12, <1>13

\* And any can be added.
LEMMA TotalWith ==
  ASSUME NEW f, NEW S, IsFiniteSet(S), NEW x, x \notin S, \A y \in S \cup {x} : f[y] \in Nat
  PROVE  Total(f, S \cup {x}) = f[x] + Total(f, S)
<1>1. IsFiniteSet(S \cup {x})
  BY FS_AddElement, Zenon
<1>2. (S \cup {x}) \ {x} = S /\ x \in S \cup {x}
  OBVIOUS
<1>3. Total(f, S \cup {x}) = f[x] + Total(f, (S \cup {x}) \ {x})
  BY <1>1, <1>2, TotalWithout
<1> QED BY <1>2, <1>3

--------------------------------------------------------------------------------
(***************************************************************************)
(* The stand                                                               *)
(***************************************************************************)
\* How far a refill and its lines have come, together.
CallsFit ==
    \A r \in Refills :
        /\ callerPc[r] \in {"idle", "findUnit", "createUnit", "order"} =>
              \A l \in LinesOf(r) : linePc[l] = "idle"
        /\ callerPc[r] \in {"lines", "snapshot", "done"} => r \in orders
        /\ callerPc[r] \in {"snapshot", "done"} => AllDone(r)

LinesFit ==
    \A l \in Lines :
        /\ linePc[l] = "done" <=> l \in stocked
        /\ linePc[l] \in {"find", "increment", "create", "done"} => l \in booked
        /\ linePc[l] = "increment" => found[l] \in RowsOf(Product(l))

RowsFit == stockRows \subseteq stocked /\ IsFiniteSet(stocked)

\* A product that no two lines found missing at once has one row at most, and no
\* second one on its way; so has the location its unit.
LoneRows ==
    \A p \in Products \ twins :
        /\ \A k, l \in RowsOf(p) : k = l
        /\ \A l \in Lines : linePc[l] = "create" /\ Product(l) = p =>
              /\ RowsOf(p) = {}
              /\ \A k \in Lines : linePc[k] = "create" /\ Product(k) = p => k = l
LoneUnit ==
    Opening \notin twins =>
        /\ \A c, d \in units : c = d
        /\ \A c \in Callers : callerPc[c] = "createUnit" =>
              /\ units = {}
              /\ \A d \in Callers : callerPc[d] = "createUnit" => d = c

Amount == [l \in Lines |-> line[l].quantity]
StockedOf(p) == {l \in stocked : Product(l) = p}
StockAddsUp == \A p \in Products : Total(quantity, RowsOf(p)) = Total(Amount, StockedOf(p))

StandInv == /\ StandTypeOK /\ CallsFit /\ LinesFit /\ RowsFit
            /\ LoneRows /\ LoneUnit /\ StockAddsUp

\* It holds when the location has been made and no refill has come.
LEMMA StandInitInv == StandInit => StandInv
<1> SUFFICES ASSUME StandInit PROVE StandInv
  OBVIOUS
<1>1. StandTypeOK
  BY RefillsAssumption DEF StandInit, StandTypeOK, Callers, CallerPhases, LinePhases
<1>2. CallsFit /\ LinesFit
  BY RefillsAssumption DEF StandInit, CallsFit, LinesFit, Callers, Lines, LinesOf
<1>3. RowsFit
  BY FS_EmptySet DEF StandInit, RowsFit
<1>4. LoneRows /\ LoneUnit
  BY DEF StandInit, LoneRows, LoneUnit, RowsOf
<1>5. StockAddsUp
  <2>1. \A p \in Products : RowsOf(p) = {} /\ StockedOf(p) = {}
    BY DEF StandInit, RowsOf, StockedOf
  <2>2. \A f : Total(f, {}) = 0
    BY FS_EmptySet, TotalStep
  <2> QED BY <2>1, <2>2 DEF StockAddsUp
<1> QED BY <1>1, <1>2, <1>3, <1>4, <1>5 DEF StandInv

--------------------------------------------------------------------------------
\* What a line asks for has its type.
LEMMA LineTypes ==
    ASSUME StandTypeOK, NEW l \in Lines
    PROVE  /\ l[1] \in Refills /\ l[1] \in Callers /\ l \in LinesOf(l[1])
           /\ Product(l) \in Products /\ line[l].quantity \in Nat
           /\ Amount[l] = line[l].quantity
BY RefillsAssumption DEF StandTypeOK, Lines, LinesOf, Callers, Line, Product, Amount

\* The lines of a refill, which is not the call that made the location.
LEMMA LinesOfRefills == \A r \in Refills : LinesOf(r) \subseteq Lines /\ r \in Callers /\ r # Opening
BY RefillsAssumption DEF LinesOf, Lines, Callers

\* Each step keeps the types.
LEMMA StandTypeStep == StandTypeOK /\ StandNext => StandTypeOK'
<1> SUFFICES ASSUME StandTypeOK, StandNext PROVE StandTypeOK'
  OBVIOUS
<1> USE DEF StandTypeOK, ToPhase, LineTo, StockUnchanged, CallerPhases, LinePhases
<1>1. ASSUME NEW r \in Refills, RefillStep(r) PROVE StandTypeOK'
  <2>1. CASE CreateRefill(r) BY <2>1 DEF CreateRefill
  <2>2. CASE CreateOrder(r) BY <2>2 DEF CreateOrder
  <2>3. CASE AwaitLines(r) BY <2>3 DEF AwaitLines
  <2>4. CASE Answer(r) BY <2>4 DEF Answer
  <2> QED BY <1>1, <2>1, <2>2, <2>3, <2>4 DEF RefillStep
<1>2. ASSUME NEW c \in Callers, UnitStep(c) PROVE StandTypeOK'
  <2>1. CASE FindUnit(c) BY <2>1 DEF FindUnit, AfterUnit
  <2>2. CASE CreateUnit(c) BY <2>2 DEF CreateUnit, AfterUnit
  <2>3. CASE FailRefill(c) BY <2>3 DEF FailRefill
  <2> QED BY <1>2, <2>1, <2>2, <2>3 DEF UnitStep
<1>3. ASSUME NEW l \in Lines, LineStep(l) PROVE StandTypeOK'
  <2> USE LineTypes
  <2>1. CASE CreateItem(l) BY <2>1 DEF CreateItem
  <2>2. CASE FindStock(l) BY <2>2 DEF FindStock, RowsOf
  <2>3. CASE IncrementStock(l)
    <3>1. \A k \in Lines : quantity[k] + line[l].quantity \in Nat
      OBVIOUS
    <3>2. quantity' \in [Lines -> Nat]
      BY <2>3, <3>1 DEF IncrementStock
    <3> QED BY <2>3, <3>2 DEF IncrementStock
  <2>4. CASE CreateStock(l) BY <2>4 DEF CreateStock
  <2>5. CASE FailLine(l) BY <2>5 DEF FailLine
  <2> QED BY <1>3, <2>1, <2>2, <2>3, <2>4, <2>5 DEF LineStep
<1>4. CASE Crash
  BY <1>4 DEF Crash
<1> QED BY <1>1, <1>2, <1>3, <1>4 DEF StandNext

\* A refill waits for all its lines, and they begin with its order.
LEMMA CallsStep == StandInv /\ StandNext => CallsFit'
<1> SUFFICES ASSUME StandInv, StandNext, NEW r \in Refills
             PROVE  /\ callerPc'[r] \in {"idle", "findUnit", "createUnit", "order"} =>
                          \A l \in LinesOf(r) : linePc'[l] = "idle"
                    /\ callerPc'[r] \in {"lines", "snapshot", "done"} => r \in orders'
                    /\ callerPc'[r] \in {"snapshot", "done"} => \A l \in LinesOf(r) : linePc'[l] = "done"
  BY DEF CallsFit, AllDone
<1> USE DEF StandInv, StandTypeOK, ToPhase, LineTo, StockUnchanged, CallsFit, AllDone
<1>0. LinesOf(r) \subseteq Lines /\ r \in Callers /\ r # Opening
  BY LinesOfRefills
<1>1. ASSUME NEW q \in Refills, RefillStep(q)
      PROVE  /\ callerPc'[r] \in {"idle", "findUnit", "createUnit", "order"} =>
                   \A l \in LinesOf(r) : linePc'[l] = "idle"
             /\ callerPc'[r] \in {"lines", "snapshot", "done"} => r \in orders'
             /\ callerPc'[r] \in {"snapshot", "done"} => \A l \in LinesOf(r) : linePc'[l] = "done"
  <2> USE <1>0
  <2>1. CASE CreateRefill(q) BY <2>1 DEF CreateRefill
  <2>2. CASE CreateOrder(q) BY <2>2 DEF CreateOrder, LinesOf
  <2>3. CASE AwaitLines(q) BY <2>3 DEF AwaitLines
  <2>4. CASE Answer(q) BY <2>4 DEF Answer
  <2> QED BY <1>1, <2>1, <2>2, <2>3, <2>4 DEF RefillStep
<1>2. ASSUME NEW c \in Callers, UnitStep(c)
      PROVE  /\ callerPc'[r] \in {"idle", "findUnit", "createUnit", "order"} =>
                   \A l \in LinesOf(r) : linePc'[l] = "idle"
             /\ callerPc'[r] \in {"lines", "snapshot", "done"} => r \in orders'
             /\ callerPc'[r] \in {"snapshot", "done"} => \A l \in LinesOf(r) : linePc'[l] = "done"
  <2> USE <1>0
  <2>1. CASE FindUnit(c) BY <2>1 DEF FindUnit, AfterUnit
  <2>2. CASE CreateUnit(c) BY <2>2 DEF CreateUnit, AfterUnit
  <2>3. CASE FailRefill(c) BY <2>3 DEF FailRefill
  <2> QED BY <1>2, <2>1, <2>2, <2>3 DEF UnitStep
<1>3. ASSUME NEW l \in Lines, LineStep(l)
      PROVE  /\ callerPc'[r] \in {"idle", "findUnit", "createUnit", "order"} =>
                   \A k \in LinesOf(r) : linePc'[k] = "idle"
             /\ callerPc'[r] \in {"lines", "snapshot", "done"} => r \in orders'
             /\ callerPc'[r] \in {"snapshot", "done"} => \A k \in LinesOf(r) : linePc'[k] = "done"
  <2>1. linePc[l] \notin {"idle", "done", "failed"}
    BY <1>3 DEF LineStep, CreateItem, FindStock, IncrementStock, CreateStock, FailLine
  <2>2. \A k \in LinesOf(r) : k = l => callerPc[r] \notin {"idle", "findUnit", "createUnit", "order", "snapshot", "done"}
    BY <2>1
  <2>3. \A k \in Lines \ {l} : linePc'[k] = linePc[k]
    BY <1>3 DEF LineStep, CreateItem, FindStock, IncrementStock, CreateStock, FailLine
  <2>4. /\ callerPc'[r] = callerPc[r] \/ callerPc'[r] = "failed"
        /\ orders' = orders
    BY <1>0, <1>3 DEF LineStep, CreateItem, FindStock, IncrementStock, CreateStock, FailLine
  <2> QED BY <1>0, <2>2, <2>3, <2>4
<1>4. ASSUME Crash
      PROVE  /\ callerPc'[r] \in {"idle", "findUnit", "createUnit", "order"} =>
                   \A l \in LinesOf(r) : linePc'[l] = "idle"
             /\ callerPc'[r] \in {"lines", "snapshot", "done"} => r \in orders'
             /\ callerPc'[r] \in {"snapshot", "done"} => \A l \in LinesOf(r) : linePc'[l] = "done"
  BY <1>0, <1>4 DEF Crash
<1> QED BY <1>1, <1>2, <1>3, <1>4 DEF StandNext

\* The steps that are no step of a line leave the lines alone, or fail or begin them.
LEMMA OtherSteps ==
    ASSUME StandInv, StandNext, ~ \E l \in Lines : LineStep(l)
    PROVE  /\ UNCHANGED <<line, booked, stockRows, quantity, found, stocked>>
           /\ \A l \in Lines : \/ linePc'[l] = linePc[l]
                               \/ linePc[l] = "idle" /\ linePc'[l] = "item"
                               \/ linePc[l] \notin {"idle", "done"} /\ linePc'[l] = "failed"
<1> USE DEF StandInv, StandTypeOK, ToPhase, StockUnchanged
<1>1. ASSUME NEW r \in Refills, RefillStep(r)
      PROVE  /\ UNCHANGED <<line, booked, stockRows, quantity, found, stocked>>
             /\ \A l \in Lines : \/ linePc'[l] = linePc[l]
                                 \/ linePc[l] = "idle" /\ linePc'[l] = "item"
  <2>1. CASE CreateOrder(r)
    <3>1. callerPc[r] = "order"
      BY <2>1 DEF CreateOrder
    <3>2. \A l \in LinesOf(r) : linePc[l] = "idle"
      BY <3>1 DEF CallsFit
    <3> QED BY <2>1, <3>2 DEF CreateOrder
  <2>2. CASE CreateRefill(r) \/ AwaitLines(r) \/ Answer(r)
    BY <2>2 DEF CreateRefill, AwaitLines, Answer
  <2> QED BY <1>1, <2>1, <2>2 DEF RefillStep
<1>2. ASSUME NEW c \in Callers, UnitStep(c)
      PROVE  UNCHANGED <<linePc, line, booked, stockRows, quantity, found, stocked>>
  BY <1>2 DEF UnitStep, FindUnit, CreateUnit, FailRefill
<1>3. ASSUME Crash
      PROVE  /\ UNCHANGED <<line, booked, stockRows, quantity, found, stocked>>
             /\ \A l \in Lines : \/ linePc'[l] = linePc[l]
                                 \/ linePc[l] \notin {"idle", "done"} /\ linePc'[l] = "failed"
  BY <1>3 DEF Crash
<1> QED BY <1>1, <1>2, <1>3 DEF StandNext

\* A line that has been stocked is done and booked, and the row it found stays.
LEMMA LinesStep == StandInv /\ StandNext => LinesFit' /\ RowsFit'
<1> SUFFICES ASSUME StandInv, StandNext PROVE LinesFit' /\ RowsFit'
  OBVIOUS
<1> USE DEF StandInv, StandTypeOK, LinesFit, RowsFit, LineTo, StockUnchanged
<1>0. \A l : IsFiniteSet(stocked \cup {l})
  <2>1. IsFiniteSet(stocked)
    BY DEF RowsFit
  <2> QED BY <2>1, FS_AddElement, Zenon
<1>1. ASSUME NEW l \in Lines, LineStep(l) PROVE LinesFit' /\ RowsFit'
  <2>1. CASE CreateItem(l) BY <2>1 DEF CreateItem, RowsOf, Product
  <2>2. CASE FindStock(l) BY <2>2 DEF FindStock, RowsOf, Product
  <2>3. CASE IncrementStock(l)
    <3>1. IsFiniteSet(stocked') /\ stocked' = stocked \cup {l}
      BY <1>0, <2>3 DEF IncrementStock
    <3> QED BY <2>3, <3>1 DEF IncrementStock, RowsOf, Product
  <2>4. CASE CreateStock(l)
    <3>1. IsFiniteSet(stocked') /\ stocked' = stocked \cup {l}
      BY <1>0, <2>4 DEF CreateStock
    <3> QED BY <2>4, <3>1 DEF CreateStock, RowsOf, Product
  <2>5. CASE FailLine(l) BY <2>5 DEF FailLine, RowsOf, Product
  <2> QED BY <1>1, <2>1, <2>2, <2>3, <2>4, <2>5 DEF LineStep
<1>2. CASE ~ \E l \in Lines : LineStep(l)
  <2>1. UNCHANGED <<line, booked, stockRows, quantity, found, stocked>>
    BY <1>2, OtherSteps
  <2>2. \A l \in Lines : \/ linePc'[l] = linePc[l]
                         \/ linePc[l] = "idle" /\ linePc'[l] = "item"
                         \/ linePc[l] \notin {"idle", "done"} /\ linePc'[l] = "failed"
    BY <1>2, OtherSteps
  <2> QED BY <2>1, <2>2 DEF RowsOf, Product
<1> QED BY <1>1, <1>2

\* A second row of a product is begun only by a line that is noted with its twin.
LEMMA LoneRowsStep == StandInv /\ StandNext => LoneRows'
<1> SUFFICES ASSUME StandInv, StandNext PROVE LoneRows'
  OBVIOUS
<1> USE DEF StandInv, StandTypeOK, LoneRows, LineTo, StockUnchanged, RowsOf, Product
<1>1. ASSUME NEW l \in Lines, LineStep(l) PROVE LoneRows'
  <2>1. CASE CreateItem(l) BY <2>1 DEF CreateItem
  <2>2. CASE FindStock(l)
    <3>1. twins \subseteq twins' /\ UNCHANGED <<stockRows, line>>
      BY <2>2 DEF FindStock
    <3>2. \A k \in Lines \ {l} : linePc'[k] = linePc[k]
      BY <2>2 DEF FindStock
    <3>3. linePc'[l] = "create" => RowsOf(Product(l)) = {}
      BY <2>2 DEF FindStock
    <3>4. linePc'[l] = "create" =>
            \/ Product(l) \in twins'
            \/ \A k \in Lines \ {l} : ~ (linePc[k] = "create" /\ Product(k) = Product(l))
      BY <2>2, <3>3 DEF FindStock
    <3> QED BY <3>1, <3>2, <3>3, <3>4
  <2>3. CASE IncrementStock(l) BY <2>3 DEF IncrementStock
  <2>4. CASE CreateStock(l) BY <2>4 DEF CreateStock
  <2>5. CASE FailLine(l) BY <2>5 DEF FailLine
  <2> QED BY <1>1, <2>1, <2>2, <2>3, <2>4, <2>5 DEF LineStep
<1>2. CASE ~ \E l \in Lines : LineStep(l)
  <2>1. UNCHANGED <<line, stockRows>>
    BY <1>2, OtherSteps
  <2>2. \A l \in Lines : linePc'[l] = "create" => linePc[l] = "create"
    BY <1>2, OtherSteps
  <2>3. twins \subseteq twins'
    BY <1>2 DEF StandNext, RefillStep, UnitStep, CreateRefill, CreateOrder, AwaitLines, Answer,
                FindUnit, CreateUnit, FailRefill, Crash
  <2> QED BY <2>1, <2>2, <2>3
<1> QED BY <1>1, <1>2

\* So is a second unit of the location.
LEMMA LoneUnitStep == StandInv /\ StandNext => LoneUnit'
<1> SUFFICES ASSUME StandInv, StandNext PROVE LoneUnit'
  OBVIOUS
<1> USE DEF StandInv, StandTypeOK, LoneUnit, ToPhase, AfterUnit
<1>1. ASSUME NEW c \in Callers, UnitStep(c) PROVE LoneUnit'
  <2>1. CASE FindUnit(c)
    <3>1. twins \subseteq twins' /\ units' = units
      BY <2>1 DEF FindUnit
    <3>2. \A d \in Callers \ {c} : callerPc'[d] = callerPc[d]
      BY <2>1 DEF FindUnit
    <3>3. callerPc'[c] = "createUnit" =>
             /\ units = {}
             /\ \/ Opening \in twins'
                \/ \A d \in Callers \ {c} : callerPc[d] # "createUnit"
      BY <2>1 DEF FindUnit
    <3> QED BY <3>1, <3>2, <3>3
  <2>2. CASE CreateUnit(c) BY <2>2 DEF CreateUnit
  <2>3. CASE FailRefill(c) BY <2>3 DEF FailRefill
  <2> QED BY <1>1, <2>1, <2>2, <2>3 DEF UnitStep
<1>2. ASSUME ~ \E c \in Callers : UnitStep(c) PROVE LoneUnit'
  <2>1. units' = units /\ twins \subseteq twins'
    BY <1>2 DEF StandNext, RefillStep, LineStep, CreateRefill, CreateOrder, AwaitLines, Answer,
                CreateItem, FindStock, IncrementStock, CreateStock, FailLine, Crash
  <2>2. \A c \in Callers : callerPc'[c] = "createUnit" => callerPc[c] = "createUnit"
    BY <1>2 DEF StandNext, RefillStep, LineStep, CreateRefill, CreateOrder, AwaitLines, Answer,
                CreateItem, FindStock, IncrementStock, CreateStock, FailLine, Crash
  <2> QED BY <2>1, <2>2
<1> QED BY <1>1, <1>2

\* What a line adds to a row of its product, it adds to what was stocked of the product.
LEMMA StockedMore ==
    ASSUME StandInv, NEW l \in Lines, linePc[l] # "done", UNCHANGED line,
           stocked' = stocked \cup {l}, stockRows' \in SUBSET Lines,
           quantity' \in [Lines -> Nat],
           \A p \in Products : p # Product(l) =>
               /\ RowsOf(p)' = RowsOf(p)
               /\ \A k \in RowsOf(p) : quantity'[k] = quantity[k],
           \A p \in Products : p = Product(l) =>
               Total(quantity', RowsOf(p)') = line[l].quantity + Total(quantity, RowsOf(p))
    PROVE  StockAddsUp'
<1> USE DEF StandInv
<1>1. Product(l) \in Products /\ line[l].quantity \in Nat /\ Amount[l] = line[l].quantity
  BY LineTypes
<1>2. \A k \in Lines : Amount[k] \in Nat /\ Product(k)' = Product(k)
  BY LineTypes DEF Product
<1>3. Amount' = Amount
  BY DEF Amount
<1>4. \A p \in Products : /\ IsFiniteSet(RowsOf(p)) /\ RowsOf(p) \subseteq Lines
                          /\ IsFiniteSet(StockedOf(p)) /\ StockedOf(p) \subseteq Lines
  <2>1. \A p : RowsOf(p) \subseteq stocked /\ StockedOf(p) \subseteq stocked /\ stocked \subseteq Lines
    BY DEF StandTypeOK, RowsFit, RowsOf, StockedOf
  <2>2. IsFiniteSet(stocked)
    BY DEF RowsFit
  <2>3. \A T \in SUBSET stocked : IsFiniteSet(T)
    BY <2>2, FS_Subset
  <2> QED BY <2>1, <2>3
<1>5. l \notin stocked
  BY DEF LinesFit
<1>6. \A p \in Products : StockedOf(p)' = IF p = Product(l) THEN StockedOf(p) \cup {l} ELSE StockedOf(p)
  BY <1>2 DEF StockedOf, StandTypeOK
<1>7. SUFFICES ASSUME NEW p \in Products
               PROVE  Total(quantity', RowsOf(p)') = Total(Amount, StockedOf(p)')
  BY <1>3 DEF StockAddsUp
<1>8. Total(quantity, RowsOf(p)) = Total(Amount, StockedOf(p))
  BY DEF StockAddsUp
<1>9. CASE p # Product(l)
  <2>1. Total(quantity', RowsOf(p)) = Total(quantity, RowsOf(p))
    <3>1. \A k \in RowsOf(p) : quantity'[k] = quantity[k]
      BY <1>9
    <3> QED BY <1>4, <3>1, TotalAgrees
  <2> QED BY <1>6, <1>8, <1>9, <2>1
<1>10. CASE p = Product(l)
  <2>1. l \notin StockedOf(p) /\ \A y \in StockedOf(p) \cup {l} : Amount[y] \in Nat
    BY <1>2, <1>4, <1>5 DEF StockedOf
  <2>2. Total(Amount, StockedOf(p) \cup {l}) = Amount[l] + Total(Amount, StockedOf(p))
    BY <1>4, <2>1, TotalWith
  <2> QED BY <1>1, <1>6, <1>8, <1>10, <2>2
<1> QED BY <1>9, <1>10

\* An increment or a new row adds to the rows what its line brings.
LEMMA StockAddsUpStep == StandInv /\ StandNext => StockAddsUp'
<1> SUFFICES ASSUME StandInv, StandNext PROVE StockAddsUp'
  OBVIOUS
<1> USE DEF StandInv
<1>1. \A p : RowsOf(p) \subseteq Lines /\ IsFiniteSet(RowsOf(p))
  <2>1. \A p : RowsOf(p) \subseteq stocked /\ stockRows \subseteq Lines /\ RowsOf(p) \subseteq stockRows
    BY DEF RowsFit, RowsOf, StandTypeOK
  <2>2. IsFiniteSet(stocked)
    BY DEF RowsFit
  <2> QED BY <2>1, <2>2, FS_Subset
<1>2. quantity \in [Lines -> Nat] /\ stockRows \subseteq Lines
  BY DEF StandTypeOK
<1>3. StandTypeOK'
  BY StandTypeStep
<1>4. ASSUME NEW l \in Lines, IncrementStock(l) PROVE StockAddsUp'
  <2>0. Product(l) \in Products /\ line[l].quantity \in Nat
    BY LineTypes
  <2>1. PICK p \in Products : p = Product(l)
    BY <2>0
  <2> DEFINE shelf == found[l]
             rest == RowsOf(p) \ {shelf}
  <2>2. linePc[l] = "increment" /\ shelf \in RowsOf(p)
    BY <1>4, <2>1 DEF IncrementStock, LineTo, LinesFit
  <2>3. /\ UNCHANGED <<line, stockRows>> /\ stocked' = stocked \cup {l}
        /\ quantity' = [quantity EXCEPT ![shelf] = @ + line[l].quantity]
    BY <1>4 DEF IncrementStock
  <2>4. \A q : RowsOf(q)' = RowsOf(q)
    BY <2>3 DEF RowsOf, Product
  <2>5. quantity'[shelf] = quantity[shelf] + line[l].quantity /\ \A k \in Lines \ {shelf} : quantity'[k] = quantity[k]
    BY <1>1, <1>2, <2>2, <2>3
  <2>6. quantity' \in [Lines -> Nat]
    BY <1>3 DEF StandTypeOK
  <2>7. rest \subseteq Lines /\ IsFiniteSet(rest) /\ shelf \in Lines /\ shelf \notin rest /\ RowsOf(p) = rest \cup {shelf}
    BY <1>1, <2>2, FS_Subset
  <2> HIDE DEF rest, shelf
  <2>8. Total(quantity', rest) = Total(quantity, rest)
    <3>1. \A k \in rest : quantity'[k] = quantity[k]
      BY <2>5, <2>7
    <3> QED BY <2>7, <3>1, TotalAgrees
  <2>9. Total(quantity', RowsOf(p)) = quantity'[shelf] + Total(quantity', rest)
    <3>1. \A y \in rest \cup {shelf} : quantity'[y] \in Nat
      BY <2>6, <2>7
    <3> QED BY <2>7, <3>1, TotalWith
  <2>10. Total(quantity, RowsOf(p)) = quantity[shelf] + Total(quantity, rest)
    <3>1. \A y \in rest \cup {shelf} : quantity[y] \in Nat
      BY <1>2, <2>7
    <3> QED BY <2>7, <3>1, TotalWith
  <2>11. Total(quantity, rest) \in Nat /\ quantity[shelf] \in Nat
    <3>1. \A y \in rest : quantity[y] \in Nat
      BY <1>2, <2>7
    <3> QED BY <1>2, <2>7, <3>1, TotalIsNat
  <2>12. Total(quantity', RowsOf(p)) = line[l].quantity + Total(quantity, RowsOf(p))
    BY <2>0, <2>5, <2>8, <2>9, <2>10, <2>11
  <2>13. \A q \in Products : q # p => \A k \in RowsOf(q) : quantity'[k] = quantity[k]
    <3>1. \A q : q # p => shelf \notin RowsOf(q)
      BY <2>1, <2>2 DEF RowsOf
    <3> QED BY <1>1, <2>5, <3>1
  <2>14. Total(quantity', RowsOf(p)') = line[l].quantity + Total(quantity, RowsOf(p))
    BY <2>4, <2>12
  <2>15. linePc[l] # "done" /\ stockRows' \in SUBSET Lines
    BY <1>2, <2>2, <2>3
  <2> QED BY <2>1, <2>3, <2>4, <2>6, <2>13, <2>14, <2>15, StockedMore
<1>5. ASSUME NEW l \in Lines, CreateStock(l) PROVE StockAddsUp'
  <2>0. Product(l) \in Products /\ line[l].quantity \in Nat
    BY LineTypes
  <2>1. PICK p \in Products : p = Product(l)
    BY <2>0
  <2>2. /\ linePc[l] = "create" /\ UNCHANGED line
        /\ stocked' = stocked \cup {l} /\ stockRows' = stockRows \cup {l}
        /\ quantity' = [quantity EXCEPT ![l] = line[l].quantity]
    BY <1>5 DEF CreateStock, LineTo
  <2>3. l \notin stockRows
    BY <2>2 DEF LinesFit, RowsFit
  <2>4. \A q : RowsOf(q)' = IF q = p THEN RowsOf(q) \cup {l} ELSE RowsOf(q)
    BY <2>1, <2>2 DEF RowsOf, Product
  <2>5. quantity'[l] = line[l].quantity /\ \A k \in Lines \ {l} : quantity'[k] = quantity[k]
    BY <1>2, <2>2
  <2>6. quantity' \in [Lines -> Nat] /\ stockRows' \in SUBSET Lines
    BY <1>3 DEF StandTypeOK
  <2>7. \A q : l \notin RowsOf(q)
    BY <2>3 DEF RowsOf
  <2>8. \A q : \A k \in RowsOf(q) : quantity'[k] = quantity[k]
    BY <1>1, <2>5, <2>7
  <2>9. Total(quantity', RowsOf(p)) = Total(quantity, RowsOf(p))
    <3>1. \A k \in RowsOf(p) : quantity'[k] = quantity[k]
      BY <2>8
    <3> QED BY <1>1, <3>1, TotalAgrees
  <2>10. Total(quantity', RowsOf(p) \cup {l}) = quantity'[l] + Total(quantity', RowsOf(p))
    <3>1. \A y \in RowsOf(p) \cup {l} : quantity'[y] \in Nat
      BY <1>1, <2>6
    <3> QED BY <1>1, <2>7, <3>1, TotalWith
  <2>11. Total(quantity', RowsOf(p)') = line[l].quantity + Total(quantity, RowsOf(p))
    BY <2>4, <2>5, <2>9, <2>10
  <2>12. linePc[l] # "done"
    BY <2>2
  <2>13. \A q \in Products : q # p => RowsOf(q)' = RowsOf(q)
    BY <2>4
  <2> QED BY <2>1, <2>2, <2>6, <2>8, <2>11, <2>12, <2>13, StockedMore
<1>6. CASE ~ \E l \in Lines : IncrementStock(l) \/ CreateStock(l)
  <2>1. UNCHANGED <<line, stockRows, quantity, stocked>>
    BY <1>6 DEF StandNext, RefillStep, UnitStep, LineStep, CreateRefill, CreateOrder, AwaitLines, Answer,
                FindUnit, CreateUnit, FailRefill, CreateItem, FindStock, FailLine, Crash, StockUnchanged
  <2>2. \A p \in Products : RowsOf(p)' = RowsOf(p) /\ StockedOf(p)' = StockedOf(p)
    BY <2>1 DEF RowsOf, StockedOf, Product
  <2>3. Amount' = Amount
    BY <2>1 DEF Amount
  <2> QED BY <2>1, <2>2, <2>3 DEF StockAddsUp
<1> QED BY <1>4, <1>5, <1>6

\* The invariant holds over every step.
LEMMA StandNextInv == StandInv /\ [StandNext]_standVars => StandInv'
<1> SUFFICES ASSUME StandInv, [StandNext]_standVars PROVE StandInv'
  OBVIOUS
<1>1. CASE StandNext
  BY <1>1, StandTypeStep, CallsStep, LinesStep, LoneRowsStep, LoneUnitStep, StockAddsUpStep DEF StandInv
<1>2. CASE UNCHANGED standVars
  <2>1. UNCHANGED <<callerPc, linePc, line, units, orders, booked, stockRows, quantity, found, stocked, twins>>
    BY <1>2 DEF standVars
  <2>2. StandTypeOK' /\ CallsFit' /\ RowsFit'
    BY <2>1 DEF StandInv, StandTypeOK, CallsFit, RowsFit, AllDone
  <2>3. \A p : RowsOf(p)' = RowsOf(p) /\ StockedOf(p)' = StockedOf(p) /\ Product(p)' = Product(p)
    BY <2>1 DEF RowsOf, StockedOf, Product
  <2>4. LinesFit' /\ LoneRows' /\ LoneUnit'
    BY <2>1, <2>3 DEF StandInv, LinesFit, LoneRows, LoneUnit
  <2>5. StockAddsUp'
    BY <2>1, <2>3 DEF StandInv, StockAddsUp, Amount
  <2> QED BY <2>2, <2>4, <2>5 DEF StandInv
<1> QED BY <1>1, <1>2

\* Hence always.
LEMMA StandInvariance == StandSpec => []StandInv
BY StandInitInv, StandNextInv, PTL DEF StandSpec

\* A set whose elements are all equal has one at most.
LEMMA AtMostOne ==
    ASSUME NEW S, \A x, y \in S : x = y
    PROVE  Cardinality(S) <= 1
<1>1. CASE S = {}
  BY <1>1, FS_EmptySet
<1>2. CASE S # {}
  <2>1. PICK x \in S : TRUE
    BY <1>2
  <2>2. S = {x}
    BY <2>1
  <2> QED BY <2>2, FS_Singleton
<1> QED BY <1>1, <1>2

\* What the run checks of refills follows from the invariant.
LEMMA StockHolds == StandInv => RefillsAreStocked
<1> SUFFICES ASSUME StandInv PROVE RefillsAreStocked
  OBVIOUS
<1> USE DEF StandInv
<1>1. ASSUME NEW p \in Products
      PROVE  /\ Total(quantity, RowsOf(p)) =
                   Total([l \in Lines |-> line[l].quantity], {l \in stocked : Product(l) = p})
             /\ p \notin twins => Cardinality(RowsOf(p)) <= 1
  <2>1. Total(quantity, RowsOf(p)) = Total([l \in Lines |-> line[l].quantity], {l \in stocked : Product(l) = p})
    BY Zenon DEF StockAddsUp, Amount, StockedOf
  <2>2. ASSUME p \notin twins PROVE Cardinality(RowsOf(p)) <= 1
    <3>1. \A k, l \in RowsOf(p) : k = l
      BY <2>2 DEF LoneRows
    <3> QED BY <3>1, AtMostOne
  <2> QED BY <2>1, <2>2
<1>2. ASSUME Opening \notin twins PROVE Cardinality(units) <= 1
  <2>1. \A c, d \in units : c = d
    BY <1>2 DEF LoneUnit
  <2> QED BY <2>1, AtMostOne
<1>3. stocked \subseteq booked
  BY DEF LinesFit, StandTypeOK
<1>4. ASSUME NEW r \in Refills, callerPc[r] \in {"snapshot", "done"}
      PROVE  r \in orders /\ LinesOf(r) \subseteq stocked
  <2>1. r \in orders /\ AllDone(r)
    BY <1>4 DEF CallsFit
  <2> QED BY <2>1, LinesOfRefills DEF AllDone, LinesFit
<1> QED BY <1>1, <1>2, <1>3, <1>4 DEF RefillsAreStocked

\* Calls, lines, rows and units keep their types.
THEOREM StandTypes == StandSpec => []StandTypeOK
BY StandInvariance, PTL DEF StandInv

\* However the lines of any number of refills interleave, fail and are cut short by a
\* crash: the rows of a product add up to what was stocked of it, an answered refill is
\* booked and stocked in full, and a second row or unit had two callers in a race.
THEOREM RefillsStocked == StandSpec => []RefillsAreStocked
BY StandInvariance, StockHolds, PTL

--------------------------------------------------------------------------------
(***************************************************************************)
(* The composition                                                         *)
(***************************************************************************)
\* A step of the composition is a step of one component and none of the others.
LEMMA OneComponentMoves ==
    [Next]_<<active, pricingVars, standVars, accountVars>> =>
        /\ [PricingNext]_pricingVars
        /\ [StandNext]_standVars
        /\ [AccountNext]_accountVars
BY DEF Next

\* The price of a product, the stock of a stand and the accounts share no state: what
\* each does beside the others is what it may do alone, so every theorem about one of
\* them holds of the three together.
THEOREM BusinessComposes == Spec => PricingSpec /\ StandSpec /\ AccountSpec
<1>1. Init => PricingInit /\ StandInit /\ AccountInit
  BY DEF Init
<1> QED BY <1>1, OneComponentMoves, PTL DEF Spec, PricingSpec, StandSpec, AccountSpec

\* Every product, draft, stand, brand and account keeps its type while the three run
\* side by side.
THEOREM BusinessTypes == Spec => []TypeOK
<1>1. PricingTypeOK /\ StandTypeOK /\ AccountTypeOK => TypeOK
  BY DEF TypeOK
<1> QED BY <1>1, BusinessComposes, PricingTypes, StandTypes, AccountTypes, PTL

\* And each keeps its promises there: margins, drafts and removals of the price, the
\* stock of the stand, whole accounts and accounted plans.
THEOREM BusinessSafe ==
    Spec => /\ [](/\ PriceCoversCost /\ ApprovedDraftsAreApplied /\ RefillsAreStocked
                  /\ AccountsAreWhole /\ PlansAreAccounted)
            /\ RemovalsAreWhole
BY BusinessComposes, PricesCover, DraftsAreApplied, Removals, RefillsStocked, Whole, PlansAccounted, PTL
================================================================================
