--------------------------------- MODULE Pricing ---------------------------------
(***************************************************************************)
(* The price of one product: its ProductPricing row (at most one: the      *)
(* product is unique in it), its drafts, its history, and the removal of   *)
(* the product.  Every call reads, checks the margin, and writes the row   *)
(* by its id in a later call to the database; only the removal is a        *)
(* transaction.  The currency of the brand is left out.                    *)
(***************************************************************************)
EXTENDS Integers

CONSTANTS
    Requests,       \* calls of the pricing and product services
    Approvals,      \* those of them that can only approve a draft: a bound
    Drafts,         \* ids of ProductPriceDraft rows
    Prices, Costs,
    Null,           \* a value that is not given, or not set in a row
    MaxRows         \* bound on the rows the product has one after the other

ASSUME MoneyAssumption == /\ Prices \subseteq Nat /\ Costs \subseteq Nat
                          /\ Null \notin Nat /\ MaxRows \in Nat \ {0}

VARIABLES
    exists,         \* whether the product is there
    row,            \* its ProductPricing
    rows,           \* ids given to rows so far
    draft,          \* of each id
    history,        \* whether it has AIPricingHistory rows
    requestPc,      \* the step each call takes next
    request,        \* what it asks for
    seen,           \* the row it has read
    outdated,       \* history: calls under which the row has changed
    unguarded,      \* history: whether the row was written unchecked, or on an outdated check
    applied,        \* history: drafts whose price was written to the row
    halted          \* history: drafts whose approval stopped after its first write

pricingVars == <<exists, row, rows, draft, history, requestPc, request, seen,
                 outdated, unguarded, applied, halted>>

Row == [id : 1..MaxRows, net : Prices \cup {Null}, cost : Costs \cup {Null}]
NoPricing == [id |-> 0, net |-> Null, cost |-> Null]
DraftStatuses == {"DRAFT", "PENDING_APPROVAL", "APPROVED", "REJECTED"}
Draft == [status : DraftStatuses, net : Prices \cup {Null}, born : DraftStatuses]
NoDraft == [status |-> "none", net |-> Null, born |-> "none"]

\* Only the fields a kind of request has are given.
Requested ==
    [kind : {"create"}, net : Prices, cost : Costs]
    \cup [kind : {"update", "import"}, net : Prices \cup {Null}, cost : Costs \cup {Null}]
    \cup [kind : {"delete", "remove", "suggest"}]
    \cup [kind : {"draft"}, draft : Drafts, net : Prices \cup {Null}, status : {"DRAFT", "APPROVED"}]
    \cup [kind : {"submit", "reject", "approve"}, draft : Drafts]

Approval == [kind : {"approve"}, draft : Drafts]
Unasked == [kind |-> "none"]

Kind(x) == request[x].kind
Of(x) == request[x].draft
Mine(x) == draft[Of(x)]

RequestPhases == {"idle", "check", "write", "setStatus", "syncCheck", "syncFind", "syncWrite", "record", "done"}

\* b2cNet ?? 0 and cogsEur ?? 0.
OrZero(v) == IF v = Null THEN 0 ELSE v

Covers(net, cost) == net = Null \/ cost = Null \/ net >= cost
BelowCost(r) == ~Covers(r.net, r.cost)

Target(x, given, had) == IF given = Null THEN OrZero(had) ELSE given

PricingInit ==
    /\ exists = TRUE
    /\ row \in {NoPricing} \cup {r \in [id : {1}, net : Prices, cost : Costs] : ~BelowCost(r)}
    /\ rows = row.id
    /\ history = (row # NoPricing)
    /\ draft \in [Drafts -> {NoDraft} \cup [status : {"DRAFT"}, net : Prices, born : {"DRAFT"}]]
    /\ requestPc = [x \in Requests |-> "idle"]
    /\ request = [x \in Requests |-> Unasked]
    /\ seen = [x \in Requests |-> NoPricing]
    /\ outdated = {} /\ unguarded = FALSE /\ applied = {} /\ halted = {}

Move(x, from, to) == requestPc[x] = from /\ requestPc' = [requestPc EXCEPT ![x] = to]
DataUnchanged == UNCHANGED <<exists, row, rows, draft, history>>
Nothing == DataUnchanged /\ UNCHANGED <<request, seen, outdated, unguarded, applied, halted>>

Changes(x, new) ==
    /\ row' = new
    /\ outdated' = outdated \cup {y \in Requests \ {x} : requestPc[y] \notin {"idle", "done"}}

PricingCall(x) ==
    /\ Move(x, "idle", "check")
    /\ \E r \in IF x \in Approvals THEN Approval ELSE Requested : request' = [request EXCEPT ![x] = r]
    /\ DataUnchanged /\ UNCHANGED <<seen, outdated, unguarded, applied, halted>>

--------------------------------------------------------------------------------
(***************************************************************************)
(* The row                                                                 *)
(***************************************************************************)
\* Mutant: an update is checked on what is given only.
MarginAsGiven(x, had) == Kind(x) \in {"create", "update"} => Covers(request[x].net, request[x].cost)

\* assertNonNegativeMargin in a create or an update.
MarginHolds(x, had) ==
    CASE Kind(x) = "create" -> Covers(request[x].net, request[x].cost)
      [] Kind(x) = "update" -> Covers(Target(x, request[x].net, had.net), Target(x, request[x].cost, had.cost))
      [] OTHER -> TRUE

\* Nothing is given: nothing is written.
Blank(x) == Kind(x) \in {"update", "import"} /\ request[x].net = Null /\ request[x].cost = Null

\* The first reads of create, update, delete and import, and their checks.
CheckRow(x) ==
    LET ok == /\ exists
              /\ Kind(x) = "create" => row = NoPricing
              /\ Kind(x) \in {"update", "delete"} => row # NoPricing
              /\ MarginHolds(x, row) /\ ~Blank(x)
    IN  /\ Kind(x) \in {"create", "update", "delete", "import"}
        /\ Move(x, "check", IF ok THEN "write" ELSE "done")
        /\ seen' = [seen EXCEPT ![x] = row]
        /\ outdated' = outdated \ {x}
        /\ DataUnchanged /\ UNCHANGED <<request, unguarded, applied, halted>>

Merged(x) == [id |-> row.id,
              net |-> IF request[x].net = Null THEN row.net ELSE request[x].net,
              cost |-> IF request[x].cost = Null THEN row.cost ELSE request[x].cost]

\* createPricingRecord, createProductPricing: refused if the product is gone or
\* has got a row meanwhile.
InsertRow(x) ==
    /\ seen[x] = NoPricing /\ Kind(x) \in {"create", "import"}
    /\ exists /\ row = NoPricing /\ rows < MaxRows
    /\ Move(x, "write", IF Kind(x) = "create" THEN "record" ELSE "done")
    /\ Changes(x, [id |-> rows + 1, net |-> request[x].net, cost |-> request[x].cost])
    /\ rows' = rows + 1
    /\ unguarded' = (Kind(x) = "import")
    /\ UNCHANGED <<exists, draft, history, request, seen, applied, halted>>

\* updatePricingRecord, updateProductPricingById: by id.
UpdateRow(x) ==
    /\ Kind(x) \in {"update", "import"}
    /\ seen[x] # NoPricing /\ row.id = seen[x].id
    /\ Move(x, "write", IF Kind(x) = "update" THEN "record" ELSE "done")
    /\ Changes(x, Merged(x))
    /\ unguarded' = (Kind(x) = "import" \/ x \in outdated)
    /\ UNCHANGED <<exists, rows, draft, history, request, seen, applied, halted>>

DeleteRow(x) ==
    /\ Kind(x) = "delete" /\ row.id = seen[x].id
    /\ Move(x, "write", "done")
    /\ Changes(x, NoPricing)
    /\ unguarded' = FALSE
    /\ UNCHANGED <<exists, rows, draft, history, request, seen, applied, halted>>

\* recordHistory, of createAISuggestion and recordAIPlanResult too; refused if the
\* product is gone.
RecordHistory(x) ==
    /\ exists
    /\ \/ Move(x, "record", "done")
       \/ Kind(x) = "suggest" /\ Move(x, "check", "done")
    /\ history' = TRUE
    /\ UNCHANGED <<exists, row, rows, draft, request, seen, outdated, unguarded, applied, halted>>

\* Mutant: the removal is no transaction.
RemovesAnyway(x) == TRUE

\* The foreign key of AIPricingHistory restricts.
Removes(x) == ~history

\* remove: one transaction, refused as a whole.  The product itself stays while it
\* has history.
RemoveProduct(x) ==
    /\ Kind(x) = "remove" /\ exists /\ Removes(x)
    /\ Move(x, "check", "done")
    /\ exists' = history
    /\ Changes(x, NoPricing)
    /\ unguarded' = FALSE
    /\ draft' = [d \in Drafts |-> NoDraft]
    /\ UNCHANGED <<rows, history, request, seen, applied, halted>>

--------------------------------------------------------------------------------
(***************************************************************************)
(* Drafts                                                                  *)
(***************************************************************************)
\* persistDraftEntry: the status is what the payload says.
CheckDraft(x) ==
    /\ Kind(x) = "draft" /\ Mine(x) = NoDraft
    /\ Move(x, "check", IF exists /\ Covers(request[x].net, row.cost) THEN "write" ELSE "done")
    /\ Nothing

CreateDraft(x) ==
    /\ Kind(x) = "draft" /\ exists /\ Mine(x) = NoDraft
    /\ Move(x, "write", "done")
    /\ draft' = [draft EXCEPT ![Of(x)] =
                    [status |-> request[x].status, net |-> request[x].net, born |-> request[x].status]]
    /\ UNCHANGED <<exists, row, rows, history, request, seen, outdated, unguarded, applied, halted>>

\* updateDraftStatus, to its write.
CheckStatus(x) ==
    LET ok == /\ exists /\ Mine(x) # NoDraft
              /\ Kind(x) # "reject" => Covers(Mine(x).net, row.cost)
    IN  /\ Kind(x) \in {"submit", "reject", "approve"}
        /\ Move(x, "check", IF ok THEN "setStatus" ELSE "done")
        /\ outdated' = outdated \ {x}
        /\ DataUnchanged /\ UNCHANGED <<request, seen, unguarded, applied, halted>>

\* Mutant: the name of the request is written as the status.
NewStatusAsAsked(x) == Kind(x)

NewStatus(x) == CASE Kind(x) = "submit" -> "PENDING_APPROVAL"
                  [] Kind(x) = "reject" -> "REJECTED"
                  [] OTHER -> "APPROVED"

\* Mutant: a price of zero counts as none.
PricedAboveZero(x) == Mine(x).net # Null /\ Mine(x).net # 0

Priced(x) == Mine(x).net # Null

\* The status is written whatever it is by now; an approval goes on to
\* applyDraftPricingSync.
SetStatus(x) ==
    /\ Kind(x) \in {"submit", "reject", "approve"}
    /\ Move(x, "setStatus", IF Kind(x) = "approve" /\ Priced(x) THEN "syncCheck" ELSE "done")
    /\ Mine(x) # NoDraft
    /\ draft' = [draft EXCEPT ![Of(x)].status = NewStatus(x)]
    /\ UNCHANGED <<exists, row, rows, history, request, seen, outdated, unguarded, applied, halted>>

\* applyDraftPricingSync and syncPricingFromDraft.  A draft that is gone went with
\* its product, and every write that follows is refused.
Approved(x) == Mine(x).net

SyncCheck(x) ==
    LET ok == Covers(Approved(x), row.cost)
    IN  /\ Kind(x) = "approve" /\ Mine(x) # NoDraft
        /\ Move(x, "syncCheck", IF ok THEN "syncFind" ELSE "done")
        /\ halted' = IF ok \/ x \notin outdated THEN halted ELSE halted \cup {Of(x)}
        /\ outdated' = IF ok THEN outdated \ {x} ELSE outdated
        /\ DataUnchanged /\ UNCHANGED <<request, seen, unguarded, applied>>

SyncFind(x) ==
    /\ Move(x, "syncFind", "syncWrite")
    /\ seen' = [seen EXCEPT ![x] = row]
    /\ DataUnchanged /\ UNCHANGED <<request, outdated, unguarded, applied, halted>>

\* By the id that was found, or a new row without a cost.
SyncWrite(x) ==
    /\ Kind(x) = "approve" /\ Mine(x) # NoDraft
    /\ Move(x, "syncWrite", "done")
    /\ row.id = seen[x].id
    /\ IF row # NoPricing
       THEN /\ Changes(x, [row EXCEPT !.net = Approved(x)])
            /\ unguarded' = (x \in outdated)
            /\ UNCHANGED rows
       ELSE /\ exists /\ rows < MaxRows
            /\ Changes(x, [id |-> rows + 1, net |-> Approved(x), cost |-> Null])
            /\ rows' = rows + 1
            /\ unguarded' = FALSE
    /\ applied' = applied \cup {Of(x)}
    /\ UNCHANGED <<exists, draft, history, request, seen, halted>>

\* A call to the database fails, refused or not, or the process dies.
Stop(x) ==
    /\ requestPc[x] \notin {"idle", "done"}
    /\ requestPc' = [requestPc EXCEPT ![x] = "done"]
    /\ halted' = IF requestPc[x] \in {"syncCheck", "syncFind", "syncWrite"}
                 THEN halted \cup {Of(x)} ELSE halted
    /\ DataUnchanged /\ UNCHANGED <<request, seen, outdated, unguarded, applied>>

--------------------------------------------------------------------------------
RowStep(x) == CheckRow(x) \/ InsertRow(x) \/ UpdateRow(x) \/ DeleteRow(x) \/ RecordHistory(x)
DraftStep(x) == CheckDraft(x) \/ CreateDraft(x) \/ CheckStatus(x) \/ SetStatus(x)
SyncStep(x) == SyncCheck(x) \/ SyncFind(x) \/ SyncWrite(x)

PricingNext == \E x \in Requests :
    PricingCall(x) \/ RowStep(x) \/ RemoveProduct(x) \/ DraftStep(x) \/ SyncStep(x) \/ Stop(x)

PricingSpec == PricingInit /\ [][PricingNext]_pricingVars

--------------------------------------------------------------------------------
PricingTypeOK ==
    /\ exists \in BOOLEAN /\ history \in BOOLEAN /\ unguarded \in BOOLEAN
    /\ row \in Row \cup {NoPricing}
    /\ rows \in 0..MaxRows
    /\ draft \in [Drafts -> Draft \cup {NoDraft}]
    /\ requestPc \in [Requests -> RequestPhases]
    /\ request \in [Requests -> Requested \cup {Unasked}]
    /\ seen \in [Requests -> Row \cup {NoPricing}]
    /\ outdated \subseteq Requests
    /\ applied \subseteq Drafts /\ halted \subseteq Drafts

\* The price of the product covers its cost, whichever of the two was written last
\* and by whom, unless that write was an import, which checks nothing, or another
\* call had changed the row after the margin was checked.
PriceCoversCost == BelowCost(row) => unguarded

\* An approved draft with a price has been applied to the row: it was not only if
\* its approval is under way, was cut short after it had set the status or was
\* refused by a margin that changed under it, or if it was created as approved.
ApprovedDraftsAreApplied ==
    \A d \in Drafts :
        draft[d].status = "APPROVED" /\ draft[d].net # Null =>
            \/ d \in applied \cup halted
            \/ draft[d].born = "APPROVED"
            \/ \E x \in Requests : /\ Kind(x) = "approve" /\ Of(x) = d
                                   /\ requestPc[x] \in {"syncCheck", "syncFind", "syncWrite"}

\* The removal of a product takes its price and drafts with it or leaves them all,
\* and nothing comes back to a product that is gone, whoever is still working on it.
RemovalsAreWhole ==
    [][ IF exists'
        THEN /\ \A d \in Drafts : draft[d] # NoDraft => draft'[d] # NoDraft
             /\ row # NoPricing /\ row' = NoPricing =>
                   \E x \in Requests : Kind(x) = "delete" /\ requestPc[x] # requestPc'[x]
        ELSE row' = NoPricing /\ ~history' /\ \A d \in Drafts : draft'[d] = NoDraft ]_pricingVars
================================================================================
