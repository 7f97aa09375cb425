----------------------------- MODULE Accounts_proofs -----------------------------
(***************************************************************************)
(* What holds of accounts for any slugs, emails and plans, and any number  *)
(* of registrations and onboarding calls.                                  *)
(***************************************************************************)
EXTENDS Accounts, SequenceTheorems, TLAPS

\* A call is where its kind can be, with what its kind asks for.
VisitsFit ==
    /\ \A x \in Registrations : visitPc[x] # "idle" =>
          /\ visit[x] \in Registers
          /\ visitPc[x] \notin {"findProfile", "setPersona", "finalize"}
    /\ \A x \in Routines : visitPc[x] # "idle" =>
          /\ visit[x] \in Onboards
          /\ visitPc[x] \in {"findProfile", "createProfile", "setPersona", "finalize", "done"}
          /\ visitPc[x] = "finalize" => By(x) = "select"

\* A registration that has made its tenant has it for itself, and knows how far it is.
BuildersOwn ==
    \A x \in Visits : visitPc[x] \in Building =>
        /\ tenant[SlugOf(x)] # NoTenant
        /\ \A e \in Emails : user[e] = "member" => e[1] # SlugOf(x)
        /\ \A y \in Visits : visitPc[y] \in Building /\ SlugOf(y) = SlugOf(x) => y = x
        /\ visitPc[x] \in {"setDefault", "createUser"} => SlugOf(x) \in brands
        /\ visitPc[x] = "createUser" => tenant[SlugOf(x)].default

\* Who works on a profile has found it; who makes one has found none.
ProfilesFit ==
    /\ \A e \in Emails : /\ user[e] # "member" => profiles[e] = <<>>
                         /\ profiles[e] = <<>> => wish[e] = "in_progress"
    /\ \A x \in Visits :
          /\ visitPc[x] \in {"createProfile", "setPersona", "finalize"} => user[EmailOf(x)] = "member"
          /\ visitPc[x] \in {"setPersona", "finalize"} => mine[x] \in 1..Len(profiles[EmailOf(x)])
          /\ visitPc[x] = "createProfile" /\ EmailOf(x) \notin doubled =>
                /\ profiles[EmailOf(x)] = <<>>
                /\ \A y \in Visits : visitPc[y] = "createProfile" /\ EmailOf(y) = EmailOf(x) => y = x

\* Who is about to change the plan of a tenant knows it, or was outrun.
PlansAreKnown ==
    /\ \A n \in Names : /\ tenant[n] = NoTenant => changes[n] = <<>>
                        /\ tenant[n] # NoTenant => tenant[n].plan \in Plans
    /\ \A x \in Visits : visitPc[x] = "finalize" =>
          /\ current[x] \in Plans
          /\ x \notin outrun => current[x] = tenant[SlugOf(x)].plan

AccountInv == /\ AccountTypeOK /\ VisitsFit /\ BuildersOwn /\ AccountsAreWhole
              /\ ProfilesFit /\ FinishedStayFinished /\ PlansAreKnown /\ ChangesFormAChain

Step(x) == Arrive(x) \/ Register(x) \/ Onboard(x) \/ StopVisit(x)

--------------------------------------------------------------------------------
\* The order in which a registration goes on.
LEMMA Continues ==
    ASSUME NEW x \in Visits
    PROVE  /\ Continue(x, "findUser") => Goes(x, "findUser", "createTenant")
           /\ Continue(x, "createTenant") => Goes(x, "createTenant", "createBrand")
           /\ Continue(x, "createBrand") => Goes(x, "createBrand", "setDefault")
           /\ Continue(x, "setDefault") => Goes(x, "setDefault", "createUser")
           /\ Continue(x, "createUser") => Goes(x, "createUser", "createProfile")
<1>1. \A i \in 1..6 : i = 1 \/ i = 2 \/ i = 3 \/ i = 4 \/ i = 5 \/ i = 6
  OBVIOUS
<1>2. /\ Registration[1] = "findUser" /\ Registration[2] = "createTenant"
      /\ Registration[3] = "createBrand" /\ Registration[4] = "setDefault"
      /\ Registration[5] = "createUser" /\ Registration[6] = "createProfile"
  BY DEF Registration
<1> QED BY <1>1, <1>2 DEF Continue

\* What a registration or an onboarding call carries.
LEMMA Asked ==
    ASSUME NEW x \in Visits, visit[x] \in Registers \cup Onboards
    PROVE  /\ EmailOf(x) \in Emails /\ SlugOf(x) \in Names
           /\ By(x) = "select" => visit[x].plan \in Plans
           /\ By(x) \in {"register", "start", "persona", "select"}
BY DEF Registers, Onboards, EmailOf, SlugOf, By, Emails

\* A call under way has an email and a slug.
LEMMA AskedUnderWay ==
    ASSUME VisitsFit, NEW x \in Visits, visitPc[x] # "idle"
    PROVE  /\ visit[x] \in Registers \cup Onboards
           /\ EmailOf(x) \in Emails /\ SlugOf(x) \in Names
           /\ x \in Registrations => By(x) = "register"
           /\ x \in Routines => By(x) \in {"start", "persona", "select"}
           /\ By(x) = "select" => visit[x].plan \in Plans
<1>1. x \in Registrations => visit[x] \in Registers /\ By(x) = "register"
  BY DEF VisitsFit, Registers, By
<1>2. x \in Routines => visit[x] \in Onboards /\ By(x) \in {"start", "persona", "select"}
  BY DEF VisitsFit, Onboards, By
<1> QED BY <1>1, <1>2, Asked DEF Visits

\* A step of one call leaves the others where they are, and what they ask for.
LEMMA OthersStay ==
    ASSUME AccountTypeOK, NEW x \in Visits, Step(x)
    PROVE  /\ \A y \in Visits \ {x} :
                 /\ visitPc'[y] = visitPc[y] /\ visit'[y] = visit[y]
                 /\ mine'[y] = mine[y] /\ current'[y] = current[y]
           /\ visitPc[x] # "idle" => visit' = visit
           /\ visitPc[x] = "idle" => Arrive(x)
<1> USE DEF AccountTypeOK, Goes
<1>1. CASE Arrive(x)
  BY <1>1 DEF Arrive
<1>2. CASE Register(x)
  BY <1>2, Continues DEF Register, FindUser, CreateTenant, CreateBrand, SetDefaultBrand, CreateMember
<1>3. CASE FindProfile(x)
  BY <1>3 DEF FindProfile, WorksOn
<1>4. CASE CreateProfile(x)
  BY <1>4 DEF CreateProfile, WorksOn
<1>5. CASE UpdatePersona(x) \/ FinalizePlanSelection(x)
  BY <1>5 DEF UpdatePersona, FinalizePlanSelection
<1>6. CASE StopVisit(x)
  BY <1>6 DEF StopVisit
<1> QED BY <1>1, <1>2, <1>3, <1>4, <1>5, <1>6 DEF Step, Onboard

\* The invariant holds before the first call.
LEMMA AccountInitInv == AccountInit => AccountInv
<1> SUFFICES ASSUME AccountInit PROVE AccountInv
  OBVIOUS
<1>1. /\ \A e \in Emails : user[e] = "none" /\ profiles[e] = <<>> /\ wish[e] = "in_progress"
      /\ \A n \in Names : tenant[n] = NoTenant /\ changes[n] = <<>>
      /\ \A x \in Visits : visitPc[x] = "idle"
  BY DEF AccountInit
<1>2. AccountTypeOK
  BY DEF AccountInit, AccountTypeOK, Tenant, NoTenant, UserKinds, Statuses, VisitPhases
<1>3. VisitsFit /\ BuildersOwn /\ AccountsAreWhole
  BY <1>1 DEF VisitsFit, BuildersOwn, AccountsAreWhole, Building, Visits
<1>4. ProfilesFit /\ FinishedStayFinished /\ PlansAreKnown
  BY <1>1 DEF ProfilesFit, FinishedStayFinished, PlansAreKnown
<1>5. ChangesFormAChain
  <2> SUFFICES ASSUME NEW n \in Names
               PROVE  \A i \in DOMAIN changes[n] : FALSE
    BY <1>1 DEF ChangesFormAChain
  <2>1. changes[n] \in Seq(Change) /\ Len(changes[n]) = 0
    BY <1>1, <1>2 DEF AccountTypeOK
  <2> QED BY <2>1
<1> QED BY <1>2, <1>3, <1>4, <1>5 DEF AccountInv

--------------------------------------------------------------------------------
\* Writing a status leaves a sequence of statuses.
LEMMA StatusTypes ==
    ASSUME AccountTypeOK, VisitsFit, ProfilesFit, NEW x \in Visits, NEW status \in Statuses,
           visitPc[x] \in {"setPersona", "finalize"}, SetStatusOf(x, status)
    PROVE  profiles' \in [Emails -> Seq(Statuses)] /\ wish' \in [Emails -> Statuses]
<1>1. EmailOf(x) \in Emails
  BY AskedUnderWay
<1>2. profiles[EmailOf(x)] \in Seq(Statuses)
  BY <1>1 DEF AccountTypeOK
<1>3. [profiles[EmailOf(x)] EXCEPT ![mine[x]] = status] \in Seq(Statuses)
  BY <1>2, ExceptSeq, mine[x] \in 1..Len(profiles[EmailOf(x)]) DEF ProfilesFit, AccountTypeOK
<1> QED BY <1>1, <1>3 DEF SetStatusOf, AccountTypeOK

\* The type is preserved by every step.
LEMMA AccountTypeStep == AccountInv /\ AccountNext => AccountTypeOK'
<1> SUFFICES ASSUME AccountInv, AccountNext PROVE AccountTypeOK'
  OBVIOUS
<1> USE DEF AccountInv
<1>1. ASSUME NEW e \in Emails, AddUser(e) PROVE AccountTypeOK'
  BY <1>1 DEF AddUser, AccountTypeOK, UserKinds, accountHistories
<1>2. ASSUME NEW x \in Visits, Arrive(x) PROVE AccountTypeOK'
  <2>1. visitPc' \in [Visits -> VisitPhases]
    BY <1>2 DEF Arrive, Goes, AccountTypeOK, VisitPhases
  <2>2. visit' \in [Visits -> Registers \cup Onboards \cup {NoVisit}]
    BY <1>2 DEF Arrive, AccountTypeOK
  <2> QED BY <1>2, <2>1, <2>2 DEF Arrive, AccountTypeOK, accountHistories
<1>3. ASSUME NEW x \in Visits, Register(x) PROVE AccountTypeOK'
  <2>1. visitPc' \in [Visits -> VisitPhases] /\ EmailOf(x) \in Emails /\ SlugOf(x) \in Names
    BY <1>3, Continues, AskedUnderWay DEF Register, FindUser, CreateTenant, CreateBrand,
       SetDefaultBrand, CreateMember, Goes, AccountTypeOK, VisitPhases
  <2>2. CASE FindUser(x)
    BY <2>1, <2>2 DEF FindUser, AccountTypeOK, accountHistories
  <2>3. CASE CreateTenant(x)
    BY <2>1, <2>3, AccountsAssumption DEF CreateTenant, AccountTypeOK, accountHistories, Tenant
  <2>4. CASE CreateBrand(x)
    BY <2>1, <2>4 DEF CreateBrand, AccountTypeOK, accountHistories
  <2>5. CASE SetDefaultBrand(x)
    BY <2>1, <2>5 DEF SetDefaultBrand, AccountTypeOK, accountHistories, Tenant
  <2>6. CASE CreateMember(x)
    BY <2>1, <2>6 DEF CreateMember, AccountTypeOK, accountHistories, UserKinds
  <2> QED BY <1>3, <2>2, <2>3, <2>4, <2>5, <2>6 DEF Register
<1>4. ASSUME NEW x \in Visits, Onboard(x) PROVE AccountTypeOK'
  <2>1. /\ visitPc' \in [Visits -> VisitPhases]
        /\ EmailOf(x) \in Emails /\ SlugOf(x) \in Names /\ Len(profiles[EmailOf(x)]) \in Nat
    <3>1. visitPc[x] # "idle" /\ \E to \in VisitPhases : visitPc' = [visitPc EXCEPT ![x] = to]
      BY <1>4 DEF Onboard, FindProfile, CreateProfile, UpdatePersona, FinalizePlanSelection,
         AfterProfile, Goes, VisitPhases
    <3>2. EmailOf(x) \in Emails /\ SlugOf(x) \in Names
      BY <3>1, AskedUnderWay
    <3>3. profiles[EmailOf(x)] \in Seq(Statuses)
      BY <3>2 DEF AccountTypeOK
    <3> QED BY <3>1, <3>2, <3>3 DEF AccountTypeOK
  <2>2. tenant[SlugOf(x)].plan \in Plans \cup {NoPlan}
    BY <2>1 DEF AccountTypeOK, Tenant
  <2>3. CASE FindProfile(x)
    <3>1. \A i \in Found(EmailOf(x)) : i \in Nat
      BY <2>1 DEF Found
    <3>2. mine' \in [Visits -> Nat] /\ current' \in [Visits -> Plans \cup {NoPlan}]
      BY <2>1, <2>2, <2>3, <3>1 DEF FindProfile, WorksOn, AccountTypeOK
    <3> QED BY <2>1, <2>3, <3>2 DEF FindProfile, AccountTypeOK
  <2>4. CASE CreateProfile(x)
    <3>1. mine' \in [Visits -> Nat] /\ current' \in [Visits -> Plans \cup {NoPlan}]
      BY <2>1, <2>2, <2>4 DEF CreateProfile, WorksOn, AccountTypeOK
    <3>2. profiles' \in [Emails -> Seq(Statuses)]
      <4>1. profiles[EmailOf(x)] \in Seq(Statuses) /\ "in_progress" \in Statuses
        BY <2>1 DEF AccountTypeOK, Statuses
      <4>2. Append(profiles[EmailOf(x)], "in_progress") \in Seq(Statuses)
        BY <4>1
      <4> QED BY <2>1, <2>4, <4>2 DEF CreateProfile, AccountTypeOK
    <3> QED BY <2>1, <2>4, <3>1, <3>2 DEF CreateProfile, AccountTypeOK, accountHistories
  <2>5. CASE UpdatePersona(x)
    <3>1. profiles' \in [Emails -> Seq(Statuses)] /\ wish' \in [Emails -> Statuses]
      BY <2>5, StatusTypes DEF UpdatePersona, Goes, Statuses
    <3> QED BY <2>1, <2>5, <3>1 DEF UpdatePersona, AccountTypeOK
  <2>6. CASE FinalizePlanSelection(x)
    <3>1. profiles' \in [Emails -> Seq(Statuses)] /\ wish' \in [Emails -> Statuses]
      BY <2>6, StatusTypes DEF FinalizePlanSelection, Goes, Statuses
    <3>2. visitPc[x] = "finalize" /\ visit[x].plan \in Plans /\ current[x] \in Plans
      BY <2>6, AskedUnderWay DEF FinalizePlanSelection, Goes, PlansAreKnown, VisitsFit, Visits
    <3>3. tenant' \in [Names -> Tenant]
      BY <2>1, <2>6, <3>2 DEF FinalizePlanSelection, AccountTypeOK, Tenant
    <3>4. changes' \in [Names -> Seq(Change)]
      <4> DEFINE c == [from |-> current[x], to |-> visit[x].plan, by |-> x]
      <4>1. c \in Change /\ changes[SlugOf(x)] \in Seq(Change)
        BY <2>1, <3>2 DEF Change, AccountTypeOK
      <4> HIDE DEF c
      <4>2. Append(changes[SlugOf(x)], c) \in Seq(Change)
        BY <4>1
      <4> QED BY <2>1, <2>6, <4>2 DEF FinalizePlanSelection, AccountTypeOK, c
    <3>5. outrun' \subseteq Visits
      BY <2>6 DEF FinalizePlanSelection, AccountTypeOK
    <3> QED BY <2>1, <2>6, <3>1, <3>3, <3>4, <3>5 DEF FinalizePlanSelection, AccountTypeOK
  <2> QED BY <1>4, <2>3, <2>4, <2>5, <2>6 DEF Onboard
<1>5. ASSUME NEW x \in Visits, StopVisit(x) PROVE AccountTypeOK'
  <2>1. abandoned' \subseteq Names
    BY <1>5, AskedUnderWay DEF StopVisit, AccountTypeOK
  <2> QED BY <1>5, <2>1 DEF StopVisit, AccountTypeOK, VisitPhases
<1> QED BY <1>1, <1>2, <1>3, <1>4, <1>5 DEF AccountNext

--------------------------------------------------------------------------------
\* Where a step can leave a call that is not at rest.
LEMMA Moves ==
    ASSUME AccountInv, NEW x \in Visits, Step(x)
    PROVE  \/ x \in Registrations /\ visitPc'[x] = "findUser" /\ visit'[x] \in Registers
           \/ x \in Routines /\ visitPc'[x] = "findProfile" /\ visit'[x] \in Onboards
           \/ /\ visitPc[x] # "idle"
              /\ visitPc'[x] \in {"createTenant", "createBrand", "setDefault", "createUser", "createProfile"}
              /\ x \in Registrations
           \/ /\ visitPc[x] # "idle"
              /\ visitPc'[x] \in {"createProfile", "setPersona", "finalize"}
              /\ x \in Routines
              /\ visitPc'[x] = "finalize" => By(x) = "select"
           \/ visitPc[x] # "idle" /\ visitPc'[x] = "done"
<1> USE DEF AccountInv
<1>1. CASE Arrive(x)
  <2>1. ASSUME x \in Registrations, Goes(x, "idle", "findUser"),
               visit' \in {[visit EXCEPT ![x] = v] : v \in Registers}
        PROVE  visitPc'[x] = "findUser" /\ visit'[x] \in Registers
    BY <2>1 DEF Goes, AccountTypeOK
  <2>2. ASSUME x \in Routines, Goes(x, "idle", "findProfile"),
               visit' \in {[visit EXCEPT ![x] = v] : v \in {w \in Onboards : user[w.email] # "none"}}
        PROVE  visitPc'[x] = "findProfile" /\ visit'[x] \in Onboards
    BY <2>2 DEF Goes, AccountTypeOK
  <2> QED BY <1>1, <2>1, <2>2 DEF Arrive
<1>2. CASE Register(x)
  BY <1>2, Continues DEF Register, FindUser, CreateTenant, CreateBrand, SetDefaultBrand,
     CreateMember, Continue, Goes, AccountTypeOK
<1>3. CASE Onboard(x)
  <2>1. /\ visitPc[x] \in {"findProfile", "createProfile", "setPersona", "finalize"}
        /\ visitPc'[x] \in {"createProfile", AfterProfile(x), "done"}
        /\ visitPc'[x] = "createProfile" => visitPc[x] = "findProfile"
    BY <1>3 DEF Onboard, FindProfile, CreateProfile, UpdatePersona, FinalizePlanSelection,
       AfterProfile, Goes, AccountTypeOK
  <2>2. x \in Registrations => By(x) = "register"
    BY <2>1, AskedUnderWay
  <2>3. x \in Registrations => visitPc[x] # "findProfile"
    BY <2>1 DEF VisitsFit
  <2> QED BY <2>1, <2>2, <2>3 DEF AfterProfile, Visits
<1>4. CASE StopVisit(x)
  BY <1>4 DEF StopVisit, AccountTypeOK
<1> QED BY <1>1, <1>2, <1>3, <1>4 DEF Step

\* Calls stay where their kind can be.
LEMMA VisitsFitStep == AccountInv /\ AccountNext => VisitsFit'
<1> SUFFICES ASSUME AccountInv, AccountNext PROVE VisitsFit'
  OBVIOUS
<1> USE DEF AccountInv
<1>1. ASSUME NEW e \in Emails, AddUser(e) PROVE VisitsFit'
  BY <1>1 DEF AddUser, VisitsFit, By
<1>2. ASSUME NEW x \in Visits, Step(x) PROVE VisitsFit'
  <2>1. ASSUME NEW y \in Visits, y # x
        PROVE  visitPc'[y] = visitPc[y] /\ visit'[y] = visit[y]
    BY <1>2, <2>1, OthersStay
  <2>2. visitPc[x] # "idle" => visit'[x] = visit[x] /\ visit[x] \in Registers \cup Onboards
    BY <1>2, OthersStay, AskedUnderWay
  <2>3. x \in Registrations => /\ visit'[x] \in Registers
                               /\ visitPc'[x] \notin {"findProfile", "setPersona", "finalize"}
    BY <1>2, <2>2, Moves, AccountsAssumption DEF VisitsFit
  <2>4. x \in Routines => /\ visit'[x] \in Onboards
                          /\ visitPc'[x] \in {"findProfile", "createProfile", "setPersona", "finalize", "done"}
                          /\ visitPc'[x] = "finalize" => visit'[x].kind = "select"
    BY <1>2, <2>2, Moves, AccountsAssumption DEF VisitsFit, By
  <2>5. ASSUME NEW y \in Registrations, visitPc'[y] # "idle"
        PROVE  visit'[y] \in Registers /\ visitPc'[y] \notin {"findProfile", "setPersona", "finalize"}
    BY <2>1, <2>3, <2>5 DEF VisitsFit, Visits
  <2>6. ASSUME NEW y \in Routines, visitPc'[y] # "idle"
        PROVE  /\ visit'[y] \in Onboards
               /\ visitPc'[y] \in {"findProfile", "createProfile", "setPersona", "finalize", "done"}
               /\ visitPc'[y] = "finalize" => visit'[y].kind = "select"
    BY <2>1, <2>4, <2>6 DEF VisitsFit, Visits, By
  <2> QED BY <2>5, <2>6 DEF VisitsFit, By
<1> QED BY <1>1, <1>2 DEF AccountNext, Step

--------------------------------------------------------------------------------
\* A step that writes no tenant, brand or member, and after which its call builds
\* nothing, keeps accounts whole if it tells what it abandons.
LEMMA QuietSteps ==
    ASSUME AccountInv, NEW x \in Visits,
           UNCHANGED <<tenant, brands>>,
           \A e \in Emails : user'[e] = "member" <=> user[e] = "member",
           \A y \in Visits \ {x} : visitPc'[y] = visitPc[y] /\ visit'[y] = visit[y],
           visitPc'[x] \notin Building,
           visitPc[x] \in Building => SlugOf(x) \in abandoned',
           abandoned \subseteq abandoned'
    PROVE  BuildersOwn' /\ AccountsAreWhole'
<1> USE DEF AccountInv
<1>1. \A y \in Visits : visitPc'[y] \in Building =>
          y # x /\ visitPc'[y] = visitPc[y] /\ SlugOf(y)' = SlugOf(y)
  BY DEF SlugOf, EmailOf
<1>2. BuildersOwn'
  BY <1>1 DEF BuildersOwn
<1>3. \A y \in Visits : visitPc[y] \in Building =>
          \/ SlugOf(y) \in abandoned'
          \/ visitPc'[y] \in Building /\ SlugOf(y)' = SlugOf(y)
  BY DEF SlugOf, EmailOf
<1>4. ASSUME NEW n \in Names, tenant[n] # NoTenant
      PROVE  \/ \E e \in Emails : user'[e] = "member" /\ e[1] = n
             \/ n \in abandoned'
             \/ \E y \in Visits : visitPc'[y] \in Building /\ SlugOf(y)' = n
  <2>1. CASE \E e \in Emails : user[e] = "member" /\ e[1] = n
    BY <2>1
  <2>2. CASE n \in abandoned
    BY <2>2
  <2>3. CASE \E y \in Visits : visitPc[y] \in Building /\ SlugOf(y) = n
    BY <1>3, <2>3
  <2> QED BY <1>4, <2>1, <2>2, <2>3 DEF AccountsAreWhole
<1>5. ASSUME NEW e \in Emails, user'[e] = "member"
      PROVE  /\ tenant'[e[1]].default /\ e[1] \in brands'
             /\ \A d \in Emails : user'[d] = "member" /\ d[1] = e[1] => d = e
  BY <1>5 DEF AccountsAreWhole
<1>6. AccountsAreWhole'
  BY <1>4, <1>5 DEF AccountsAreWhole
<1> QED BY <1>2, <1>6

\* Accounts stay whole, and builders stay alone with their tenants.
LEMMA WholeStep == AccountInv /\ AccountNext => BuildersOwn' /\ AccountsAreWhole'
<1> SUFFICES ASSUME AccountInv, AccountNext PROVE BuildersOwn' /\ AccountsAreWhole'
  OBVIOUS
<1> USE DEF AccountInv
<1>1. ASSUME NEW e \in Emails, AddUser(e) PROVE BuildersOwn' /\ AccountsAreWhole'
  <2>1. \A d \in Emails : user'[d] = "member" <=> user[d] = "member"
    BY <1>1 DEF AddUser, AccountTypeOK
  <2>2. BuildersOwn'
    BY <1>1, <2>1 DEF AddUser, BuildersOwn, SlugOf, EmailOf
  <2>3. AccountsAreWhole'
    BY <1>1, <2>1 DEF AddUser, AccountsAreWhole, SlugOf, EmailOf, accountHistories
  <2> QED BY <2>2, <2>3
<1>2. ASSUME NEW x \in Visits, Step(x) PROVE BuildersOwn' /\ AccountsAreWhole'
  <2>1. \A y \in Visits \ {x} : visitPc'[y] = visitPc[y] /\ visit'[y] = visit[y]
    BY <1>2, OthersStay
  <2>2. ASSUME visitPc[x] # "idle"
        PROVE  visit' = visit /\ SlugOf(x) \in Names /\ EmailOf(x) \in Emails
    BY <1>2, <2>2, OthersStay, AskedUnderWay
  <2>3. CASE Arrive(x)
    <3>1. visitPc[x] = "idle" /\ visitPc'[x] \notin Building
      BY <2>3 DEF Arrive, Goes, Building, AccountTypeOK
    <3> QED BY <2>1, <2>3, <3>1, QuietSteps DEF Arrive, Building, accountHistories
  <2>4. CASE FindUser(x)
    <3>1. visitPc[x] = "findUser" /\ visitPc'[x] \notin Building
      BY <2>4, Continues DEF FindUser, Goes, Building, AccountTypeOK
    <3> QED BY <2>1, <2>4, <3>1, QuietSteps DEF FindUser, Building, accountHistories
  <2>5. CASE Onboard(x)
    <3>1. /\ visitPc[x] \notin Building \cup {"idle"} /\ visitPc'[x] \notin Building
          /\ UNCHANGED <<brands, user, abandoned>>
      BY <2>5 DEF Onboard, FindProfile, CreateProfile, UpdatePersona, FinalizePlanSelection,
         AfterProfile, Goes, Building, AccountTypeOK, accountHistories
    <3>2. CASE tenant' = tenant
      BY <2>1, <3>1, <3>2, QuietSteps
    <3>3. CASE FinalizePlanSelection(x)
      <4>1. user[EmailOf(x)] = "member" /\ EmailOf(x) \in Emails /\ SlugOf(x) \in Names
        BY <2>2, <3>1, <3>3 DEF FinalizePlanSelection, Goes, ProfilesFit
      <4>2. /\ \A n \in Names : tenant'[n].default = tenant[n].default
            /\ \A n \in Names \ {SlugOf(x)} : tenant'[n] = tenant[n]
        BY <3>3 DEF FinalizePlanSelection, AccountTypeOK, Tenant
      <4>3. \A y \in Visits : visitPc'[y] \in Building =>
               /\ y # x /\ visitPc'[y] = visitPc[y] /\ SlugOf(y)' = SlugOf(y)
               /\ SlugOf(y) # SlugOf(x) /\ SlugOf(y) \in Names
        BY <2>1, <2>2, <3>1, <4>1, AskedUnderWay DEF SlugOf, EmailOf, BuildersOwn, Building
      <4>4. BuildersOwn'
        BY <3>1, <4>2, <4>3 DEF BuildersOwn
      <4>5. \A y \in Visits : visitPc[y] \in Building =>
               visitPc'[y] \in Building /\ SlugOf(y)' = SlugOf(y)
        BY <2>1, <3>1 DEF SlugOf, EmailOf
      <4>6. /\ \E e \in Emails : user'[e] = "member" /\ e[1] = SlugOf(x)
            /\ \A e \in Emails : e[1] \in Names
        BY <3>1, <4>1 DEF SlugOf, Emails
      <4>7. AccountsAreWhole'
        BY <3>1, <4>2, <4>5, <4>6 DEF AccountsAreWhole
      <4> QED BY <4>4, <4>7
    <3> QED BY <2>5, <3>2, <3>3 DEF Onboard, FindProfile, CreateProfile, UpdatePersona
  <2>6. CASE StopVisit(x)
    <3>1. visitPc'[x] \notin Building
      BY <2>6 DEF StopVisit, Building, AccountTypeOK
    <3> QED BY <2>1, <2>6, <3>1, QuietSteps DEF StopVisit
  <2>7. CASE CreateTenant(x)
    <3>1. /\ visitPc[x] = "createTenant" /\ visitPc'[x] = "createBrand"
          /\ SlugOf(x) \in Names /\ visit' = visit
      BY <2>2, <2>7, Continues DEF CreateTenant, Goes, AccountTypeOK
    <3>2. /\ tenant'[SlugOf(x)] # NoTenant
          /\ \A n \in Names \ {SlugOf(x)} : tenant'[n] = tenant[n]
          /\ tenant[SlugOf(x)] = NoTenant
      BY <2>7, <3>1, AccountsAssumption DEF CreateTenant, AccountTypeOK, NoTenant
    <3>3. \A e \in Emails : user[e] = "member" => e[1] # SlugOf(x) /\ e[1] \in Names
      BY <3>2 DEF AccountsAreWhole, NoTenant, Emails
    <3>4. \A y \in Visits : visitPc[y] \in Building =>
             y # x /\ SlugOf(y) # SlugOf(x) /\ SlugOf(y) \in Names
      BY <3>1, <3>2, AskedUnderWay DEF BuildersOwn, Building
    <3>5. /\ \A y \in Visits : SlugOf(y)' = SlugOf(y)
          /\ \A y \in Visits \ {x} : visitPc'[y] = visitPc[y]
          /\ UNCHANGED <<brands, user, abandoned>>
      BY <2>1, <2>7, <3>1 DEF CreateTenant, SlugOf, EmailOf, accountHistories
    <3>6. BuildersOwn'
      BY <3>1, <3>2, <3>3, <3>4, <3>5 DEF BuildersOwn, Building
    <3>7. \A y \in Visits : visitPc[y] \in Building => visitPc'[y] \in Building
      BY <3>4, <3>5
    <3>8. AccountsAreWhole'
      BY <3>1, <3>2, <3>3, <3>5, <3>7 DEF AccountsAreWhole, Building
    <3> QED BY <3>6, <3>8
  <2>8. CASE CreateBrand(x)
    <3>1. /\ visitPc[x] = "createBrand" /\ visitPc'[x] = "setDefault" /\ visit' = visit
      BY <2>2, <2>8, Continues DEF CreateBrand, Goes, AccountTypeOK
    <3>2. /\ \A y \in Visits : SlugOf(y)' = SlugOf(y)
          /\ \A y \in Visits \ {x} : visitPc'[y] = visitPc[y]
          /\ UNCHANGED <<tenant, user, abandoned>> /\ brands' = brands \cup {SlugOf(x)}
      BY <2>1, <2>8, <3>1 DEF CreateBrand, SlugOf, EmailOf, accountHistories
    <3>3. BuildersOwn'
      BY <3>1, <3>2 DEF BuildersOwn, Building
    <3>4. AccountsAreWhole'
      BY <3>1, <3>2 DEF AccountsAreWhole, Building
    <3> QED BY <3>3, <3>4
  <2>9. CASE SetDefaultBrand(x)
    <3>1. /\ visitPc[x] = "setDefault" /\ visitPc'[x] = "createUser"
          /\ SlugOf(x) \in Names /\ visit' = visit
      BY <2>2, <2>9, Continues DEF SetDefaultBrand, Goes, AccountTypeOK
    <3>2. /\ \A y \in Visits : SlugOf(y)' = SlugOf(y)
          /\ \A y \in Visits \ {x} : visitPc'[y] = visitPc[y]
          /\ UNCHANGED <<brands, user, abandoned>>
          /\ \A n \in Names \ {SlugOf(x)} : tenant'[n] = tenant[n]
          /\ tenant'[SlugOf(x)].default
      BY <2>1, <2>9, <3>1 DEF SetDefaultBrand, SlugOf, EmailOf, accountHistories, AccountTypeOK, Tenant
    <3>3. tenant'[SlugOf(x)] # NoTenant
      BY <3>2 DEF NoTenant
    <3>4. \A y \in Visits : visitPc[y] \in Building => SlugOf(y) \in Names
      BY AskedUnderWay DEF Building
    <3>5. \A y \in Visits : visitPc'[y] \in Building <=> visitPc[y] \in Building
      BY <3>1, <3>2 DEF Building
    <3>6. BuildersOwn'
      BY <3>1, <3>2, <3>3, <3>4, <3>5 DEF BuildersOwn, Building
    <3>7. \A e \in Emails : e[1] \in Names
      BY DEF Emails
    <3>8. AccountsAreWhole'
      BY <3>1, <3>2, <3>5, <3>7 DEF AccountsAreWhole, Building
    <3> QED BY <3>6, <3>8
  <2>10. CASE CreateMember(x)
    <3>1. /\ visitPc[x] = "createUser" /\ visitPc'[x] = "createProfile"
          /\ EmailOf(x) \in Emails /\ visit' = visit
      BY <2>2, <2>10, Continues DEF CreateMember, Goes, AccountTypeOK
    <3>2. /\ \A y \in Visits : SlugOf(y)' = SlugOf(y)
          /\ \A y \in Visits \ {x} : visitPc'[y] = visitPc[y]
          /\ UNCHANGED <<brands, tenant, abandoned>>
          /\ \A e \in Emails \ {EmailOf(x)} : user'[e] = user[e]
          /\ user'[EmailOf(x)] = "member"
      BY <2>1, <2>10, <3>1 DEF CreateMember, SlugOf, EmailOf, accountHistories, AccountTypeOK
    <3>3. /\ tenant[SlugOf(x)].default /\ SlugOf(x) \in brands
          /\ \A e \in Emails : user[e] = "member" => e[1] # SlugOf(x)
          /\ \A y \in Visits : visitPc[y] \in Building /\ SlugOf(y) = SlugOf(x) => y = x
      BY <3>1 DEF BuildersOwn, Building
    <3>4. \A y \in Visits : visitPc'[y] \in Building =>
             y # x /\ visitPc[y] \in Building /\ SlugOf(y) # SlugOf(x)
      BY <3>1, <3>2, <3>3 DEF Building
    <3>5. EmailOf(x)[1] = SlugOf(x)
      BY DEF SlugOf
    <3>6. BuildersOwn'
      BY <3>2, <3>4, <3>5 DEF BuildersOwn
    <3>7. \A y \in Visits : visitPc[y] \in Building => y = x \/ visitPc'[y] \in Building
      BY <3>2
    <3>8. AccountsAreWhole'
      BY <3>1, <3>2, <3>3, <3>5, <3>7 DEF AccountsAreWhole
    <3> QED BY <3>6, <3>8
  <2> QED BY <1>2, <2>3, <2>4, <2>5, <2>6, <2>7, <2>8, <2>9, <2>10 DEF Step, Register
<1> QED BY <1>1, <1>2 DEF AccountNext, Step

--------------------------------------------------------------------------------
\* The step that a call is on asks of the other calls only where they are.
LEMMA ProfilesElsewhere ==
    ASSUME AccountInv, NEW x \in Visits,
           \A y \in Visits \ {x} :
              visitPc'[y] = visitPc[y] /\ visit'[y] = visit[y] /\ mine'[y] = mine[y],
           visitPc'[x] \notin {"createProfile", "setPersona", "finalize"},
           UNCHANGED <<profiles, wish, doubled>>,
           \A e \in Emails : user[e] = "member" => user'[e] = "member"
    PROVE  ProfilesFit' /\ FinishedStayFinished'
<1> USE DEF AccountInv
<1>1. \A y \in Visits : visitPc'[y] \in {"createProfile", "setPersona", "finalize"} =>
          /\ y # x /\ visitPc'[y] = visitPc[y] /\ EmailOf(y)' = EmailOf(y)
          /\ mine'[y] = mine[y] /\ EmailOf(y) \in Emails
  BY AskedUnderWay DEF EmailOf
<1>2. \A e \in Emails : user'[e] # "member" => user[e] # "member"
  OBVIOUS
<1>3. ProfilesFit'
  BY <1>1, <1>2 DEF ProfilesFit
<1>4. FinishedStayFinished'
  BY DEF FinishedStayFinished
<1> QED BY <1>3, <1>4

\* A written status becomes the status of the only profile, if there is one only.
LEMMA StatusSteps ==
    ASSUME AccountInv, NEW x \in Visits, NEW status \in Statuses,
           visitPc[x] \in {"setPersona", "finalize"}, SetStatusOf(x, status),
           visitPc' = [visitPc EXCEPT ![x] = "done"],
           UNCHANGED <<user, visit, mine, doubled>>
    PROVE  ProfilesFit' /\ FinishedStayFinished'
<1> USE DEF AccountInv
<1> DEFINE e == EmailOf(x)
<1>1. e \in Emails /\ user[e] = "member" /\ mine[x] \in 1..Len(profiles[e]) /\ profiles[e] \in Seq(Statuses)
  BY AskedUnderWay DEF ProfilesFit, AccountTypeOK
<1>2. /\ profiles'[e] = [profiles[e] EXCEPT ![mine[x]] = status]
      /\ wish'[e] = status
      /\ \A d \in Emails \ {e} : profiles'[d] = profiles[d] /\ wish'[d] = wish[d]
  BY <1>1 DEF SetStatusOf, AccountTypeOK
<1>3. profiles'[e] \in Seq(Statuses) /\ Len(profiles'[e]) = Len(profiles[e]) /\ profiles'[e] # <<>>
  <2>1. [profiles[e] EXCEPT ![mine[x]] = status] \in Seq(Statuses)
        /\ Len([profiles[e] EXCEPT ![mine[x]] = status]) = Len(profiles[e])
    BY <1>1, ExceptSeq
  <2> QED BY <1>1, <1>2, <2>1
<1>4. e \notin doubled => profiles'[e] = <<status>>
  <2> SUFFICES ASSUME e \notin doubled PROVE profiles'[e] = <<status>>
    OBVIOUS
  <2>1. profiles[e] = <<wish[e]>> /\ mine[x] = 1
    <3>1. profiles[e] \in {<<>>, <<wish[e]>>}
      BY <1>1 DEF FinishedStayFinished
    <3>2. profiles[e] # <<>>
      BY <1>1
    <3>3. profiles[e] = <<wish[e]>>
      BY <3>1, <3>2
    <3>4. Len(profiles[e]) = 1
      BY <3>3
    <3> QED BY <1>1, <3>3, <3>4
  <2>2. Len(profiles'[e]) = 1 /\ profiles'[e][1] = status
    BY <1>1, <1>2, <1>3, <2>1
  <2>3. <<status>> \in Seq(Statuses) /\ Len(<<status>>) = 1 /\ <<status>>[1] = status
    OBVIOUS
  <2> QED BY <1>3, <2>2, <2>3, SeqEqual
<1>5. \A y \in Visits : /\ EmailOf(y)' = EmailOf(y) /\ mine'[y] = mine[y]
                        /\ visitPc'[y] = IF y = x THEN "done" ELSE visitPc[y]
  BY DEF EmailOf, AccountTypeOK
<1>6. \A y \in Visits : visitPc[y] \in {"createProfile", "setPersona", "finalize"} => EmailOf(y) \in Emails
  BY AskedUnderWay
<1>7. profiles[e] # <<>>
  BY <1>1
<1> HIDE DEF e
<1>8. ASSUME NEW d \in Emails
      PROVE  /\ user'[d] # "member" => profiles'[d] = <<>>
             /\ profiles'[d] = <<>> => wish'[d] = "in_progress"
  BY <1>1, <1>2, <1>3 DEF ProfilesFit
<1>9. ASSUME NEW y \in Visits
      PROVE  /\ visitPc'[y] \in {"createProfile", "setPersona", "finalize"} => user'[EmailOf(y)'] = "member"
             /\ visitPc'[y] \in {"setPersona", "finalize"} => mine'[y] \in 1..Len(profiles'[EmailOf(y)'])
             /\ visitPc'[y] = "createProfile" /\ EmailOf(y)' \notin doubled' =>
                   /\ profiles'[EmailOf(y)'] = <<>>
                   /\ \A z \in Visits : visitPc'[z] = "createProfile" /\ EmailOf(z)' = EmailOf(y)' => z = y
  BY <1>2, <1>3, <1>5, <1>6, <1>7 DEF ProfilesFit
<1>10. ProfilesFit'
  BY <1>8, <1>9 DEF ProfilesFit
<1>11. FinishedStayFinished'
  BY <1>2, <1>4 DEF FinishedStayFinished
<1> QED BY <1>10, <1>11

\* Profiles fit what calls have found, in the status written last.
LEMMA ProfilesStep == AccountInv /\ AccountNext => ProfilesFit' /\ FinishedStayFinished'
<1> SUFFICES ASSUME AccountInv, AccountNext PROVE ProfilesFit' /\ FinishedStayFinished'
  OBVIOUS
<1> USE DEF AccountInv
<1>1. ASSUME NEW e \in Emails, AddUser(e) PROVE ProfilesFit' /\ FinishedStayFinished'
  <2>1. \A d \in Emails : user'[d] = "member" <=> user[d] = "member"
    BY <1>1 DEF AddUser, AccountTypeOK
  <2>2. \A y \in Visits : /\ visitPc[y] # "idle" => EmailOf(y) \in Emails
                          /\ EmailOf(y)' = EmailOf(y)
    BY <1>1, AskedUnderWay DEF AddUser, EmailOf
  <2>3. UNCHANGED <<profiles, visitPc, mine, wish, doubled>>
    BY <1>1 DEF AddUser, accountHistories
  <2>4. ProfilesFit'
    BY <2>1, <2>2, <2>3 DEF ProfilesFit
  <2>5. FinishedStayFinished'
    BY <2>3 DEF FinishedStayFinished
  <2> QED BY <2>4, <2>5
<1>2. ASSUME NEW x \in Visits, Step(x) PROVE ProfilesFit' /\ FinishedStayFinished'
  <2>1. \A y \in Visits \ {x} :
           visitPc'[y] = visitPc[y] /\ visit'[y] = visit[y] /\ mine'[y] = mine[y]
    BY <1>2, OthersStay
  <2>2. ASSUME visitPc[x] # "idle"
        PROVE  visit' = visit /\ SlugOf(x) \in Names /\ EmailOf(x) \in Emails
    BY <1>2, <2>2, OthersStay, AskedUnderWay
  <2>3. CASE Arrive(x)
    <3>1. visitPc'[x] \notin {"createProfile", "setPersona", "finalize"}
      BY <2>3 DEF Arrive, Goes, AccountTypeOK
    <3> QED BY <2>1, <2>3, <3>1, ProfilesElsewhere DEF Arrive, accountHistories
  <2>4. CASE FindUser(x) \/ CreateTenant(x) \/ CreateBrand(x) \/ SetDefaultBrand(x)
    <3>1. visitPc'[x] \notin {"createProfile", "setPersona", "finalize"}
      BY <2>4, Continues DEF FindUser, CreateTenant, CreateBrand, SetDefaultBrand, Goes, AccountTypeOK
    <3> QED BY <2>1, <2>4, <3>1, ProfilesElsewhere
         DEF FindUser, CreateTenant, CreateBrand, SetDefaultBrand, accountHistories
  <2>5. CASE StopVisit(x)
    <3>1. visitPc'[x] \notin {"createProfile", "setPersona", "finalize"}
      BY <2>5 DEF StopVisit, AccountTypeOK
    <3> QED BY <2>1, <2>5, <3>1, ProfilesElsewhere DEF StopVisit
  <2>6. CASE UpdatePersona(x)
    BY <2>6, StatusSteps DEF UpdatePersona, Goes, Statuses
  <2>7. CASE FinalizePlanSelection(x)
    BY <2>7, StatusSteps DEF FinalizePlanSelection, Goes, Statuses
  <2>8. CASE CreateMember(x)
    <3>1. /\ visitPc[x] = "createUser" /\ visitPc'[x] = "createProfile"
          /\ EmailOf(x) \in Emails /\ visit' = visit /\ user[EmailOf(x)] = "none"
      BY <2>2, <2>8, Continues DEF CreateMember, Goes, AccountTypeOK
    <3>2. /\ \A y \in Visits : EmailOf(y)' = EmailOf(y)
          /\ UNCHANGED <<profiles, mine, wish, doubled>>
          /\ \A e \in Emails \ {EmailOf(x)} : user'[e] = user[e]
          /\ user'[EmailOf(x)] = "member"
      BY <2>8, <3>1 DEF CreateMember, EmailOf, accountHistories, AccountTypeOK
    <3>3. profiles[EmailOf(x)] = <<>> /\ wish[EmailOf(x)] = "in_progress"
      BY <3>1 DEF ProfilesFit
    <3>4. \A y \in Visits \ {x} : visitPc[y] \in {"createProfile", "setPersona", "finalize"} =>
             EmailOf(y) # EmailOf(x) /\ EmailOf(y) \in Emails
      BY <3>1, AskedUnderWay DEF ProfilesFit
    <3>5. ProfilesFit'
      BY <2>1, <3>1, <3>2, <3>3, <3>4 DEF ProfilesFit
    <3>6. FinishedStayFinished'
      BY <3>2 DEF FinishedStayFinished
    <3> QED BY <3>5, <3>6
  <2>9. CASE FindProfile(x)
    <3> DEFINE e == EmailOf(x)
    <3>1. /\ visitPc[x] = "findProfile" /\ e \in Emails /\ visit' = visit
          /\ profiles[e] \in Seq(Statuses)
      BY <2>2, <2>9 DEF FindProfile, AccountTypeOK
    <3>2. /\ \A y \in Visits : EmailOf(y)' = EmailOf(y)
          /\ UNCHANGED <<profiles, user, wish>> /\ doubled \subseteq doubled'
      BY <2>9, <3>1 DEF FindProfile, EmailOf
    <3>3. \A y \in Visits : visitPc[y] # "idle" => EmailOf(y) \in Emails
      BY AskedUnderWay
    <3>4. \/ visitPc'[x] = "done"
          \/ /\ visitPc'[x] \in {"setPersona", "finalize"}
             /\ user[e] = "member" /\ mine'[x] \in 1..Len(profiles[e])
          \/ /\ visitPc'[x] = "createProfile" /\ user[e] = "member" /\ profiles[e] = <<>>
             /\ \A y \in Visits \ {x} : visitPc[y] = "createProfile" /\ EmailOf(y) = e => e \in doubled'
      <4>1. \A i \in Found(e) : i \in 1..Len(profiles[e])
        BY <3>1 DEF Found
      <4>2. Found(e) = {} => profiles[e] = <<>>
        BY <3>1 DEF Found
      <4>3. AfterProfile(x) \in {"setPersona", "finalize", "done"}
        BY DEF AfterProfile
      <4>4. CASE user[e] = "alone" /\ Goes(x, "findProfile", "done")
        BY <4>4 DEF Goes, AccountTypeOK
      <4>5. CASE /\ user[e] = "member" /\ \E i \in Found(e) : WorksOn(x, i)
                 /\ Goes(x, "findProfile", AfterProfile(x))
        BY <4>1, <4>3, <4>5 DEF Goes, WorksOn, AccountTypeOK
      <4>6. CASE /\ user[e] = "member" /\ Found(e) = {} /\ Goes(x, "findProfile", "createProfile")
                 /\ doubled' = IF \E y \in Visits \ {x} : visitPc[y] = "createProfile" /\ EmailOf(y) = e
                              THEN doubled \cup {e} ELSE doubled
        BY <4>2, <4>6 DEF Goes, AccountTypeOK
      <4> QED BY <2>9, <4>4, <4>5, <4>6 DEF FindProfile
    <3> HIDE DEF e
    <3>5. \A d \in Emails : /\ user'[d] # "member" => profiles'[d] = <<>>
                            /\ profiles'[d] = <<>> => wish'[d] = "in_progress"
      BY <3>2 DEF ProfilesFit
    <3>6. ASSUME NEW y \in Visits
          PROVE  /\ visitPc'[y] \in {"createProfile", "setPersona", "finalize"} => user'[EmailOf(y)'] = "member"
                 /\ visitPc'[y] \in {"setPersona", "finalize"} => mine'[y] \in 1..Len(profiles'[EmailOf(y)'])
                 /\ visitPc'[y] = "createProfile" /\ EmailOf(y)' \notin doubled' =>
                       /\ profiles'[EmailOf(y)'] = <<>>
                       /\ \A z \in Visits : visitPc'[z] = "createProfile" /\ EmailOf(z)' = EmailOf(y)' => z = y
      <4>1. CASE y = x
        BY <2>1, <3>2, <3>4, <4>1 DEF e
      <4>2. CASE y # x
        BY <2>1, <3>2, <3>4, <4>2 DEF ProfilesFit, e
      <4> QED BY <4>1, <4>2
    <3>7. ProfilesFit'
      BY <3>5, <3>6 DEF ProfilesFit
    <3>8. FinishedStayFinished'
      BY <3>2 DEF FinishedStayFinished
    <3> QED BY <3>7, <3>8
  <2>10. CASE CreateProfile(x)
    <3> DEFINE e == EmailOf(x)
    <3>1. /\ visitPc[x] = "createProfile" /\ e \in Emails /\ visit' = visit
          /\ profiles[e] \in Seq(Statuses) /\ user[e] = "member"
      BY <2>2, <2>10 DEF CreateProfile, Goes, ProfilesFit, AccountTypeOK
    <3>2. /\ \A y \in Visits : EmailOf(y)' = EmailOf(y)
          /\ UNCHANGED <<user, wish, doubled>>
          /\ profiles'[e] = Append(profiles[e], "in_progress")
          /\ \A d \in Emails \ {e} : profiles'[d] = profiles[d]
          /\ mine'[x] = Len(profiles[e]) + 1
          /\ visitPc'[x] \in {"setPersona", "finalize", "done"}
      BY <2>10, <3>1 DEF CreateProfile, Goes, WorksOn, AfterProfile, EmailOf, accountHistories, AccountTypeOK
    <3>3. Len(profiles'[e]) = Len(profiles[e]) + 1 /\ Len(profiles[e]) \in Nat /\ profiles'[e] # <<>>
      BY <3>1, <3>2
    <3>4. e \notin doubled => profiles'[e] = <<wish[e]>>
      <4> SUFFICES ASSUME e \notin doubled PROVE profiles'[e] = <<wish[e]>>
        OBVIOUS
      <4>1. profiles[e] = <<>> /\ wish[e] = "in_progress"
        BY <3>1 DEF ProfilesFit
      <4>2. Append(<<>>, "in_progress") = <<"in_progress">>
        OBVIOUS
      <4> QED BY <3>2, <4>1, <4>2
    <3>5. \A y \in Visits : visitPc[y] # "idle" => EmailOf(y) \in Emails
      BY AskedUnderWay
    <3>6. \A y \in Visits \ {x} : visitPc[y] = "createProfile" /\ EmailOf(y) = e => e \in doubled
      BY <3>1 DEF ProfilesFit
    <3> HIDE DEF e
    <3>7. \A d \in Emails : /\ user'[d] # "member" => profiles'[d] = <<>>
                            /\ profiles'[d] = <<>> => wish'[d] = "in_progress"
      BY <3>1, <3>2, <3>3 DEF ProfilesFit
    <3>8. ASSUME NEW y \in Visits
          PROVE  /\ visitPc'[y] \in {"createProfile", "setPersona", "finalize"} => user'[EmailOf(y)'] = "member"
                 /\ visitPc'[y] \in {"setPersona", "finalize"} => mine'[y] \in 1..Len(profiles'[EmailOf(y)'])
                 /\ visitPc'[y] = "createProfile" /\ EmailOf(y)' \notin doubled' =>
                       /\ profiles'[EmailOf(y)'] = <<>>
                       /\ \A z \in Visits : visitPc'[z] = "createProfile" /\ EmailOf(z)' = EmailOf(y)' => z = y
      <4>1. CASE y = x
        BY <3>1, <3>2, <3>3, <4>1 DEF e
      <4>2. CASE y # x /\ EmailOf(y) = e
        BY <2>1, <3>2, <3>3, <3>6, <4>2 DEF ProfilesFit
      <4>3. CASE y # x /\ EmailOf(y) # e
        BY <2>1, <3>2, <3>5, <4>3 DEF ProfilesFit
      <4> QED BY <4>1, <4>2, <4>3
    <3>9. ProfilesFit'
      BY <3>7, <3>8 DEF ProfilesFit
    <3>10. FinishedStayFinished'
      BY <3>2, <3>4 DEF FinishedStayFinished
    <3> QED BY <3>9, <3>10
  <2> QED BY <1>2, <2>3, <2>4, <2>5, <2>6, <2>7, <2>8, <2>9, <2>10 DEF Step, Register, Onboard
<1> QED BY <1>1, <1>2 DEF AccountNext, Step

--------------------------------------------------------------------------------
\* A step that changes no plan and makes nobody read one leaves what is known of them.
LEMMA PlansElsewhere ==
    ASSUME AccountInv, NEW x \in Visits,
           \A y \in Visits \ {x} :
              visitPc'[y] = visitPc[y] /\ visit'[y] = visit[y] /\ current'[y] = current[y],
           visitPc'[x] # "finalize",
           UNCHANGED <<changes, outrun>>,
           \A n \in Names : /\ tenant'[n] = NoTenant <=> tenant[n] = NoTenant
                            /\ tenant'[n].plan = tenant[n].plan
    PROVE  PlansAreKnown' /\ ChangesFormAChain'
<1> USE DEF AccountInv
<1>1. ASSUME NEW y \in Visits, visitPc'[y] = "finalize"
      PROVE  /\ visitPc[y] = "finalize" /\ current'[y] = current[y]
             /\ SlugOf(y)' = SlugOf(y) /\ SlugOf(y) \in Names
  BY <1>1, AskedUnderWay DEF SlugOf, EmailOf
<1>2. PlansAreKnown'
  BY <1>1 DEF PlansAreKnown
<1>3. \A n, i : PlanBefore(n, i)' = PlanBefore(n, i)
  BY DEF PlanBefore
<1>4. ChangesFormAChain'
  BY <1>3 DEF ChangesFormAChain
<1> QED BY <1>2, <1>4

\* Who comes to choose a plan has just read the plan of its tenant.
LEMMA PlansRead ==
    ASSUME AccountInv, NEW x \in Visits, NEW position,
           user[EmailOf(x)] = "member", EmailOf(x) \in Emails,
           \A y \in Visits \ {x} : visitPc'[y] = visitPc[y] /\ current'[y] = current[y],
           WorksOn(x, position),
           UNCHANGED <<tenant, visit, changes, outrun>>
    PROVE  PlansAreKnown' /\ ChangesFormAChain'
<1> USE DEF AccountInv
<1>1. /\ SlugOf(x) \in Names /\ tenant[SlugOf(x)] # NoTenant
      /\ current'[x] = tenant[SlugOf(x)].plan
  BY DEF WorksOn, AccountsAreWhole, NoTenant, SlugOf, Emails, AccountTypeOK
<1>2. current'[x] \in Plans
  BY <1>1 DEF PlansAreKnown
<1>3. \A y \in Visits : SlugOf(y)' = SlugOf(y)
  BY DEF SlugOf, EmailOf
<1>4. PlansAreKnown'
  BY <1>1, <1>2, <1>3 DEF PlansAreKnown
<1>5. \A n, i : PlanBefore(n, i)' = PlanBefore(n, i)
  BY DEF PlanBefore
<1>6. ChangesFormAChain'
  BY <1>5 DEF ChangesFormAChain
<1> QED BY <1>4, <1>6

\* A committed choice of a plan is a link of the chain.
LEMMA PlansChange ==
    ASSUME AccountInv, NEW x \in Visits, FinalizePlanSelection(x),
           \A y \in Visits \ {x} : visitPc'[y] = visitPc[y] /\ current'[y] = current[y]
    PROVE  PlansAreKnown' /\ ChangesFormAChain'
<1> USE DEF AccountInv
<1>0. PICK n \in Names : n = SlugOf(x)
  BY AskedUnderWay DEF FinalizePlanSelection, Goes
<1> DEFINE c == [from |-> current[x], to |-> visit[x].plan, by |-> x]
<1>1. /\ visitPc[x] = "finalize" /\ visitPc'[x] = "done" /\ visit' = visit
      /\ EmailOf(x) \in Emails
  BY AskedUnderWay DEF FinalizePlanSelection, Goes, AccountTypeOK
<1>2. visit[x].plan \in Plans
  BY <1>1, AskedUnderWay DEF VisitsFit, Visits
<1>3. tenant[n] # NoTenant
  BY <1>0, <1>1 DEF ProfilesFit, AccountsAreWhole, NoTenant, SlugOf
<1>4. /\ tenant'[n].plan = visit[x].plan /\ tenant'[n] # NoTenant
      /\ \A m \in Names \ {n} : tenant'[m] = tenant[m]
  BY <1>0, <1>1, <1>2, AccountsAssumption DEF FinalizePlanSelection, AccountTypeOK, Tenant, NoTenant
<1>5. /\ changes'[n] = Append(changes[n], c)
      /\ \A m \in Names \ {n} : changes'[m] = changes[m]
      /\ outrun \subseteq outrun'
      /\ \A y \in Visits \ {x} : visitPc[y] = "finalize" /\ SlugOf(y) = n => y \in outrun'
      /\ x \in outrun' => x \in outrun
  BY <1>0, <1>1 DEF FinalizePlanSelection, AccountTypeOK
<1>6. changes[n] \in Seq(Change)
  BY <1>1 DEF AccountTypeOK
<1>7. c.from = current[x] /\ c.to = visit[x].plan /\ c.by = x
  OBVIOUS
<1>8. \A y \in Visits : /\ visitPc[y] # "idle" => SlugOf(y) \in Names
                        /\ SlugOf(y)' = SlugOf(y)
  BY <1>1, AskedUnderWay DEF SlugOf, EmailOf
<1> HIDE DEF c
<1>9. /\ Len(changes'[n]) = Len(changes[n]) + 1 /\ Len(changes[n]) \in Nat
      /\ DOMAIN changes'[n] = 1..Len(changes[n]) + 1 /\ DOMAIN changes[n] = 1..Len(changes[n])
      /\ changes'[n][Len(changes[n]) + 1] = c
      /\ \A i \in 1..Len(changes[n]) : changes'[n][i] = changes[n][i]
  <2> DEFINE s == changes[n]
  <2>1. s \in Seq(Change) /\ changes'[n] = Append(s, c)
    BY <1>5, <1>6
  <2> HIDE DEF s
  <2>2. /\ Len(Append(s, c)) = Len(s) + 1 /\ Len(s) \in Nat
        /\ DOMAIN Append(s, c) = 1..Len(s) + 1 /\ DOMAIN s = 1..Len(s)
        /\ Append(s, c)[Len(s) + 1] = c
        /\ \A i \in 1..Len(s) : Append(s, c)[i] = s[i]
    BY <2>1
  <2> QED BY <2>1, <2>2 DEF s
<1>10. /\ \A m \in Names \ {n}, i \in Nat : PlanBefore(m, i)' = PlanBefore(m, i)
       /\ \A i \in 1..Len(changes[n]) + 1 : PlanBefore(n, i)' = PlanBefore(n, i)
       /\ PlanBefore(n, Len(changes[n]) + 1)' = visit[x].plan
  <2>1. \A m \in Names \ {n}, i \in Nat : PlanBefore(m, i)' = PlanBefore(m, i)
    BY <1>5 DEF PlanBefore
  <2>2. ASSUME NEW i \in 1..Len(changes[n]) + 1 PROVE PlanBefore(n, i)' = PlanBefore(n, i)
    <3>1. i # 1 => i - 1 \in 1..Len(changes[n])
      BY <1>9
    <3> QED BY <1>9, <3>1 DEF PlanBefore
  <2>3. PlanBefore(n, Len(changes[n]) + 1)' = visit[x].plan
    <3>1. /\ Len(changes'[n]) + 1 # 1
          /\ (Len(changes'[n]) + 1) - 1 = Len(changes[n]) + 1
      BY <1>9
    <3> QED BY <1>7, <1>9, <3>1 DEF PlanBefore
  <2> QED BY <2>1, <2>2, <2>3
<1>11. PlansAreKnown'
  <2>1. ASSUME NEW y \in Visits, visitPc'[y] = "finalize"
        PROVE  /\ current'[y] \in Plans
               /\ y \notin outrun' => current'[y] = tenant'[SlugOf(y)'].plan
    <3>1. y # x /\ visitPc[y] = "finalize" /\ current'[y] = current[y]
      BY <1>1, <2>1
    <3>2. y \notin outrun' => y \notin outrun /\ SlugOf(y) # n
      BY <1>5, <3>1
    <3> QED BY <1>4, <1>8, <3>1, <3>2 DEF PlansAreKnown
  <2>2. ASSUME NEW m \in Names
        PROVE  /\ tenant'[m] = NoTenant => changes'[m] = <<>>
               /\ tenant'[m] # NoTenant => tenant'[m].plan \in Plans
    BY <1>2, <1>4, <1>5 DEF PlansAreKnown
  <2> QED BY <2>1, <2>2 DEF PlansAreKnown
<1>12. ChangesFormAChain'
  <2>1. ASSUME NEW m \in Names \ {n}
        PROVE  /\ tenant'[m] # NoTenant => tenant'[m].plan = PlanBefore(m, Len(changes[m]) + 1)'
               /\ \A i \in DOMAIN changes'[m] :
                     changes'[m][i].by \notin outrun' => changes'[m][i].from = PlanBefore(m, i)'
    <3>1. /\ changes[m] \in Seq(Change) /\ Len(changes[m]) + 1 \in Nat
          /\ \A i \in DOMAIN changes[m] : i \in Nat
      BY DEF AccountTypeOK
    <3> QED BY <1>4, <1>5, <1>10, <3>1 DEF ChangesFormAChain
  <2>2. tenant'[n].plan = PlanBefore(n, Len(changes[n]) + 1)'
    BY <1>4, <1>10
  <2>3. ASSUME NEW i \in DOMAIN changes'[n], changes'[n][i].by \notin outrun'
        PROVE  changes'[n][i].from = PlanBefore(n, i)'
    <3>1. CASE i \in 1..Len(changes[n])
      <4>1. changes[n][i].by \notin outrun /\ PlanBefore(n, i)' = PlanBefore(n, i)
        BY <1>5, <1>9, <1>10, <2>3, <3>1
      <4> QED BY <1>1, <1>9, <3>1, <4>1 DEF ChangesFormAChain
    <3>2. CASE i = Len(changes[n]) + 1
      <4>1. x \notin outrun
        BY <1>5, <1>7, <1>9, <2>3, <3>2
      <4>2. current[x] = tenant[n].plan
        BY <1>0, <1>1, <4>1 DEF PlansAreKnown
      <4>3. tenant[n].plan = PlanBefore(n, i) /\ PlanBefore(n, i)' = PlanBefore(n, i)
        BY <1>1, <1>3, <1>9, <1>10, <3>2 DEF ChangesFormAChain
      <4> QED BY <1>7, <1>9, <3>2, <4>2, <4>3
    <3> QED BY <1>9, <2>3, <3>1, <3>2
  <2> QED BY <2>1, <2>2, <2>3 DEF ChangesFormAChain
<1> QED BY <1>11, <1>12

\* Plans stay known to who chooses, and changes stay a chain.
LEMMA PlansStep == AccountInv /\ AccountNext => PlansAreKnown' /\ ChangesFormAChain'
<1> SUFFICES ASSUME AccountInv, AccountNext PROVE PlansAreKnown' /\ ChangesFormAChain'
  OBVIOUS
<1> USE DEF AccountInv
<1>1. ASSUME NEW e \in Emails, AddUser(e) PROVE PlansAreKnown' /\ ChangesFormAChain'
  <2>1. UNCHANGED <<tenant, changes, visitPc, visit, current, outrun>>
    BY <1>1 DEF AddUser, accountHistories
  <2> QED BY <2>1 DEF PlansAreKnown, ChangesFormAChain, PlanBefore, SlugOf, EmailOf
<1>2. ASSUME NEW x \in Visits, Step(x) PROVE PlansAreKnown' /\ ChangesFormAChain'
  <2>1. \A y \in Visits \ {x} :
           visitPc'[y] = visitPc[y] /\ visit'[y] = visit[y] /\ current'[y] = current[y]
    BY <1>2, OthersStay
  <2>2. ASSUME visitPc[x] # "idle"
        PROVE  visit' = visit /\ SlugOf(x) \in Names /\ EmailOf(x) \in Emails
    BY <1>2, <2>2, OthersStay, AskedUnderWay
  <2>3. CASE Arrive(x)
    <3>1. visitPc'[x] # "finalize"
      BY <2>3 DEF Arrive, Goes, AccountTypeOK
    <3> QED BY <2>1, <2>3, <3>1, PlansElsewhere DEF Arrive, accountHistories
  <2>4. CASE FindUser(x) \/ CreateBrand(x) \/ CreateMember(x)
    <3>1. visitPc'[x] # "finalize"
      BY <2>4, Continues DEF FindUser, CreateBrand, CreateMember, Goes, AccountTypeOK
    <3> QED BY <2>1, <2>4, <3>1, PlansElsewhere DEF FindUser, CreateBrand, CreateMember, accountHistories
  <2>5. CASE UpdatePersona(x) \/ StopVisit(x)
    <3>1. visitPc'[x] # "finalize"
      BY <2>5 DEF UpdatePersona, StopVisit, Goes, AccountTypeOK
    <3> QED BY <2>1, <2>5, <3>1, PlansElsewhere DEF UpdatePersona, StopVisit
  <2>6. CASE SetDefaultBrand(x)
    <3>1. visitPc'[x] # "finalize" /\ visitPc[x] = "setDefault" /\ SlugOf(x) \in Names
      BY <2>2, <2>6, Continues DEF SetDefaultBrand, Goes, AccountTypeOK
    <3>2. tenant[SlugOf(x)] # NoTenant
      BY <3>1 DEF BuildersOwn, Building
    <3>3. \A n \in Names : /\ tenant'[n] = NoTenant <=> tenant[n] = NoTenant
                           /\ tenant'[n].plan = tenant[n].plan
      BY <2>6, <3>1, <3>2 DEF SetDefaultBrand, AccountTypeOK, Tenant, NoTenant
    <3> QED BY <2>1, <2>6, <3>1, <3>3, PlansElsewhere DEF SetDefaultBrand, accountHistories
  <2>7. CASE CreateTenant(x)
    <3>1. /\ visitPc'[x] # "finalize" /\ visit' = visit /\ SlugOf(x) \in Names
          /\ tenant[SlugOf(x)] = NoTenant
      BY <2>2, <2>7, Continues DEF CreateTenant, Goes, AccountTypeOK
    <3>2. /\ \A n \in Names \ {SlugOf(x)} : tenant'[n] = tenant[n]
          /\ tenant'[SlugOf(x)] # NoTenant /\ tenant'[SlugOf(x)].plan = Free
          /\ UNCHANGED <<changes, outrun>>
      BY <2>7, <3>1, AccountsAssumption DEF CreateTenant, AccountTypeOK, NoTenant, accountHistories
    <3>3. changes[SlugOf(x)] = <<>>
      BY <3>1 DEF PlansAreKnown
    <3>4. ASSUME NEW y \in Visits, visitPc'[y] = "finalize"
          PROVE  /\ visitPc[y] = "finalize" /\ current'[y] = current[y]
                 /\ SlugOf(y)' = SlugOf(y) /\ tenant'[SlugOf(y)] = tenant[SlugOf(y)]
      <4>1. y # x /\ visitPc[y] = "finalize" /\ current'[y] = current[y] /\ SlugOf(y)' = SlugOf(y)
        BY <2>1, <3>1, <3>4 DEF SlugOf, EmailOf
      <4>2. EmailOf(y) \in Emails /\ SlugOf(y) \in Names /\ user[EmailOf(y)] = "member"
        BY <4>1, AskedUnderWay DEF ProfilesFit
      <4>3. tenant[SlugOf(y)] # NoTenant
        BY <4>2 DEF AccountsAreWhole, NoTenant, SlugOf
      <4> QED BY <3>1, <3>2, <4>1, <4>2, <4>3
    <3>5. PlansAreKnown'
      BY <3>2, <3>4, AccountsAssumption DEF PlansAreKnown
    <3>6. \A n, i : PlanBefore(n, i)' = PlanBefore(n, i)
      BY <3>2 DEF PlanBefore
    <3>7. Len(changes[SlugOf(x)]) = 0 /\ PlanBefore(SlugOf(x), Len(changes[SlugOf(x)]) + 1) = Free
      BY <3>3 DEF PlanBefore
    <3>8. ChangesFormAChain'
      BY <3>2, <3>6, <3>7 DEF ChangesFormAChain
    <3> QED BY <3>5, <3>8
  <2>8. CASE FindProfile(x)
    <3>1. visitPc[x] = "findProfile" /\ UNCHANGED <<tenant, visit, changes, outrun>>
      BY <2>8 DEF FindProfile
    <3>2. CASE visitPc'[x] # "finalize"
      BY <2>1, <3>1, <3>2, PlansElsewhere
    <3>3. CASE visitPc'[x] = "finalize"
      <4>1. user[EmailOf(x)] = "member" /\ \E i : WorksOn(x, i)
        BY <2>8, <3>1, <3>3 DEF FindProfile, Goes, AccountTypeOK
      <4> QED BY <2>1, <2>2, <3>1, <4>1, PlansRead
    <3> QED BY <3>2, <3>3
  <2>9. CASE CreateProfile(x)
    <3>1. /\ visitPc[x] = "createProfile" /\ UNCHANGED <<tenant, visit, changes, outrun>>
          /\ \E i : WorksOn(x, i)
      BY <2>9 DEF CreateProfile, Goes, accountHistories
    <3>2. user[EmailOf(x)] = "member"
      BY <3>1 DEF ProfilesFit
    <3> QED BY <2>1, <2>2, <3>1, <3>2, PlansRead
  <2>10. CASE FinalizePlanSelection(x)
    BY <2>1, <2>10, PlansChange
  <2> QED BY <1>2, <2>3, <2>4, <2>5, <2>6, <2>7, <2>8, <2>9, <2>10 DEF Step, Register, Onboard
<1> QED BY <1>1, <1>2 DEF AccountNext, Step

--------------------------------------------------------------------------------
\* Nothing happens in a stuttering step.
LEMMA AccountStutters == AccountInv /\ UNCHANGED accountVars => AccountInv'
<1> SUFFICES ASSUME AccountInv, UNCHANGED accountVars PROVE AccountInv'
  OBVIOUS
<1> USE DEF AccountInv, accountVars, accountHistories, SlugOf, EmailOf, By
<1>1. AccountTypeOK' /\ VisitsFit'
  BY DEF AccountTypeOK, VisitsFit
<1>2. BuildersOwn' /\ AccountsAreWhole'
  BY DEF BuildersOwn, AccountsAreWhole
<1>3. ProfilesFit' /\ FinishedStayFinished'
  BY DEF ProfilesFit, FinishedStayFinished
<1>4. PlansAreKnown' /\ ChangesFormAChain'
  BY DEF PlansAreKnown, ChangesFormAChain, PlanBefore
<1> QED BY <1>1, <1>2, <1>3, <1>4

\* The invariant holds in every behaviour.
LEMMA AccountInvariance == AccountSpec => []AccountInv
<1>1. AccountInv /\ [AccountNext]_accountVars => AccountInv'
  BY AccountTypeStep, VisitsFitStep, WholeStep, ProfilesStep, PlansStep, AccountStutters DEF AccountInv
<1> QED BY AccountInitInv, <1>1, PTL DEF AccountSpec

\* The state of registration and onboarding is well typed.
THEOREM AccountTypes == AccountSpec => []AccountTypeOK
<1>1. AccountInv => AccountTypeOK
  BY DEF AccountInv
<1> QED BY <1>1, AccountInvariance, PTL

\* For any registrations, however they overlap and wherever they are cut short:
\* whoever is registered has a whole account, and has it alone (auth.service.ts).
THEOREM Whole == AccountSpec => []AccountsAreWhole
<1>1. AccountInv => AccountsAreWhole
  BY DEF AccountInv
<1> QED BY <1>1, AccountInvariance, PTL

\* For any onboarding calls: a finished user stays finished and the recorded changes
\* of a plan form a chain, but for the races that are named (onboarding.service.ts).
THEOREM PlansAccounted == AccountSpec => []PlansAreAccounted
<1>1. AccountInv => PlansAreAccounted
  BY DEF AccountInv, PlansAreAccounted
<1> QED BY <1>1, AccountInvariance, PTL
================================================================================
