-------------------------------- MODULE Accounts --------------------------------
(***************************************************************************)
(* Accounts: the registration of auth.service.ts, which writes a tenant,   *)
(* its brand, a user and an onboarding profile in calls of their own, and  *)
(* the onboarding of that user, whose choice of a plan is a transaction.   *)
(* What holds them together are unique columns: the slug of a tenant and   *)
(* of a brand, the email of a user, and the status of a user's profiles.   *)
(***************************************************************************)
EXTENDS Naturals, Sequences

CONSTANTS
    Names,          \* slugs: what buildSlug makes of the local part of an email
    Domains,        \* what else tells emails apart
    Registrations,  \* calls of register
    Routines,       \* calls of the onboarding routes
    Plans, Free,
    NoPlan

Emails == Names \X Domains
Visits == Registrations \cup Routines

ASSUME AccountsAssumption == Free \in Plans /\ NoPlan \notin Plans /\ Registrations \cap Routines = {}

VARIABLES
    tenant,         \* plan and default brand, of each slug
    brands,         \* slugs whose brand exists
    user,           \* of each email
    profiles,       \* status of each profile of a user, in the order of creation
    changes,        \* TenantPlanChange rows of a tenant, in the order of commits
    visitPc,        \* the step each call takes next
    visit,          \* what it asks for
    mine,           \* position of the profile it works on
    current,        \* currentPlanId: the plan it has read
    wish,           \* history: the status the user's calls have written last
    abandoned,      \* history: slugs whose registration stopped before its user
    doubled,        \* history: users for whom two calls found no profile at once
    outrun          \* history: calls under which the plan has changed

accountHistories == <<wish, abandoned, doubled, outrun>>
accountVars == <<tenant, brands, user, profiles, changes, visitPc, visit, mine, current, accountHistories>>

Tenant == [plan : Plans \cup {NoPlan}, default : BOOLEAN]
NoTenant == [plan |-> NoPlan, default |-> FALSE]
UserKinds == {"none", "alone", "member"}    \* alone: without a tenant
Statuses == {"in_progress", "completed"}
Change == [from : Plans, to : Plans, by : Visits]

Registers == [kind : {"register"}, email : Emails]
Onboards == [kind : {"start", "persona"}, email : Emails]
            \cup [kind : {"select"}, email : Emails, plan : Plans]
NoVisit == [kind |-> "none"]

\* Mutant: the user is created before the default brand is set.
RegistrationUserFirst == <<"findUser", "createTenant", "createBrand", "createUser", "setDefault", "createProfile", "done">>

Registration == <<"findUser", "createTenant", "createBrand", "setDefault", "createUser", "createProfile", "done">>

VisitPhases == {"idle", "findUser", "createTenant", "createBrand", "setDefault", "createUser",
                "findProfile", "createProfile", "setPersona", "finalize", "done"}
Building == {"createBrand", "setDefault", "createUser"}

By(x) == visit[x].kind
EmailOf(x) == visit[x].email
SlugOf(x) == EmailOf(x)[1]

AccountInit ==
    /\ tenant = [n \in Names |-> NoTenant]
    /\ brands = {}
    /\ user = [e \in Emails |-> "none"]
    /\ profiles = [e \in Emails |-> <<>>]
    /\ changes = [n \in Names |-> <<>>]
    /\ visitPc = [x \in Visits |-> "idle"]
    /\ visit = [x \in Visits |-> NoVisit]
    /\ mine = [x \in Visits |-> 0]
    /\ current = [x \in Visits |-> NoPlan]
    /\ wish = [e \in Emails |-> "in_progress"]
    /\ abandoned = {} /\ doubled = {} /\ outrun = {}

Goes(x, from, to) == visitPc[x] = from /\ visitPc' = [visitPc EXCEPT ![x] = to]

\* A registration comes from anybody, the rest with the session of a user.
Arrive(x) ==
    /\ \/ /\ x \in Registrations
          /\ Goes(x, "idle", "findUser")
          /\ visit' \in {[visit EXCEPT ![x] = v] : v \in Registers}
       \/ /\ x \in Routines
          /\ Goes(x, "idle", "findProfile")
          /\ visit' \in {[visit EXCEPT ![x] = v] : v \in {w \in Onboards : user[w.email] # "none"}}
    /\ UNCHANGED <<tenant, brands, user, profiles, changes, mine, current, accountHistories>>

--------------------------------------------------------------------------------
(***************************************************************************)
(* register                                                                *)
(***************************************************************************)
\* The call goes on to what comes after this phase.
Continue(x, phase) ==
    /\ x \in Registrations
    /\ \E i \in 1..6 : Registration[i] = phase /\ Goes(x, phase, Registration[i + 1])

FindUser(x) ==
    /\ \/ Continue(x, "findUser") /\ user[EmailOf(x)] = "none"
       \/ Goes(x, "findUser", "done") /\ user[EmailOf(x)] # "none"
    /\ UNCHANGED <<tenant, brands, user, profiles, changes, visit, mine, current, accountHistories>>

CreateTenant(x) ==
    /\ Continue(x, "createTenant")
    /\ tenant[SlugOf(x)] = NoTenant
    /\ tenant' = [tenant EXCEPT ![SlugOf(x)] = [plan |-> Free, default |-> FALSE]]
    /\ UNCHANGED <<brands, user, profiles, changes, visit, mine, current, accountHistories>>

CreateBrand(x) ==
    /\ Continue(x, "createBrand")
    /\ SlugOf(x) \notin brands
    /\ brands' = brands \cup {SlugOf(x)}
    /\ UNCHANGED <<tenant, user, profiles, changes, visit, mine, current, accountHistories>>

SetDefaultBrand(x) ==
    /\ Continue(x, "setDefault")
    /\ tenant' = [tenant EXCEPT ![SlugOf(x)].default = TRUE]
    /\ UNCHANGED <<brands, user, profiles, changes, visit, mine, current, accountHistories>>

CreateMember(x) ==
    /\ Continue(x, "createUser")
    /\ user[EmailOf(x)] = "none"
    /\ user' = [user EXCEPT ![EmailOf(x)] = "member"]
    /\ UNCHANGED <<tenant, brands, profiles, changes, visit, mine, current, accountHistories>>

\* create of users.service.ts, by an administrator.
AddUser(e) ==
    /\ user[e] = "none"
    /\ user' = [user EXCEPT ![e] = "alone"]
    /\ UNCHANGED <<tenant, brands, profiles, changes, visitPc, visit, mine, current, accountHistories>>

--------------------------------------------------------------------------------
(***************************************************************************)
(* Onboarding                                                              *)
(***************************************************************************)
AfterProfile(x) == CASE By(x) = "persona" -> "setPersona"
                     [] By(x) = "select" -> "finalize"
                     [] OTHER -> "done"

\* Another profile of the user has this status: the write would be refused.
Taken(e, status, own) == \E i \in DOMAIN profiles[e] \ {own} : profiles[e][i] = status

\* Mutant: only a profile in progress is found.
FoundInProgress(e) == {i \in DOMAIN profiles[e] : profiles[e][i] = "in_progress"}

\* findLatestOnboardingProfile, completed or not.
Found(e) == {i \in DOMAIN profiles[e] : i = Len(profiles[e])}

WorksOn(x, position) ==
    /\ mine' = [mine EXCEPT ![x] = position]
    /\ current' = [current EXCEPT ![x] = tenant[SlugOf(x)].plan]

\* The reads of ensureProfile: the tenant of a user never changes.
FindProfile(x) ==
    LET e == EmailOf(x)
    IN  /\ visitPc[x] = "findProfile"
        /\ \/ /\ user[e] = "alone"
              /\ Goes(x, "findProfile", "done")
              /\ UNCHANGED <<mine, current, doubled>>
           \/ /\ user[e] = "member"
              /\ \E i \in Found(e) : WorksOn(x, i)
              /\ Goes(x, "findProfile", AfterProfile(x))
              /\ UNCHANGED doubled
           \/ /\ user[e] = "member" /\ Found(e) = {}
              /\ Goes(x, "findProfile", "createProfile")
              /\ doubled' = IF \E y \in Visits \ {x} : visitPc[y] = "createProfile" /\ EmailOf(y) = e
                          THEN doubled \cup {e} ELSE doubled
              /\ UNCHANGED <<mine, current>>
        /\ UNCHANGED <<tenant, brands, user, profiles, changes, visit, wish, abandoned, outrun>>

\* Of ensureProfile and of register.
CreateProfile(x) ==
    LET e == EmailOf(x)
    IN  /\ Goes(x, "createProfile", AfterProfile(x))
        /\ ~Taken(e, "in_progress", 0)
        /\ profiles' = [profiles EXCEPT ![e] = Append(@, "in_progress")]
        /\ WorksOn(x, Len(profiles[e]) + 1)
        /\ UNCHANGED <<tenant, brands, user, changes, visit, accountHistories>>

SetStatusOf(x, status) ==
    /\ ~Taken(EmailOf(x), status, mine[x])
    /\ profiles' = [profiles EXCEPT ![EmailOf(x)][mine[x]] = status]
    /\ wish' = [wish EXCEPT ![EmailOf(x)] = status]

\* updatePersona opens the onboarding again.
UpdatePersona(x) ==
    /\ Goes(x, "setPersona", "done")
    /\ SetStatusOf(x, "in_progress")
    /\ UNCHANGED <<tenant, brands, user, changes, visit, mine, current, abandoned, doubled, outrun>>

\* The transaction reads nothing and is seen at its commit, or refused as a whole.
FinalizePlanSelection(x) ==
    LET n == SlugOf(x)
    IN  /\ Goes(x, "finalize", "done")
        /\ tenant' = [tenant EXCEPT ![n].plan = visit[x].plan]
        /\ changes' = [changes EXCEPT ![n] = Append(@, [from |-> current[x], to |-> visit[x].plan, by |-> x])]
        /\ SetStatusOf(x, "completed")
        /\ outrun' = outrun \cup {y \in Visits \ {x} : visitPc[y] = "finalize" /\ SlugOf(y) = n}
        /\ UNCHANGED <<brands, user, visit, mine, current, abandoned, doubled>>

\* A call to the database is refused or fails, or the process dies.
StopVisit(x) ==
    /\ visitPc[x] \notin {"idle", "done"}
    /\ visitPc' = [visitPc EXCEPT ![x] = "done"]
    /\ abandoned' = IF visitPc[x] \in Building THEN abandoned \cup {SlugOf(x)} ELSE abandoned
    /\ UNCHANGED <<tenant, brands, user, profiles, changes, visit, mine, current, wish, doubled, outrun>>

--------------------------------------------------------------------------------
Register(x) == FindUser(x) \/ CreateTenant(x) \/ CreateBrand(x) \/ SetDefaultBrand(x) \/ CreateMember(x)
Onboard(x) == FindProfile(x) \/ CreateProfile(x) \/ UpdatePersona(x) \/ FinalizePlanSelection(x)

AccountNext ==
    \/ \E x \in Visits : Arrive(x) \/ Register(x) \/ Onboard(x) \/ StopVisit(x)
    \/ \E e \in Emails : AddUser(e)

AccountSpec == AccountInit /\ [][AccountNext]_accountVars

--------------------------------------------------------------------------------
AccountTypeOK ==
    /\ tenant \in [Names -> Tenant]
    /\ brands \subseteq Names
    /\ user \in [Emails -> UserKinds]
    /\ profiles \in [Emails -> Seq(Statuses)]
    /\ changes \in [Names -> Seq(Change)]
    /\ visitPc \in [Visits -> VisitPhases]
    /\ visit \in [Visits -> Registers \cup Onboards \cup {NoVisit}]
    /\ mine \in [Visits -> Nat]
    /\ current \in [Visits -> Plans \cup {NoPlan}]
    /\ wish \in [Emails -> Statuses]
    /\ abandoned \subseteq Names /\ doubled \subseteq Emails /\ outrun \subseteq Visits

\* Registrations overlap, are cut short and share slugs: still, whoever is
\* registered has a tenant with its default brand and shares it with nobody, and a
\* tenant is without its user only while its registration is under way or after that
\* was cut short.
AccountsAreWhole ==
    /\ \A e \in Emails : user[e] = "member" =>
          /\ tenant[e[1]].default /\ e[1] \in brands
          /\ \A d \in Emails : user[d] = "member" /\ d[1] = e[1] => d = e
    /\ \A n \in Names : tenant[n] # NoTenant =>
          \/ \E e \in Emails : user[e] = "member" /\ e[1] = n
          \/ n \in abandoned
          \/ \E x \in Visits : visitPc[x] \in Building /\ SlugOf(x) = n

FinishedStayFinished ==
    \A e \in Emails \ doubled : profiles[e] \in {<<>>, <<wish[e]>>}

\* The plan before the change at i.
PlanBefore(n, i) == IF i = 1 THEN Free ELSE changes[n][i - 1].to

ChangesFormAChain ==
    \A n \in Names :
        /\ tenant[n] # NoTenant => tenant[n].plan = PlanBefore(n, Len(changes[n]) + 1)
        /\ \A i \in DOMAIN changes[n] :
              changes[n][i].by \notin outrun => changes[n][i].from = PlanBefore(n, i)

\* However the calls of onboarding overlap and fail: a user has one profile, in the
\* status written last, so that who has finished is not sent back, unless two calls
\* found none at once; the plan of a tenant is that of the last change recorded, and
\* each change starts from the plan before it unless another came in between.
PlansAreAccounted == FinishedStayFinished /\ ChangesFormAChain
================================================================================
