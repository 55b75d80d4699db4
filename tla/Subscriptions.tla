--------------------------- MODULE Subscriptions ---------------------------
(***************************************************************************)
(* The subscription of a business: its month of trial and what follows it, *)
(* the plans its owner asks for and the platform grants or refuses, the    *)
(* plans bought from Apple, the platform's changes of the subscription and *)
(* of the business, the entitlements the API keeps in memory for a while,  *)
(* and the users its plan has room for.                                    *)
(*                                                                         *)
(* A call that reads and then writes is two actions, the second named      *)
(* ...Write; other calls may come in between.  The events and the          *)
(* invalidation of the cache that follow a write are taken with it.  A     *)
(* refused call changes nothing and is not modelled.                       *)
(***************************************************************************)
EXTENDS Integers, FiniteSets

CONSTANTS
    Calls,      \* the calls the API may be serving at one time
    Requests,   \* the requests of a change of plan
    Purchases,  \* the purchases of Apple's subscription
    Edits,      \* the changes of a subscription the platform makes
    Limit,      \* the users each plan has room for
    Month,      \* the length of a period, of the trial too
    CacheLife,  \* for how long entitlements are kept: 30 s
    Scenes,     \* bound: the sets of Parts that work together
    MaxTime,    \* bound: the last moment
    MaxSigned,  \* bound: the answers of Apple
    None        \* no value

Parts == {"time", "trial", "expiry", "requests", "edits", "statuses", "apple", "users"}

Plans == {"TRIAL", "POS_FREE", "POS_BASIC", "POS_PREMIUM", "ESSENTIAL", "STANDARD"}

Paid == Plans \ {"TRIAL", "POS_FREE"}

\* PLAN_CODES_TO_LEGACY, and planCodeFor back: POS plans have no column value of their own.
Legacy == [p \in Plans |-> CASE p \in {"TRIAL", "POS_FREE"} -> "FREE"
                             [] p \in {"POS_BASIC", "ESSENTIAL"} -> "ESSENTIAL"
                             [] OTHER -> "STANDARD"]

PlanCode == [l \in {"FREE", "ESSENTIAL", "STANDARD"} |-> IF l = "FREE" THEN "TRIAL" ELSE l]

\* PAST_DUE and CANCELLED are treated as SUSPENDED is.
Statuses == {"TRIALING", "ACTIVE", "SUSPENDED", "EXPIRED"}

Inactive == {"SUSPENDED", "EXPIRED"}

Times == 0 .. MaxTime + Month

Edit == [plan : {"FREE", "ESSENTIAL", "STANDARD", None}, status : Statuses \cup {None},
         start : Times \cup {None}, end : Times \cup {None}]

ASSUME ConstantsAssumption ==
    /\ Edits \subseteq Edit
    /\ Limit \in [Plans -> Nat \ {0}]
    /\ Month \in Nat \ {0} /\ CacheLife \in Nat
    /\ Scenes \subseteq SUBSET Parts
    /\ MaxTime \in Nat /\ MaxSigned \in Nat
    /\ None \notin Nat /\ None \notin Statuses \cup {"FREE", "ESSENTIAL", "STANDARD"}

VARIABLES
    scene,    \* the parts that work
    now,      \* the time
    tenant,   \* status of the business, and whether it has a deletedAt
    sub,      \* the row of TenantSubscription
    granted,  \* history: who set its plan last, and when what Apple granted it for was bought
    request,  \* the requests, and how often each was decided
    latest,   \* the latest event of a change of plan: a request or "decision"
    apple,    \* what Apple knows of each purchase
    signed,   \* the answers Apple has signed
    row,      \* signedAt of the AppleSubscriptionPurchase rows, 0 without one
    heard,    \* history: the newest answer on each purchase that a call has dealt with
    cache,    \* the entitlements in memory
    users,    \* the active users
    call,     \* what each call has read and will write
    marks     \* history: which of Marks have happened so far

vars == <<scene, now, tenant, sub, granted, request, latest, apple, signed, row, heard, cache,
          users, call, marks>>

(***************************************************************************)
(* Two calls dealt with requests at one time ("together"); the platform    *)
(* set a plan beside them ("bypassed"), or stopped the subscription        *)
(* ("stopped"); a write came after its check had stopped to hold           *)
(* ("overtaken"); the subscription changed while its entitlements were     *)
(* being computed ("overlapped") or without a word to the cache            *)
(* ("unannounced"); an error that opening it again met was swallowed       *)
(* ("swallowed"); an answer of Apple was dropped without a trace           *)
(* ("unrecorded"); the platform wrote a later start on a subscription paid *)
(* through Apple ("restarted").                                            *)
(***************************************************************************)
Marks == {"together", "bypassed", "stopped", "overtaken", "overlapped", "unannounced",
          "swallowed", "unrecorded", "restarted"}

\* bought is currentPeriodStart, which is looked at while payment is APPLE only.
Sub == [plan : Plans, legacy : {"FREE", "ESSENTIAL", "STANDARD"}, status : Statuses,
        payment : {"TRIAL", "FREE", "MANUAL_CONFIRMED", "APPLE", "APPLE_FREE", "EXPIRED"},
        end : Times \cup {None}, trialEnd : Times \cup {None}, bought : Times]

TenantStatuses == {"TRIAL", "ACTIVE", "PAUSED", "SUSPENDED", "EXPIRED", "DELETED"}

Entitlements == [plan : Plans, blocked : BOOLEAN, active : BOOLEAN, until : Nat]

Idle == <<"idle">>

Works ==
    {Idle, <<"expire">>, <<"expired">>, <<"unblock">>, <<"unblocked">>}
    \cup {"settle"} \X Statuses
    \cup {"look"} \X Entitlements
    \cup {"ask"} \X Plans
    \cup {"approve", "reject"} \X Requests
    \cup {"edit"} \X Edits \X (Plans \ {"POS_FREE"})
    \cup {"status"} \X TenantStatuses \X BOOLEAN
    \cup {"sync"} \X Purchases \X (0 .. MaxSigned) \X BOOLEAN \X Times \X Times
    \cup {"limit"} \X Nat \X Nat
    \cup {"add"} \X Nat \X Nat \X Nat

TypeOK ==
    /\ scene \in Scenes
    /\ now \in 0 .. MaxTime
    /\ tenant \in [status : TenantStatuses, deleted : BOOLEAN]
    /\ sub \in Sub
    /\ granted \in [by : {"apple", "edit", "other"}, bought : Times]
    /\ request \in [Requests -> [status : {"NONE", "PENDING", "APPROVED", "REFUSED"},
                                 plan : Plans, decisions : Nat]]
    /\ latest \in Requests \cup {"decision", None}
    /\ apple \in [Purchases -> [bought : Times \cup {None}, ends : Times]]
    /\ signed \in 0 .. MaxSigned
    /\ row \in [Purchases -> 0 .. MaxSigned]
    /\ heard \in [Purchases -> [signed : 0 .. MaxSigned, active : BOOLEAN]]
    /\ cache = None \/ cache \in Entitlements
    /\ users \in Nat
    /\ call \in [Calls -> Works]
    /\ marks \subseteq Marks

\* The business has just registered.
Init ==
    /\ scene \in Scenes
    /\ now = 0
    /\ tenant = [status |-> "TRIAL", deleted |-> FALSE]
    /\ sub = [plan |-> "TRIAL", legacy |-> "FREE", status |-> "TRIALING", payment |-> "TRIAL",
              end |-> Month, trialEnd |-> Month, bought |-> 0]
    /\ granted = [by |-> "other", bought |-> 0]
    /\ request = [r \in Requests |-> [status |-> "NONE", plan |-> "TRIAL", decisions |-> 0]]
    /\ latest = None
    /\ apple = [p \in Purchases |-> [bought |-> None, ends |-> 0]]
    /\ signed = 0
    /\ row = [p \in Purchases |-> 0]
    /\ heard = [p \in Purchases |-> [signed |-> 0, active |-> FALSE]]
    /\ cache = None
    /\ users = 1
    /\ call = [c \in Calls |-> Idle]
    /\ marks = {}

-----------------------------------------------------------------------------

Start(c, r) == call[c] = Idle /\ call' = [call EXCEPT ![c] = r]

Return(c) == call' = [call EXCEPT ![c] = Idle]

Mark(ms) == marks' = marks \cup ms

If(condition, m) == IF condition THEN {m} ELSE {}

Grants(who, bought) == granted' = [by |-> who, bought |-> bought]

Asking == <<request, latest>>
Apple == <<apple, signed, row, heard>>
Others(c) == Calls \ {c}

\* The subscription is written: entitlements may be on their way to the cache.
Overlap == If(\E b \in Calls : call[b][1] = "look", "overlapped")

\* currentPeriodEnd ?? trialEndsAt ?? endsAt; the first and the last are written together.
End(s) == IF s.plan = "POS_FREE" THEN None ELSE IF s.end # None THEN s.end ELSE s.trialEnd

Ended(s) == End(s) # None /\ End(s) < now

Active(s) == s.status \notin Inactive /\ ~Ended(s)

View(s) == [plan |-> s.plan, blocked |-> s.status \in Inactive, active |-> Active(s),
            until |-> now + CacheLife]

Live == cache # None /\ now < cache.until

-----------------------------------------------------------------------------
(* The trial and the entitlements.                                         *)

Tick ==
    /\ now < MaxTime
    /\ now' = now + 1
    /\ UNCHANGED <<tenant, sub, granted, cache, users, call, marks, Asking, Apple>>

Due(s) == s.plan = "TRIAL" /\ s.status \in {"TRIALING", "EXPIRED"}
          /\ End(s) # None /\ End(s) <= now

\* getSubscription reads a trial that has ended ...
Settle(c) ==
    /\ Due(sub)
    /\ Start(c, <<"settle", sub.status>>)
    /\ UNCHANGED <<now, tenant, sub, granted, cache, users, marks, Asking, Apple>>

\* The compare-and-set of recalculateStatus.
StillTrial(s, status) == s.plan = "TRIAL" /\ s.status = status

Settled(s) == [s EXCEPT !.plan = "POS_FREE", !.legacy = "FREE", !.status = "ACTIVE",
                        !.payment = "FREE", !.end = None]

\* ... and turns it into the free plan; getEntitlements goes on with the row.
SettleWrite(c, entitle) ==
    /\ call[c][1] = "settle"
    /\ LET settles == StillTrial(sub, call[c][2]) IN
           /\ sub' = IF settles THEN Settled(sub) ELSE sub
           /\ tenant' = IF settles /\ tenant.status \in {"TRIAL", "EXPIRED"}
                        THEN [tenant EXCEPT !.status = "ACTIVE"] ELSE tenant
           /\ IF settles THEN Grants("other", 0) ELSE UNCHANGED granted
           /\ Mark(IF settles THEN Overlap \cup If(~Due(sub), "overtaken") ELSE {})
    /\ call' = [call EXCEPT ![c] = IF entitle THEN <<"look", View(sub')>> ELSE Idle]
    /\ cache' = None
    /\ UNCHANGED <<now, users, Asking, Apple>>

\* getEntitlements reads the row ...
Look(c) ==
    /\ ~Live /\ ~Due(sub)
    /\ Start(c, <<"look", View(sub)>>)
    /\ UNCHANGED <<now, tenant, sub, granted, cache, users, marks, Asking, Apple>>

\* ... and after further reads keeps what it comes to.
LookWrite(c) ==
    /\ call[c][1] = "look"
    /\ cache' = [call[c][2] EXCEPT !.until = now + CacheLife]
    /\ Return(c)
    /\ UNCHANGED <<now, tenant, sub, granted, users, marks, Asking, Apple>>

\* assertTenantStatus finds a business still on trial whose period has ended, on a plan that
\* recalculateStatus leaves alone ...
Expire(c) ==
    /\ tenant.status = "TRIAL" /\ sub.status \notin Inactive /\ Ended(sub) /\ ~Due(sub)
    /\ Start(c, <<"expire">>)
    /\ UNCHANGED <<now, tenant, sub, granted, cache, users, marks, Asking, Apple>>

\* ... and writes its status by id ...
ExpireTenant(c) ==
    /\ call[c] = <<"expire">>
    /\ tenant' = [tenant EXCEPT !.status = "EXPIRED"]
    /\ call' = [call EXCEPT ![c] = <<"expired">>]
    /\ Mark(If(tenant.status # "TRIAL" \/ ~Ended(sub), "overtaken"))
    /\ UNCHANGED <<now, sub, granted, cache, users, Asking, Apple>>

\* ... then that of the subscription.
ExpireWrite(c) ==
    /\ call[c] = <<"expired">>
    /\ sub' = [sub EXCEPT !.status = "EXPIRED", !.payment = "EXPIRED"]
    /\ Mark({"unannounced"} \cup Overlap
            \cup If(~Ended(sub) \/ tenant.status # "EXPIRED", "overtaken"))
    /\ Return(c)
    /\ UNCHANGED <<now, tenant, granted, cache, users, Asking, Apple>>

-----------------------------------------------------------------------------
(* Requests of a plan.                                                     *)

Pending == latest \in Requests /\ request[latest].status = "PENDING"

\* requestPlanChange finds no request pending ...
Ask(c, plan) ==
    /\ sub.payment # "APPLE" /\ ~Due(sub) /\ ~Pending
    /\ ~(sub.plan = plan /\ sub.status = "ACTIVE" /\ Active(sub))
    /\ Start(c, <<"ask", plan>>)
    /\ Mark(If(\E b \in Calls : call[b][1] = "ask", "together"))
    /\ UNCHANGED <<now, tenant, sub, granted, cache, users, Asking, Apple>>

\* ... and records one.
AskWrite(c, r) ==
    /\ call[c][1] = "ask" /\ request[r].status = "NONE"
    /\ request' = [request EXCEPT ![r].status = "PENDING", ![r].plan = call[c][2]]
    /\ latest' = r
    /\ cache' = None
    /\ Return(c)
    /\ UNCHANGED <<now, tenant, sub, granted, users, marks, Apple>>

\* Mutant of Decidable: a request that was decided may be decided again.
DecidableAgain(r) == request[r].status # "NONE"

Decidable(r) == request[r].status = "PENDING"

\* The platform's decision reads the request, in a transaction that locks nothing ...
Decide(c, r, op) ==
    /\ Decidable(r) /\ (op = "approve" => tenant.status # "DELETED")
    /\ Start(c, <<op, r>>)
    /\ Mark(If(\E b \in Calls : call[b] \in {<<"approve", r>>, <<"reject", r>>}, "together"))
    /\ UNCHANGED <<now, tenant, sub, granted, cache, users, Asking, Apple>>

Approved(s, plan) ==
    LET end == IF plan \in {"POS_FREE", "POS_BASIC", "POS_PREMIUM"} THEN now + Month ELSE None
    IN [s EXCEPT !.plan = plan, !.legacy = Legacy[plan], !.status = "ACTIVE",
                 !.payment = IF plan = "POS_FREE" THEN "FREE" ELSE "MANUAL_CONFIRMED",
                 !.end = end, !.trialEnd = None]

\* Mutant of Decision: the cache is not told.
DecisionUnannounced(r, status) ==
    /\ request' = [request EXCEPT ![r].status = status, ![r].decisions = @ + 1]
    /\ latest' = "decision"
    /\ UNCHANGED cache

Decision(r, status) ==
    /\ request' = [request EXCEPT ![r].status = status, ![r].decisions = @ + 1]
    /\ latest' = "decision"
    /\ cache' = None

\* ... and grants the plan, which leaves the status of the business alone ...
ApproveWrite(c, r) ==
    /\ call[c] = <<"approve", r>>
    /\ Decision(r, "APPROVED")
    /\ sub' = Approved(sub, request[r].plan)
    /\ Grants("other", 0)
    /\ Mark(Overlap)
    /\ Return(c)
    /\ UNCHANGED <<now, tenant, users, Apple>>

\* ... or refuses it.
RejectWrite(c, r) ==
    /\ call[c] = <<"reject", r>>
    /\ Decision(r, "REFUSED")
    /\ Return(c)
    /\ UNCHANGED <<now, tenant, sub, granted, users, marks, Apple>>

-----------------------------------------------------------------------------
(* The platform's own changes.                                             *)

\* updateSubscription reads the row for the plan it does not get ...
EditRead(c, e) ==
    /\ Start(c, <<"edit", e, PlanCode[IF e.plan # None THEN e.plan ELSE sub.legacy]>>)
    /\ UNCHANGED <<now, tenant, sub, granted, cache, users, marks, Asking, Apple>>

Given(new, old) == IF new # None THEN new ELSE old

\* ... and writes the plan of that name, also when it was only asked for something else.
EditWrite(c, e) ==
    /\ call[c][1] = "edit" /\ call[c][2] = e
    /\ sub' = [sub EXCEPT !.plan = call[c][3], !.legacy = Given(e.plan, @),
                          !.status = Given(e.status, @), !.bought = Given(e.start, @),
                          !.end = Given(e.end, @)]
    /\ Grants("edit", 0)
    /\ latest' = IF e.plan # None THEN "decision" ELSE latest
    /\ cache' = None
    /\ Mark(Overlap \cup If(e.status \in Inactive, "stopped")
            \cup If(sub.payment = "APPLE" /\ Given(e.start, sub.bought) > sub.bought, "restarted")
            \cup If(e.plan # None /\ (Pending \/ \E b \in Calls : call[b][1] = "ask"), "bypassed"))
    /\ Return(c)
    /\ UNCHANGED <<now, tenant, users, request, Apple>>

\* assertTenantTransition
NextStatuses(status) ==
    {status} \cup
        CASE status = "TRIAL" -> {"ACTIVE", "PAUSED", "SUSPENDED", "EXPIRED", "DELETED"}
          [] status = "ACTIVE" -> {"PAUSED", "SUSPENDED", "EXPIRED", "DELETED"}
          [] status = "PAUSED" -> {"ACTIVE", "SUSPENDED", "DELETED"}
          [] status = "SUSPENDED" -> {"ACTIVE", "DELETED"}
          [] status = "EXPIRED" -> {"ACTIVE", "SUSPENDED", "DELETED"}
          [] status = "DELETED" -> {}

\* updateTenantStatus reads the status and deletedAt ...
SetStatus(c, status) ==
    /\ status \in NextStatuses(tenant.status)
    /\ Start(c, <<"status", status, tenant.deleted>>)
    /\ UNCHANGED <<now, tenant, sub, granted, cache, users, marks, Asking, Apple>>

\* ... writes the new status, and deletedAt as it was read, by id ...
SetStatusWrite(c, status) ==
    /\ call[c][1] = "status" /\ call[c][2] = status
    /\ tenant' = [status |-> status, deleted |-> call[c][3] \/ status = "DELETED"]
    /\ Mark(If(status \notin NextStatuses(tenant.status), "overtaken"))
    /\ call' = [call EXCEPT ![c] = IF status = "ACTIVE" THEN <<"unblock">> ELSE Idle]
    /\ UNCHANGED <<now, sub, granted, cache, users, Asking, Apple>>

\* Mutant of Blocks: a trial that has expired is left.
BlocksNotExpired(s) == s.status = "SUSPENDED"

\* blockingSubscriptionStatuses
Blocks(s) == s.status \in Inactive

\* ... and when it is ACTIVE reads the subscription, and, if that was stopped too ...
Unblock(c) ==
    /\ call[c] = <<"unblock">>
    /\ call' = [call EXCEPT ![c] = IF Blocks(sub) THEN <<"unblocked">> ELSE Idle]
    /\ UNCHANGED <<now, tenant, sub, granted, cache, users, marks, Asking, Apple>>

Reopened(s) ==
    [s EXCEPT !.status = "ACTIVE", !.payment = "MANUAL_CONFIRMED", !.end = None,
              !.trialEnd = None]

\* ... opens it without an end, or fails to without a word; the cache is not told.
UnblockWrite(c) ==
    /\ call[c] = <<"unblocked">>
    /\ \/ sub' = Reopened(sub) /\ Mark({"unannounced"} \cup Overlap)
       \/ sub' = sub /\ Mark({"swallowed"})
    /\ Return(c)
    /\ UNCHANGED <<now, tenant, granted, cache, users, Asking, Apple>>

\* deleteTenant in one transaction.
DeleteTenant ==
    /\ tenant' = [status |-> "DELETED", deleted |-> TRUE]
    /\ users' = 0
    /\ UNCHANGED <<now, sub, granted, cache, call, marks, Asking, Apple>>

-----------------------------------------------------------------------------
(* Apple.                                                                  *)

\* A subscription is bought, renewed, or paid back.
Buy(p) ==
    /\ apple[p].bought = None \/ apple[p].ends > 0
    /\ apple' = [apple EXCEPT ![p] = [bought |-> now, ends |-> now + Month]]
    /\ UNCHANGED <<now, tenant, sub, granted, signed, row, heard, cache, users, call, marks,
                   Asking>>

Refund(p) ==
    /\ apple[p].bought # None
    /\ apple' = [apple EXCEPT ![p].ends = 0]
    /\ UNCHANGED <<now, tenant, sub, granted, signed, row, heard, cache, users, call, marks,
                   Asking>>

\* synchronize gets a signed answer on a purchase ...
Fetch(c, p) ==
    /\ apple[p].bought # None /\ signed < MaxSigned
    /\ signed' = signed + 1
    /\ Start(c, <<"sync", p, signed + 1, apple[p].ends > now, apple[p].bought, apple[p].ends>>)
    /\ UNCHANGED <<now, tenant, sub, granted, apple, row, heard, cache, users, marks, Asking>>

Synced(s, active, bought, ends) ==
    LET plan == IF active THEN "POS_PREMIUM" ELSE "POS_FREE"
    IN [s EXCEPT !.plan = plan, !.legacy = Legacy[plan], !.status = "ACTIVE",
                 !.payment = IF active THEN "APPLE" ELSE "APPLE_FREE",
                 !.end = IF active THEN ends ELSE None, !.bought = bought]

\* Mutant of Outdated: an older answer is taken.
OutdatedNever(p, answer) == FALSE

Outdated(p, answer) == row[p] > answer

\* Mutant of Irrelevant: a purchase that has ended takes a plan of the platform's away.
IrrelevantFormerOnly(active, bought) == sub.payment = "APPLE" /\ sub.bought > bought

\* The former purchase of a business with a newer one; a former Apple plan.
Irrelevant(active, bought) ==
    \/ sub.payment = "APPLE" /\ sub.bought > bought
    \/ ~active /\ sub.payment \notin {"APPLE", "APPLE_FREE"}

Hear(p, answer, active) ==
    heard' = IF answer > heard[p].signed
             THEN [heard EXCEPT ![p] = [signed |-> answer, active |-> active]] ELSE heard

\* ... and in a serializable transaction writes what it comes to ...
SyncWrite(c, p) ==
    /\ call[c][1] = "sync" /\ call[c][2] = p
    /\ tenant.status \in {"ACTIVE", "TRIAL", "EXPIRED"}
    /\ ~Outdated(p, call[c][3]) /\ ~Irrelevant(call[c][4], call[c][5])
    /\ sub' = Synced(sub, call[c][4], call[c][5], call[c][6])
    /\ Grants("apple", call[c][5])
    /\ tenant' = [tenant EXCEPT !.status = "ACTIVE"]
    /\ row' = [row EXCEPT ![p] = call[c][3]]
    /\ Hear(p, call[c][3], call[c][4])
    /\ cache' = None
    /\ Mark(Overlap)
    /\ Return(c)
    /\ UNCHANGED <<now, apple, signed, users, Asking>>

\* ... or leaves everything as it is.
SyncIgnored(c, p) ==
    /\ call[c][1] = "sync" /\ call[c][2] = p
    /\ tenant.status \in {"ACTIVE", "TRIAL", "EXPIRED"}
    /\ Outdated(p, call[c][3]) \/ Irrelevant(call[c][4], call[c][5])
    /\ Hear(p, call[c][3], call[c][4])
    /\ cache' = None
    /\ Mark(If(~Outdated(p, call[c][3]) /\ \E b \in Others(c) : call[b][1] = "sync",
               "unrecorded"))
    /\ Return(c)
    /\ UNCHANGED <<now, tenant, sub, granted, apple, signed, row, users, Asking>>

\* A business that may not pay is refused.
SyncRefused(c, p) ==
    /\ call[c][1] = "sync" /\ call[c][2] = p
    /\ tenant.status \notin {"ACTIVE", "TRIAL", "EXPIRED"}
    /\ Return(c)
    /\ UNCHANGED <<now, tenant, sub, granted, cache, users, marks, Asking, Apple>>

-----------------------------------------------------------------------------
(* Users.                                                                  *)

\* withResourceLimit takes the limit of the entitlements in memory ...
Limited(c) ==
    /\ Live /\ cache.active
    /\ Start(c, <<"limit", Limit[cache.plan], 0>>)
    /\ UNCHANGED <<now, tenant, sub, granted, cache, users, marks, Asking, Apple>>

\* ... counts in a serializable transaction ...
CountUsers(c) ==
    /\ call[c][1] = "limit"
    /\ call' = [call EXCEPT ![c] = IF users < call[c][2]
                                   THEN <<"add", call[c][2], call[c][3], users>> ELSE Idle]
    /\ UNCHANGED <<now, tenant, sub, granted, cache, users, marks, Asking, Apple>>

\* Mutant of Conflict: the isolation level is the default.
ConflictNever(counted) == FALSE

Conflict(counted) == users # counted

\* ... which adds a user unless another one has changed the count ...
AddUser(c) ==
    /\ call[c][1] = "add" /\ ~Conflict(call[c][4])
    /\ users' = users + 1
    /\ cache' = None
    /\ Return(c)
    /\ UNCHANGED <<now, tenant, sub, granted, marks, Asking, Apple>>

\* ... and is tried three times.
Retry(c) ==
    /\ call[c][1] = "add" /\ Conflict(call[c][4])
    /\ call' = [call EXCEPT ![c] = IF call[c][3] < 2
                                   THEN <<"limit", call[c][2], call[c][3] + 1>> ELSE Idle]
    /\ UNCHANGED <<now, tenant, sub, granted, cache, users, marks, Asking, Apple>>

\* disable: the owner stays.
DisableUser ==
    /\ users > 1
    /\ users' = users - 1
    /\ UNCHANGED <<now, tenant, sub, granted, cache, call, marks, Asking, Apple>>

-----------------------------------------------------------------------------

TrialStep ==
    \E c \in Calls :
        \/ Settle(c) \/ Look(c) \/ LookWrite(c)
        \/ \E entitle \in BOOLEAN : SettleWrite(c, entitle)

ExpiryStep == \E c \in Calls : Expire(c) \/ ExpireTenant(c) \/ ExpireWrite(c)

RequestStep ==
    \E c \in Calls :
        \/ \E plan \in {"POS_FREE", "POS_BASIC", "ESSENTIAL"} : Ask(c, plan)
        \/ \E r \in Requests :
               \/ AskWrite(c, r) \/ Decide(c, r, "approve") \/ Decide(c, r, "reject")
               \/ ApproveWrite(c, r) \/ RejectWrite(c, r)

EditStep == \E c \in Calls, e \in Edits : EditRead(c, e) \/ EditWrite(c, e)

StatusStep ==
    \/ DeleteTenant
    \/ \E c \in Calls :
           \/ \E s \in {"ACTIVE", "PAUSED", "SUSPENDED", "EXPIRED", "DELETED"} :
                  SetStatus(c, s) \/ SetStatusWrite(c, s)
           \/ Unblock(c) \/ UnblockWrite(c)

AppleStep ==
    \E p \in Purchases :
        \/ Buy(p) \/ Refund(p)
        \/ \E c \in Calls : Fetch(c, p) \/ SyncWrite(c, p) \/ SyncIgnored(c, p) \/ SyncRefused(c, p)

UserStep ==
    \/ DisableUser
    \/ \E c \in Calls : Limited(c) \/ CountUsers(c) \/ AddUser(c) \/ Retry(c)

Next ==
    /\ UNCHANGED scene
    /\ \/ "time" \in scene /\ Tick
       \/ "trial" \in scene /\ TrialStep
       \/ "expiry" \in scene /\ ExpiryStep
       \/ "requests" \in scene /\ RequestStep
       \/ "edits" \in scene /\ EditStep
       \/ "statuses" \in scene /\ StatusStep
       \/ "apple" \in scene /\ AppleStep
       \/ "users" \in scene /\ UserStep

Spec == Init /\ [][Next]_vars

-----------------------------------------------------------------------------
(* Properties.                                                             *)

Without(ms) == marks \cap ms = {}

\* updateSubscription sets a plan and leaves the payment Apple's.
LeftToApple == granted.by = "edit" /\ sub.payment \in {"APPLE", "APPLE_FREE"}

\* "Compare-and-set prevents a concurrent paid activation from being downgraded": a paid plan
\* becomes the free one by a decision of the platform, or by an answer of Apple on a purchase
\* no older than the one Apple had granted that very plan for. What the platform set Apple does
\* not take away ("cannot downgrade a newer manual plan"), but where it was left to Apple.
PaidPlanKept ==
    [][sub.plan \in Paid /\ sub'.plan = "POS_FREE" =>
           \E c \in Calls :
               /\ call[c] # Idle /\ call'[c] = Idle
               /\ \/ call[c][1] = "approve"
                  \/ /\ call[c][1] = "sync"
                     /\ \/ LeftToApple
                        \/ granted.by = "apple" /\ granted.bought <= call[c][5]]_vars

\* A request is granted or refused once, unless two decisions meet.
AnsweredOnce ==
    Without({"together"}) =>
        \A r \in Requests :
            /\ request[r].decisions <= 1
            /\ request[r].decisions = 1 <=> request[r].status \in {"APPROVED", "REFUSED"}

\* An owner has one request waiting, unless two of his calls meet or the platform has set a
\* plan beside it; and that request is the one the platform is shown.
OneRequestWaits ==
    Without({"together", "bypassed"}) =>
        \A r \in Requests : request[r].status = "PENDING" => latest = r

\* Requests wait one at a time, and are answered once.
RequestsAnswered == AnsweredOnce /\ OneRequestWaits

\* A business that was deleted stays so, unless a change of its status had been checked before.
DeletedForGood == Without({"overtaken"}) => (tenant.deleted <=> tenant.status = "DELETED")

\* Entitlements in memory are those of the row, unless it changed while they were computed.
CacheFollowsPlan ==
    Without({"overlapped", "unannounced"}) /\ cache # None =>
        cache.plan = sub.plan /\ cache.blocked = (sub.status \in Inactive)

\* The comment of updateTenantStatus: reactivating a business brings its subscription back in
\* phase. No active business is stopped by its subscription, unless the platform stopped
\* that or the error of opening it was swallowed.
ActiveIsNotBlocked ==
    /\ Without({"overtaken", "stopped", "swallowed"})
    /\ tenant.status = "ACTIVE"
    /\ \A c \in Calls : call[c][1] \notin {"expired", "unblock", "unblocked"}
    => sub.status \notin Inactive

\* The status of the business agrees with its deletion and with its subscription.
StatusInPhase == DeletedForGood /\ ActiveIsNotBlocked

\* Users are added up to the limit of the entitlements that were read, however many calls
\* add one at a time.
LimitKept ==
    [][users' > users => \E c \in Calls : call[c][1] = "add" /\ users' <= call[c][2]]_vars

\* Answers of Apple may overtake each other: when the newest ones say that no purchase is
\* paid for, none is granted, unless a start that the platform wrote makes them look former.
AppleNewestWins ==
    Without({"unrecorded", "restarted"}) /\ sub.payment = "APPLE" =>
        \E p \in Purchases : heard[p].active
=============================================================================
