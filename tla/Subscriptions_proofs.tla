------------------------ MODULE Subscriptions_proofs ------------------------
(***************************************************************************)
(* Proofs about Subscriptions, for any calls, requests, purchases, edits,  *)
(* limits and lengths of time: the state is well typed; a paid plan is not *)
(* taken by the end of a trial; requests are answered once; the status of  *)
(* the business and its subscription stay in phase; entitlements in memory *)
(* are those of the row; users are not added above the limit that was      *)
(* read; what Apple's newest answers refuse is not granted.                *)
(***************************************************************************)
EXTENDS Subscriptions, TLAPS

(***************************************************************************)
(* What a step may change.                                                 *)
(***************************************************************************)

\* What has happened is not forgotten.
LEMMA MarksGrow ==
    ASSUME [Next]_vars
    PROVE  marks \subseteq marks'
<1> DEFINE Goal == marks \subseteq marks'
<1>1. ASSUME UNCHANGED vars
      PROVE  Goal
  BY <1>1 DEF vars
<1>2. CASE Tick
  BY <1>2 DEF Tick, Mark
<1>3. ASSUME NEW c \in Calls, Settle(c) \/ Look(c) \/ LookWrite(c)
      PROVE  Goal
  BY <1>3 DEF Settle, Look, LookWrite, Mark
<1>4. ASSUME NEW c \in Calls, NEW entitle \in BOOLEAN, SettleWrite(c, entitle)
      PROVE  Goal
  BY <1>4 DEF SettleWrite, Mark
<1>5. ASSUME NEW c \in Calls, Expire(c) \/ ExpireTenant(c) \/ ExpireWrite(c)
      PROVE  Goal
  BY <1>5 DEF Expire, ExpireTenant, ExpireWrite, Mark
<1>6. ASSUME NEW c \in Calls, NEW plan \in {"POS_FREE", "POS_BASIC", "ESSENTIAL"}, Ask(c, plan)
      PROVE  Goal
  BY <1>6 DEF Ask, Mark
<1>7. ASSUME NEW c \in Calls, NEW r \in Requests,
             AskWrite(c, r) \/ Decide(c, r, "approve") \/ Decide(c, r, "reject")
      PROVE  Goal
  BY <1>7 DEF AskWrite, Decide, Mark
<1>8. ASSUME NEW c \in Calls, NEW r \in Requests, ApproveWrite(c, r) \/ RejectWrite(c, r)
      PROVE  Goal
  BY <1>8 DEF ApproveWrite, RejectWrite, Mark
<1>9. ASSUME NEW c \in Calls, NEW e \in Edits, EditRead(c, e) \/ EditWrite(c, e)
      PROVE  Goal
  BY <1>9 DEF EditRead, EditWrite, Mark
<1>10. CASE DeleteTenant \/ DisableUser
  BY <1>10 DEF DeleteTenant, DisableUser, Mark
<1>11. ASSUME NEW c \in Calls, NEW s \in {"ACTIVE", "PAUSED", "SUSPENDED", "EXPIRED", "DELETED"},
             SetStatus(c, s) \/ SetStatusWrite(c, s)
      PROVE  Goal
  BY <1>11 DEF SetStatus, SetStatusWrite, Mark
<1>12. ASSUME NEW c \in Calls, Unblock(c) \/ UnblockWrite(c)
      PROVE  Goal
  BY <1>12 DEF Unblock, UnblockWrite, Mark
<1>13. ASSUME NEW p \in Purchases, Buy(p) \/ Refund(p)
      PROVE  Goal
  BY <1>13 DEF Buy, Refund, Mark
<1>14. ASSUME NEW c \in Calls, NEW p \in Purchases, Fetch(c, p) \/ SyncWrite(c, p)
      PROVE  Goal
  BY <1>14 DEF Fetch, SyncWrite, Mark
<1>15. ASSUME NEW c \in Calls, NEW p \in Purchases, SyncIgnored(c, p) \/ SyncRefused(c, p)
      PROVE  Goal
  BY <1>15 DEF SyncIgnored, SyncRefused, Mark
<1>16. ASSUME NEW c \in Calls, Limited(c) \/ CountUsers(c) \/ AddUser(c) \/ Retry(c)
      PROVE  Goal
  BY <1>16 DEF Limited, CountUsers, AddUser, Retry, Mark
<1> QED
  BY <1>1, <1>2, <1>3, <1>4, <1>5, <1>6, <1>7, <1>8, <1>9, <1>10, <1>11, <1>12, <1>13, <1>14,
     <1>15, <1>16
     DEF Next, TrialStep, ExpiryStep, RequestStep, EditStep, StatusStep, AppleStep,
         UserStep

\* The steps that write the subscription, or who set its plan.
LEMMA PlanSteps ==
    ASSUME [Next]_vars
    PROVE  \/ UNCHANGED <<sub, granted>>
           \/ \E c \in Calls, entitle \in BOOLEAN : SettleWrite(c, entitle)
           \/ \E c \in Calls : ExpireWrite(c) \/ UnblockWrite(c)
           \/ \E c \in Calls, r \in Requests : ApproveWrite(c, r)
           \/ \E c \in Calls, e \in Edits : EditWrite(c, e)
           \/ \E c \in Calls, p \in Purchases : SyncWrite(c, p)
<1> DEFINE Goal == \/ UNCHANGED <<sub, granted>>
                   \/ \E c \in Calls, entitle \in BOOLEAN : SettleWrite(c, entitle)
                   \/ \E c \in Calls : ExpireWrite(c) \/ UnblockWrite(c)
                   \/ \E c \in Calls, r \in Requests : ApproveWrite(c, r)
                   \/ \E c \in Calls, e \in Edits : EditWrite(c, e)
                   \/ \E c \in Calls, p \in Purchases : SyncWrite(c, p)
<1>1. ASSUME UNCHANGED vars
      PROVE  Goal
  BY <1>1 DEF vars
<1>2. CASE Tick
  BY <1>2 DEF Tick
<1>3. ASSUME NEW c \in Calls, Settle(c) \/ Look(c) \/ LookWrite(c)
      PROVE  Goal
  BY <1>3 DEF Settle, Look, LookWrite
<1>4. ASSUME NEW c \in Calls, NEW entitle \in BOOLEAN, SettleWrite(c, entitle)
      PROVE  Goal
  BY <1>4
<1>5. ASSUME NEW c \in Calls, Expire(c) \/ ExpireTenant(c) \/ ExpireWrite(c)
      PROVE  Goal
  BY <1>5 DEF Expire, ExpireTenant
<1>6. ASSUME NEW c \in Calls, NEW plan \in {"POS_FREE", "POS_BASIC", "ESSENTIAL"}, Ask(c, plan)
      PROVE  Goal
  BY <1>6 DEF Ask
<1>7. ASSUME NEW c \in Calls, NEW r \in Requests,
             AskWrite(c, r) \/ Decide(c, r, "approve") \/ Decide(c, r, "reject")
      PROVE  Goal
  BY <1>7 DEF AskWrite, Decide
<1>8. ASSUME NEW c \in Calls, NEW r \in Requests, ApproveWrite(c, r) \/ RejectWrite(c, r)
      PROVE  Goal
  BY <1>8 DEF RejectWrite
<1>9. ASSUME NEW c \in Calls, NEW e \in Edits, EditRead(c, e) \/ EditWrite(c, e)
      PROVE  Goal
  BY <1>9 DEF EditRead
<1>10. CASE DeleteTenant \/ DisableUser
  BY <1>10 DEF DeleteTenant, DisableUser
<1>11. ASSUME NEW c \in Calls, NEW s \in {"ACTIVE", "PAUSED", "SUSPENDED", "EXPIRED", "DELETED"},
             SetStatus(c, s) \/ SetStatusWrite(c, s)
      PROVE  Goal
  BY <1>11 DEF SetStatus, SetStatusWrite
<1>12. ASSUME NEW c \in Calls, Unblock(c) \/ UnblockWrite(c)
      PROVE  Goal
  BY <1>12 DEF Unblock
<1>13. ASSUME NEW p \in Purchases, Buy(p) \/ Refund(p)
      PROVE  Goal
  BY <1>13 DEF Buy, Refund
<1>14. ASSUME NEW c \in Calls, NEW p \in Purchases, Fetch(c, p) \/ SyncWrite(c, p)
      PROVE  Goal
  BY <1>14 DEF Fetch
<1>15. ASSUME NEW c \in Calls, NEW p \in Purchases, SyncIgnored(c, p) \/ SyncRefused(c, p)
      PROVE  Goal
  BY <1>15 DEF SyncIgnored, SyncRefused
<1>16. ASSUME NEW c \in Calls, Limited(c) \/ CountUsers(c) \/ AddUser(c) \/ Retry(c)
      PROVE  Goal
  BY <1>16 DEF Limited, CountUsers, AddUser, Retry
<1> QED
  BY <1>1, <1>2, <1>3, <1>4, <1>5, <1>6, <1>7, <1>8, <1>9, <1>10, <1>11, <1>12, <1>13, <1>14,
     <1>15, <1>16
     DEF Next, TrialStep, ExpiryStep, RequestStep, EditStep, StatusStep, AppleStep,
         UserStep

LEMMA SubSteps ==
    ASSUME [Next]_vars
    PROVE  \/ UNCHANGED sub
           \/ \E c \in Calls, entitle \in BOOLEAN : SettleWrite(c, entitle)
           \/ \E c \in Calls : ExpireWrite(c) \/ UnblockWrite(c)
           \/ \E c \in Calls, r \in Requests : ApproveWrite(c, r)
           \/ \E c \in Calls, e \in Edits : EditWrite(c, e)
           \/ \E c \in Calls, p \in Purchases : SyncWrite(c, p)
  BY PlanSteps

LEMMA GrantedSteps ==
    ASSUME [Next]_vars
    PROVE  \/ UNCHANGED granted
           \/ granted' \in {[by |-> "edit", bought |-> 0], [by |-> "other", bought |-> 0]}
           \/ \E c \in Calls, p \in Purchases : SyncWrite(c, p)
  BY PlanSteps DEF SettleWrite, ExpireWrite, UnblockWrite, ApproveWrite, EditWrite, Grants

\* The steps that write the business.
LEMMA TenantSteps ==
    ASSUME [Next]_vars
    PROVE  \/ UNCHANGED tenant
           \/ DeleteTenant
           \/ \E c \in Calls, entitle \in BOOLEAN : SettleWrite(c, entitle)
           \/ \E c \in Calls : ExpireTenant(c)
           \/ \E c \in Calls, s \in {"ACTIVE", "PAUSED", "SUSPENDED", "EXPIRED", "DELETED"} :
                  SetStatusWrite(c, s)
           \/ \E c \in Calls, p \in Purchases : SyncWrite(c, p)
<1> DEFINE Goal == \/ UNCHANGED tenant
                   \/ DeleteTenant
                   \/ \E c \in Calls, entitle \in BOOLEAN : SettleWrite(c, entitle)
                   \/ \E c \in Calls : ExpireTenant(c)
                   \/ \E c \in Calls, s \in {"ACTIVE", "PAUSED", "SUSPENDED", "EXPIRED", "DELETED"} :
                          SetStatusWrite(c, s)
                   \/ \E c \in Calls, p \in Purchases : SyncWrite(c, p)
<1>1. ASSUME UNCHANGED vars
      PROVE  Goal
  BY <1>1 DEF vars
<1>2. CASE Tick
  BY <1>2 DEF Tick
<1>3. ASSUME NEW c \in Calls, Settle(c) \/ Look(c) \/ LookWrite(c)
      PROVE  Goal
  BY <1>3 DEF Settle, Look, LookWrite
<1>4. ASSUME NEW c \in Calls, NEW entitle \in BOOLEAN, SettleWrite(c, entitle)
      PROVE  Goal
  BY <1>4
<1>5. ASSUME NEW c \in Calls, Expire(c) \/ ExpireTenant(c) \/ ExpireWrite(c)
      PROVE  Goal
  BY <1>5 DEF Expire, ExpireWrite
<1>6. ASSUME NEW c \in Calls, NEW plan \in {"POS_FREE", "POS_BASIC", "ESSENTIAL"}, Ask(c, plan)
      PROVE  Goal
  BY <1>6 DEF Ask
<1>7. ASSUME NEW c \in Calls, NEW r \in Requests,
             AskWrite(c, r) \/ Decide(c, r, "approve") \/ Decide(c, r, "reject")
      PROVE  Goal
  BY <1>7 DEF AskWrite, Decide
<1>8. ASSUME NEW c \in Calls, NEW r \in Requests, ApproveWrite(c, r) \/ RejectWrite(c, r)
      PROVE  Goal
  BY <1>8 DEF ApproveWrite, RejectWrite
<1>9. ASSUME NEW c \in Calls, NEW e \in Edits, EditRead(c, e) \/ EditWrite(c, e)
      PROVE  Goal
  BY <1>9 DEF EditRead, EditWrite
<1>10. CASE DeleteTenant \/ DisableUser
  BY <1>10 DEF DisableUser
<1>11. ASSUME NEW c \in Calls, NEW s \in {"ACTIVE", "PAUSED", "SUSPENDED", "EXPIRED", "DELETED"},
             SetStatus(c, s) \/ SetStatusWrite(c, s)
      PROVE  Goal
  BY <1>11 DEF SetStatus
<1>12. ASSUME NEW c \in Calls, Unblock(c) \/ UnblockWrite(c)
      PROVE  Goal
  BY <1>12 DEF Unblock, UnblockWrite
<1>13. ASSUME NEW p \in Purchases, Buy(p) \/ Refund(p)
      PROVE  Goal
  BY <1>13 DEF Buy, Refund
<1>14. ASSUME NEW c \in Calls, NEW p \in Purchases, Fetch(c, p) \/ SyncWrite(c, p)
      PROVE  Goal
  BY <1>14 DEF Fetch
<1>15. ASSUME NEW c \in Calls, NEW p \in Purchases, SyncIgnored(c, p) \/ SyncRefused(c, p)
      PROVE  Goal
  BY <1>15 DEF SyncIgnored, SyncRefused
<1>16. ASSUME NEW c \in Calls, Limited(c) \/ CountUsers(c) \/ AddUser(c) \/ Retry(c)
      PROVE  Goal
  BY <1>16 DEF Limited, CountUsers, AddUser, Retry
<1> QED
  BY <1>1, <1>2, <1>3, <1>4, <1>5, <1>6, <1>7, <1>8, <1>9, <1>10, <1>11, <1>12, <1>13, <1>14,
     <1>15, <1>16
     DEF Next, TrialStep, ExpiryStep, RequestStep, EditStep, StatusStep, AppleStep,
         UserStep

\* The steps that write a request.
LEMMA RequestSteps ==
    ASSUME [Next]_vars
    PROVE  \/ UNCHANGED <<request, latest>>
           \/ \E c \in Calls, r \in Requests : AskWrite(c, r) \/ ApproveWrite(c, r) \/ RejectWrite(c, r)
           \/ \E c \in Calls, e \in Edits : EditWrite(c, e)
<1> DEFINE Goal == \/ UNCHANGED <<request, latest>>
                   \/ \E c \in Calls, r \in Requests : AskWrite(c, r) \/ ApproveWrite(c, r) \/ RejectWrite(c, r)
                   \/ \E c \in Calls, e \in Edits : EditWrite(c, e)
<1>1. ASSUME UNCHANGED vars
      PROVE  Goal
  BY <1>1 DEF vars
<1>2. CASE Tick
  BY <1>2 DEF Tick, Asking
<1>3. ASSUME NEW c \in Calls, Settle(c) \/ Look(c) \/ LookWrite(c)
      PROVE  Goal
  BY <1>3 DEF Settle, Look, LookWrite, Asking
<1>4. ASSUME NEW c \in Calls, NEW entitle \in BOOLEAN, SettleWrite(c, entitle)
      PROVE  Goal
  BY <1>4 DEF SettleWrite, Asking
<1>5. ASSUME NEW c \in Calls, Expire(c) \/ ExpireTenant(c) \/ ExpireWrite(c)
      PROVE  Goal
  BY <1>5 DEF Expire, ExpireTenant, ExpireWrite, Asking
<1>6. ASSUME NEW c \in Calls, NEW plan \in {"POS_FREE", "POS_BASIC", "ESSENTIAL"}, Ask(c, plan)
      PROVE  Goal
  BY <1>6 DEF Ask, Asking
<1>7. ASSUME NEW c \in Calls, NEW r \in Requests,
             AskWrite(c, r) \/ Decide(c, r, "approve") \/ Decide(c, r, "reject")
      PROVE  Goal
  BY <1>7 DEF Decide, Asking
<1>8. ASSUME NEW c \in Calls, NEW r \in Requests, ApproveWrite(c, r) \/ RejectWrite(c, r)
      PROVE  Goal
  BY <1>8 DEF Asking
<1>9. ASSUME NEW c \in Calls, NEW e \in Edits, EditRead(c, e) \/ EditWrite(c, e)
      PROVE  Goal
  BY <1>9 DEF EditRead, Asking
<1>10. CASE DeleteTenant \/ DisableUser
  BY <1>10 DEF DeleteTenant, DisableUser, Asking
<1>11. ASSUME NEW c \in Calls, NEW s \in {"ACTIVE", "PAUSED", "SUSPENDED", "EXPIRED", "DELETED"},
             SetStatus(c, s) \/ SetStatusWrite(c, s)
      PROVE  Goal
  BY <1>11 DEF SetStatus, SetStatusWrite, Asking
<1>12. ASSUME NEW c \in Calls, Unblock(c) \/ UnblockWrite(c)
      PROVE  Goal
  BY <1>12 DEF Unblock, UnblockWrite, Asking
<1>13. ASSUME NEW p \in Purchases, Buy(p) \/ Refund(p)
      PROVE  Goal
  BY <1>13 DEF Buy, Refund, Asking
<1>14. ASSUME NEW c \in Calls, NEW p \in Purchases, Fetch(c, p) \/ SyncWrite(c, p)
      PROVE  Goal
  BY <1>14 DEF Fetch, SyncWrite, Asking
<1>15. ASSUME NEW c \in Calls, NEW p \in Purchases, SyncIgnored(c, p) \/ SyncRefused(c, p)
      PROVE  Goal
  BY <1>15 DEF SyncIgnored, SyncRefused, Asking
<1>16. ASSUME NEW c \in Calls, Limited(c) \/ CountUsers(c) \/ AddUser(c) \/ Retry(c)
      PROVE  Goal
  BY <1>16 DEF Limited, CountUsers, AddUser, Retry, Asking
<1> QED
  BY <1>1, <1>2, <1>3, <1>4, <1>5, <1>6, <1>7, <1>8, <1>9, <1>10, <1>11, <1>12, <1>13, <1>14,
     <1>15, <1>16
     DEF Next, TrialStep, ExpiryStep, RequestStep, EditStep, StatusStep, AppleStep,
         UserStep

\* The steps that write what is known of Apple's purchases.
LEMMA AppleSteps ==
    ASSUME [Next]_vars
    PROVE  \/ UNCHANGED <<apple, signed, row, heard>>
           \/ \E p \in Purchases : Buy(p) \/ Refund(p)
           \/ \E c \in Calls, p \in Purchases : Fetch(c, p) \/ SyncWrite(c, p) \/ SyncIgnored(c, p)
<1> DEFINE Goal == \/ UNCHANGED <<apple, signed, row, heard>>
                   \/ \E p \in Purchases : Buy(p) \/ Refund(p)
                   \/ \E c \in Calls, p \in Purchases : Fetch(c, p) \/ SyncWrite(c, p) \/ SyncIgnored(c, p)
<1>1. ASSUME UNCHANGED vars
      PROVE  Goal
  BY <1>1 DEF vars
<1>2. CASE Tick
  BY <1>2 DEF Tick, Apple
<1>3. ASSUME NEW c \in Calls, Settle(c) \/ Look(c) \/ LookWrite(c)
      PROVE  Goal
  BY <1>3 DEF Settle, Look, LookWrite, Apple
<1>4. ASSUME NEW c \in Calls, NEW entitle \in BOOLEAN, SettleWrite(c, entitle)
      PROVE  Goal
  BY <1>4 DEF SettleWrite, Apple
<1>5. ASSUME NEW c \in Calls, Expire(c) \/ ExpireTenant(c) \/ ExpireWrite(c)
      PROVE  Goal
  BY <1>5 DEF Expire, ExpireTenant, ExpireWrite, Apple
<1>6. ASSUME NEW c \in Calls, NEW plan \in {"POS_FREE", "POS_BASIC", "ESSENTIAL"}, Ask(c, plan)
      PROVE  Goal
  BY <1>6 DEF Ask, Apple
<1>7. ASSUME NEW c \in Calls, NEW r \in Requests,
             AskWrite(c, r) \/ Decide(c, r, "approve") \/ Decide(c, r, "reject")
      PROVE  Goal
  BY <1>7 DEF AskWrite, Decide, Apple
<1>8. ASSUME NEW c \in Calls, NEW r \in Requests, ApproveWrite(c, r) \/ RejectWrite(c, r)
      PROVE  Goal
  BY <1>8 DEF ApproveWrite, RejectWrite, Apple
<1>9. ASSUME NEW c \in Calls, NEW e \in Edits, EditRead(c, e) \/ EditWrite(c, e)
      PROVE  Goal
  BY <1>9 DEF EditRead, EditWrite, Apple
<1>10. CASE DeleteTenant \/ DisableUser
  BY <1>10 DEF DeleteTenant, DisableUser, Apple
<1>11. ASSUME NEW c \in Calls, NEW s \in {"ACTIVE", "PAUSED", "SUSPENDED", "EXPIRED", "DELETED"},
             SetStatus(c, s) \/ SetStatusWrite(c, s)
      PROVE  Goal
  BY <1>11 DEF SetStatus, SetStatusWrite, Apple
<1>12. ASSUME NEW c \in Calls, Unblock(c) \/ UnblockWrite(c)
      PROVE  Goal
  BY <1>12 DEF Unblock, UnblockWrite, Apple
<1>13. ASSUME NEW p \in Purchases, Buy(p) \/ Refund(p)
      PROVE  Goal
  BY <1>13 DEF Apple
<1>14. ASSUME NEW c \in Calls, NEW p \in Purchases, Fetch(c, p) \/ SyncWrite(c, p)
      PROVE  Goal
  BY <1>14 DEF Apple
<1>15. ASSUME NEW c \in Calls, NEW p \in Purchases, SyncIgnored(c, p) \/ SyncRefused(c, p)
      PROVE  Goal
  BY <1>15 DEF SyncRefused, Apple
<1>16. ASSUME NEW c \in Calls, Limited(c) \/ CountUsers(c) \/ AddUser(c) \/ Retry(c)
      PROVE  Goal
  BY <1>16 DEF Limited, CountUsers, AddUser, Retry, Apple
<1> QED
  BY <1>1, <1>2, <1>3, <1>4, <1>5, <1>6, <1>7, <1>8, <1>9, <1>10, <1>11, <1>12, <1>13, <1>14,
     <1>15, <1>16
     DEF Next, TrialStep, ExpiryStep, RequestStep, EditStep, StatusStep, AppleStep,
         UserStep

\* The steps that write the cache set it to nothing or to what a call has looked up.
LEMMA CacheSteps ==
    ASSUME [Next]_vars
    PROVE  \/ UNCHANGED cache
           \/ cache' = None
           \/ \E c \in Calls : LookWrite(c)
<1> DEFINE Goal == \/ UNCHANGED cache
                   \/ cache' = None
                   \/ \E c \in Calls : LookWrite(c)
<1>1. ASSUME UNCHANGED vars
      PROVE  Goal
  BY <1>1 DEF vars
<1>2. CASE Tick
  BY <1>2 DEF Tick
<1>3. ASSUME NEW c \in Calls, Settle(c) \/ Look(c) \/ LookWrite(c)
      PROVE  Goal
  BY <1>3 DEF Settle, Look
<1>4. ASSUME NEW c \in Calls, NEW entitle \in BOOLEAN, SettleWrite(c, entitle)
      PROVE  Goal
  BY <1>4 DEF SettleWrite
<1>5. ASSUME NEW c \in Calls, Expire(c) \/ ExpireTenant(c) \/ ExpireWrite(c)
      PROVE  Goal
  BY <1>5 DEF Expire, ExpireTenant, ExpireWrite
<1>6. ASSUME NEW c \in Calls, NEW plan \in {"POS_FREE", "POS_BASIC", "ESSENTIAL"}, Ask(c, plan)
      PROVE  Goal
  BY <1>6 DEF Ask
<1>7. ASSUME NEW c \in Calls, NEW r \in Requests,
             AskWrite(c, r) \/ Decide(c, r, "approve") \/ Decide(c, r, "reject")
      PROVE  Goal
  BY <1>7 DEF AskWrite, Decide
<1>8. ASSUME NEW c \in Calls, NEW r \in Requests, ApproveWrite(c, r) \/ RejectWrite(c, r)
      PROVE  Goal
  BY <1>8 DEF ApproveWrite, RejectWrite, Decision
<1>9. ASSUME NEW c \in Calls, NEW e \in Edits, EditRead(c, e) \/ EditWrite(c, e)
      PROVE  Goal
  BY <1>9 DEF EditRead, EditWrite
<1>10. CASE DeleteTenant \/ DisableUser
  BY <1>10 DEF DeleteTenant, DisableUser
<1>11. ASSUME NEW c \in Calls, NEW s \in {"ACTIVE", "PAUSED", "SUSPENDED", "EXPIRED", "DELETED"},
             SetStatus(c, s) \/ SetStatusWrite(c, s)
      PROVE  Goal
  BY <1>11 DEF SetStatus, SetStatusWrite
<1>12. ASSUME NEW c \in Calls, Unblock(c) \/ UnblockWrite(c)
      PROVE  Goal
  BY <1>12 DEF Unblock, UnblockWrite
<1>13. ASSUME NEW p \in Purchases, Buy(p) \/ Refund(p)
      PROVE  Goal
  BY <1>13 DEF Buy, Refund
<1>14. ASSUME NEW c \in Calls, NEW p \in Purchases, Fetch(c, p) \/ SyncWrite(c, p)
      PROVE  Goal
  BY <1>14 DEF Fetch, SyncWrite
<1>15. ASSUME NEW c \in Calls, NEW p \in Purchases, SyncIgnored(c, p) \/ SyncRefused(c, p)
      PROVE  Goal
  BY <1>15 DEF SyncIgnored, SyncRefused
<1>16. ASSUME NEW c \in Calls, Limited(c) \/ CountUsers(c) \/ AddUser(c) \/ Retry(c)
      PROVE  Goal
  BY <1>16 DEF Limited, CountUsers, AddUser, Retry
<1> QED
  BY <1>1, <1>2, <1>3, <1>4, <1>5, <1>6, <1>7, <1>8, <1>9, <1>10, <1>11, <1>12, <1>13, <1>14,
     <1>15, <1>16
     DEF Next, TrialStep, ExpiryStep, RequestStep, EditStep, StatusStep, AppleStep,
         UserStep

\* The steps that add or remove a user.
LEMMA UserSteps ==
    ASSUME [Next]_vars
    PROVE  \/ UNCHANGED users
           \/ DeleteTenant \/ DisableUser
           \/ \E c \in Calls : AddUser(c)
<1> DEFINE Goal == \/ UNCHANGED users
                   \/ DeleteTenant \/ DisableUser
                   \/ \E c \in Calls : AddUser(c)
<1>1. ASSUME UNCHANGED vars
      PROVE  Goal
  BY <1>1 DEF vars
<1>2. CASE Tick
  BY <1>2 DEF Tick
<1>3. ASSUME NEW c \in Calls, Settle(c) \/ Look(c) \/ LookWrite(c)
      PROVE  Goal
  BY <1>3 DEF Settle, Look, LookWrite
<1>4. ASSUME NEW c \in Calls, NEW entitle \in BOOLEAN, SettleWrite(c, entitle)
      PROVE  Goal
  BY <1>4 DEF SettleWrite
<1>5. ASSUME NEW c \in Calls, Expire(c) \/ ExpireTenant(c) \/ ExpireWrite(c)
      PROVE  Goal
  BY <1>5 DEF Expire, ExpireTenant, ExpireWrite
<1>6. ASSUME NEW c \in Calls, NEW plan \in {"POS_FREE", "POS_BASIC", "ESSENTIAL"}, Ask(c, plan)
      PROVE  Goal
  BY <1>6 DEF Ask
<1>7. ASSUME NEW c \in Calls, NEW r \in Requests,
             AskWrite(c, r) \/ Decide(c, r, "approve") \/ Decide(c, r, "reject")
      PROVE  Goal
  BY <1>7 DEF AskWrite, Decide
<1>8. ASSUME NEW c \in Calls, NEW r \in Requests, ApproveWrite(c, r) \/ RejectWrite(c, r)
      PROVE  Goal
  BY <1>8 DEF ApproveWrite, RejectWrite
<1>9. ASSUME NEW c \in Calls, NEW e \in Edits, EditRead(c, e) \/ EditWrite(c, e)
      PROVE  Goal
  BY <1>9 DEF EditRead, EditWrite
<1>10. CASE DeleteTenant \/ DisableUser
  BY <1>10
<1>11. ASSUME NEW c \in Calls, NEW s \in {"ACTIVE", "PAUSED", "SUSPENDED", "EXPIRED", "DELETED"},
             SetStatus(c, s) \/ SetStatusWrite(c, s)
      PROVE  Goal
  BY <1>11 DEF SetStatus, SetStatusWrite
<1>12. ASSUME NEW c \in Calls, Unblock(c) \/ UnblockWrite(c)
      PROVE  Goal
  BY <1>12 DEF Unblock, UnblockWrite
<1>13. ASSUME NEW p \in Purchases, Buy(p) \/ Refund(p)
      PROVE  Goal
  BY <1>13 DEF Buy, Refund
<1>14. ASSUME NEW c \in Calls, NEW p \in Purchases, Fetch(c, p) \/ SyncWrite(c, p)
      PROVE  Goal
  BY <1>14 DEF Fetch, SyncWrite
<1>15. ASSUME NEW c \in Calls, NEW p \in Purchases, SyncIgnored(c, p) \/ SyncRefused(c, p)
      PROVE  Goal
  BY <1>15 DEF SyncIgnored, SyncRefused
<1>16. ASSUME NEW c \in Calls, Limited(c) \/ CountUsers(c) \/ AddUser(c) \/ Retry(c)
      PROVE  Goal
  BY <1>16 DEF Limited, CountUsers, Retry
<1> QED
  BY <1>1, <1>2, <1>3, <1>4, <1>5, <1>6, <1>7, <1>8, <1>9, <1>10, <1>11, <1>12, <1>13, <1>14,
     <1>15, <1>16
     DEF Next, TrialStep, ExpiryStep, RequestStep, EditStep, StatusStep, AppleStep,
         UserStep

\* Only the clock moves the time.
LEMMA TimeSteps ==
    ASSUME [Next]_vars
    PROVE  Tick \/ UNCHANGED now
<1> DEFINE Goal == Tick \/ UNCHANGED now
<1>1. ASSUME UNCHANGED vars
      PROVE  Goal
  BY <1>1 DEF vars
<1>2. CASE Tick
  BY <1>2
<1>3. ASSUME NEW c \in Calls, Settle(c) \/ Look(c) \/ LookWrite(c)
      PROVE  Goal
  BY <1>3 DEF Settle, Look, LookWrite
<1>4. ASSUME NEW c \in Calls, NEW entitle \in BOOLEAN, SettleWrite(c, entitle)
      PROVE  Goal
  BY <1>4 DEF SettleWrite
<1>5. ASSUME NEW c \in Calls, Expire(c) \/ ExpireTenant(c) \/ ExpireWrite(c)
      PROVE  Goal
  BY <1>5 DEF Expire, ExpireTenant, ExpireWrite
<1>6. ASSUME NEW c \in Calls, NEW plan \in {"POS_FREE", "POS_BASIC", "ESSENTIAL"}, Ask(c, plan)
      PROVE  Goal
  BY <1>6 DEF Ask
<1>7. ASSUME NEW c \in Calls, NEW r \in Requests,
             AskWrite(c, r) \/ Decide(c, r, "approve") \/ Decide(c, r, "reject")
      PROVE  Goal
  BY <1>7 DEF AskWrite, Decide
<1>8. ASSUME NEW c \in Calls, NEW r \in Requests, ApproveWrite(c, r) \/ RejectWrite(c, r)
      PROVE  Goal
  BY <1>8 DEF ApproveWrite, RejectWrite
<1>9. ASSUME NEW c \in Calls, NEW e \in Edits, EditRead(c, e) \/ EditWrite(c, e)
      PROVE  Goal
  BY <1>9 DEF EditRead, EditWrite
<1>10. CASE DeleteTenant \/ DisableUser
  BY <1>10 DEF DeleteTenant, DisableUser
<1>11. ASSUME NEW c \in Calls, NEW s \in {"ACTIVE", "PAUSED", "SUSPENDED", "EXPIRED", "DELETED"},
             SetStatus(c, s) \/ SetStatusWrite(c, s)
      PROVE  Goal
  BY <1>11 DEF SetStatus, SetStatusWrite
<1>12. ASSUME NEW c \in Calls, Unblock(c) \/ UnblockWrite(c)
      PROVE  Goal
  BY <1>12 DEF Unblock, UnblockWrite
<1>13. ASSUME NEW p \in Purchases, Buy(p) \/ Refund(p)
      PROVE  Goal
  BY <1>13 DEF Buy, Refund
<1>14. ASSUME NEW c \in Calls, NEW p \in Purchases, Fetch(c, p) \/ SyncWrite(c, p)
      PROVE  Goal
  BY <1>14 DEF Fetch, SyncWrite
<1>15. ASSUME NEW c \in Calls, NEW p \in Purchases, SyncIgnored(c, p) \/ SyncRefused(c, p)
      PROVE  Goal
  BY <1>15 DEF SyncIgnored, SyncRefused
<1>16. ASSUME NEW c \in Calls, Limited(c) \/ CountUsers(c) \/ AddUser(c) \/ Retry(c)
      PROVE  Goal
  BY <1>16 DEF Limited, CountUsers, AddUser, Retry
<1> QED
  BY <1>1, <1>2, <1>3, <1>4, <1>5, <1>6, <1>7, <1>8, <1>9, <1>10, <1>11, <1>12, <1>13, <1>14,
     <1>15, <1>16
     DEF Next, TrialStep, ExpiryStep, RequestStep, EditStep, StatusStep, AppleStep,
         UserStep

(***************************************************************************)
(* Type correctness.                                                       *)
(***************************************************************************)

LEMMA MarksTyped ==
    ASSUME TypeOK, [Next]_vars
    PROVE  marks' \subseteq Marks
<1> DEFINE Goal == marks' \subseteq Marks
<1>0. marks \subseteq Marks
  BY DEF TypeOK
<1>1. ASSUME UNCHANGED vars
      PROVE  Goal
  BY <1>1, <1>0 DEF vars
<1>2. CASE Tick
  BY <1>2, <1>0 DEF Tick, Mark, If, Overlap, Marks
<1>3. ASSUME NEW c \in Calls, Settle(c) \/ Look(c) \/ LookWrite(c)
      PROVE  Goal
  BY <1>3, <1>0 DEF Settle, Look, LookWrite, Mark, If, Overlap, Marks
<1>4. ASSUME NEW c \in Calls, NEW entitle \in BOOLEAN, SettleWrite(c, entitle)
      PROVE  Goal
  BY <1>4, <1>0 DEF SettleWrite, Mark, If, Overlap, Marks
<1>5. ASSUME NEW c \in Calls, Expire(c) \/ ExpireTenant(c) \/ ExpireWrite(c)
      PROVE  Goal
  BY <1>5, <1>0 DEF Expire, ExpireTenant, ExpireWrite, Mark, If, Overlap, Marks
<1>6. ASSUME NEW c \in Calls, NEW plan \in {"POS_FREE", "POS_BASIC", "ESSENTIAL"}, Ask(c, plan)
      PROVE  Goal
  BY <1>6, <1>0 DEF Ask, Mark, If, Overlap, Marks
<1>7. ASSUME NEW c \in Calls, NEW r \in Requests,
             AskWrite(c, r) \/ Decide(c, r, "approve") \/ Decide(c, r, "reject")
      PROVE  Goal
  BY <1>7, <1>0 DEF AskWrite, Decide, Mark, If, Overlap, Marks
<1>8. ASSUME NEW c \in Calls, NEW r \in Requests, ApproveWrite(c, r) \/ RejectWrite(c, r)
      PROVE  Goal
  BY <1>8, <1>0 DEF ApproveWrite, RejectWrite, Mark, If, Overlap, Marks
<1>9. ASSUME NEW c \in Calls, NEW e \in Edits, EditRead(c, e) \/ EditWrite(c, e)
      PROVE  Goal
  BY <1>9, <1>0 DEF EditRead, EditWrite, Mark, If, Overlap, Marks
<1>10. CASE DeleteTenant \/ DisableUser
  BY <1>10, <1>0 DEF DeleteTenant, DisableUser, Mark, If, Overlap, Marks
<1>11. ASSUME NEW c \in Calls, NEW s \in {"ACTIVE", "PAUSED", "SUSPENDED", "EXPIRED", "DELETED"},
             SetStatus(c, s) \/ SetStatusWrite(c, s)
      PROVE  Goal
  BY <1>11, <1>0 DEF SetStatus, SetStatusWrite, Mark, If, Overlap, Marks
<1>12. ASSUME NEW c \in Calls, Unblock(c) \/ UnblockWrite(c)
      PROVE  Goal
  BY <1>12, <1>0 DEF Unblock, UnblockWrite, Mark, If, Overlap, Marks
<1>13. ASSUME NEW p \in Purchases, Buy(p) \/ Refund(p)
      PROVE  Goal
  BY <1>13, <1>0 DEF Buy, Refund, Mark, If, Overlap, Marks
<1>14. ASSUME NEW c \in Calls, NEW p \in Purchases, Fetch(c, p) \/ SyncWrite(c, p)
      PROVE  Goal
  BY <1>14, <1>0 DEF Fetch, SyncWrite, Mark, If, Overlap, Marks
<1>15. ASSUME NEW c \in Calls, NEW p \in Purchases, SyncIgnored(c, p) \/ SyncRefused(c, p)
      PROVE  Goal
  BY <1>15, <1>0 DEF SyncIgnored, SyncRefused, Mark, If, Overlap, Marks
<1>16. ASSUME NEW c \in Calls, Limited(c) \/ CountUsers(c) \/ AddUser(c) \/ Retry(c)
      PROVE  Goal
  BY <1>16, <1>0 DEF Limited, CountUsers, AddUser, Retry, Mark, If, Overlap, Marks
<1> QED
  BY <1>1, <1>2, <1>3, <1>4, <1>5, <1>6, <1>7, <1>8, <1>9, <1>10, <1>11, <1>12, <1>13, <1>14,
     <1>15, <1>16
     DEF Next, TrialStep, ExpiryStep, RequestStep, EditStep, StatusStep, AppleStep,
         UserStep

\* Fields of the tables and their types.
LEMMA RowsTyped ==
    ASSUME ConstantsAssumption, TypeOK
    PROVE  /\ now \in 0 .. MaxTime /\ now + Month \in Times /\ now \in Times
           /\ MaxTime \in Nat /\ MaxSigned \in Nat /\ Month \in Nat /\ CacheLife \in Nat
           /\ sub \in Sub /\ sub.plan \in Plans /\ sub.status \in Statuses
           /\ tenant \in [status : TenantStatuses, deleted : BOOLEAN]
  BY DEF ConstantsAssumption, TypeOK, Sub, Times

LEMMA LegacyTyped ==
    /\ \A p \in Plans : Legacy[p] \in {"FREE", "ESSENTIAL", "STANDARD"}
    /\ \A l \in {"FREE", "ESSENTIAL", "STANDARD"} : PlanCode[l] \in Plans \ {"POS_FREE"}
  BY DEF Legacy, PlanCode, Plans

LEMMA SettledTyped ==
    ASSUME NEW s \in Sub
    PROVE  Settled(s) \in Sub /\ Settled(s).status = "ACTIVE"
  BY DEF Settled, Sub, Plans, Statuses

LEMMA ApprovedTyped ==
    ASSUME ConstantsAssumption, TypeOK, NEW s \in Sub, NEW plan \in Plans
    PROVE  /\ Approved(s, plan) \in Sub
           /\ Approved(s, plan).plan = plan /\ Approved(s, plan).status = "ACTIVE"
<1> DEFINE end == IF plan \in {"POS_FREE", "POS_BASIC", "POS_PREMIUM"} THEN now + Month ELSE None
           pay == IF plan = "POS_FREE" THEN "FREE" ELSE "MANUAL_CONFIRMED"
<1>1. end \in Times \cup {None} /\ Legacy[plan] \in {"FREE", "ESSENTIAL", "STANDARD"}
  BY RowsTyped, LegacyTyped
<1>2. pay \in {"FREE", "MANUAL_CONFIRMED"}
  OBVIOUS
<1>3. Approved(s, plan) = [s EXCEPT !.plan = plan, !.legacy = Legacy[plan], !.status = "ACTIVE",
                                    !.payment = pay, !.end = end, !.trialEnd = None]
  BY DEF Approved
<1> HIDE DEF end, pay
<1> QED
  BY <1>1, <1>2, <1>3 DEF Sub, Statuses

LEMMA SyncedTyped ==
    ASSUME NEW s \in Sub, NEW active \in BOOLEAN, NEW bought \in Times, NEW ends \in Times
    PROVE  /\ Synced(s, active, bought, ends) \in Sub
           /\ Synced(s, active, bought, ends).status = "ACTIVE"
           /\ Synced(s, active, bought, ends).plan = IF active THEN "POS_PREMIUM" ELSE "POS_FREE"
<1>1. Legacy["POS_PREMIUM"] \in {"FREE", "ESSENTIAL", "STANDARD"}
      /\ Legacy["POS_FREE"] \in {"FREE", "ESSENTIAL", "STANDARD"}
  BY LegacyTyped DEF Plans
<1>2. CASE active
  BY <1>1, <1>2 DEF Synced, Sub, Plans, Statuses
<1>3. CASE ~active
  BY <1>1, <1>3 DEF Synced, Sub, Plans, Statuses
<1> QED
  BY <1>2, <1>3

LEMMA ReopenedTyped ==
    ASSUME NEW s \in Sub
    PROVE  Reopened(s) \in Sub /\ Reopened(s).status = "ACTIVE" /\ Reopened(s).plan = s.plan
  BY DEF Reopened, Sub, Statuses

\* What a call that writes the subscription has read.
LEMMA WorkTyped ==
    ASSUME TypeOK, NEW c \in Calls
    PROVE  /\ call[c][1] = "edit" => call[c][2] \in Edits /\ call[c][3] \in Plans \ {"POS_FREE"}
           /\ call[c][1] = "sync" => /\ call[c][3] \in 0 .. MaxSigned /\ call[c][4] \in BOOLEAN
                                    /\ call[c][5] \in Times /\ call[c][6] \in Times
           /\ call[c][1] = "look" => call[c][2] \in Entitlements
           /\ call[c][1] = "ask" => call[c][2] \in Plans
           /\ call[c][1] = "status" => call[c][3] \in BOOLEAN
           /\ call[c][1] = "limit" => call[c][2] \in Nat /\ call[c][3] \in Nat
           /\ call[c][1] = "add" => call[c][2] \in Nat /\ call[c][3] \in Nat /\ call[c][4] \in Nat
<1>0. call[c] \in Works
  BY DEF TypeOK
<1>1. call[c][1] = "edit" => call[c][2] \in Edits /\ call[c][3] \in Plans \ {"POS_FREE"}
  BY <1>0 DEF Works, Idle
<1>2. call[c][1] = "sync" => /\ call[c][3] \in 0 .. MaxSigned /\ call[c][4] \in BOOLEAN
                             /\ call[c][5] \in Times /\ call[c][6] \in Times
  BY <1>0 DEF Works, Idle
<1>3. call[c][1] = "look" => call[c][2] \in Entitlements
  BY <1>0 DEF Works, Idle
<1>4. call[c][1] = "ask" => call[c][2] \in Plans
  BY <1>0 DEF Works, Idle
<1>5. call[c][1] = "limit" => call[c][2] \in Nat /\ call[c][3] \in Nat
  BY <1>0 DEF Works, Idle
<1>6. call[c][1] = "add" => call[c][2] \in Nat /\ call[c][3] \in Nat /\ call[c][4] \in Nat
  BY <1>0 DEF Works, Idle
<1>7. call[c][1] = "status" => call[c][3] \in BOOLEAN
  BY <1>0 DEF Works, Idle
<1> QED
  BY <1>1, <1>2, <1>3, <1>4, <1>5, <1>6, <1>7

\* What a change made by the platform writes.
LEMMA EditedTyped ==
    ASSUME ConstantsAssumption, TypeOK, NEW c \in Calls, NEW e \in Edits, EditWrite(c, e)
    PROVE  /\ sub' \in Sub /\ sub'.plan # "POS_FREE"
           /\ sub'.status = IF e.status # None THEN e.status ELSE sub.status
           /\ sub'.payment = sub.payment /\ sub'.bought = Given(e.start, sub.bought)
<1>1. /\ e.plan \in {"FREE", "ESSENTIAL", "STANDARD", None}
      /\ e.status \in Statuses \cup {None} /\ e.start \in Times \cup {None}
      /\ e.end \in Times \cup {None}
  BY DEF ConstantsAssumption, Edit
<1>2. call[c][3] \in Plans /\ call[c][3] # "POS_FREE" /\ sub \in Sub
  BY WorkTyped DEF EditWrite, TypeOK
<1>3. /\ Given(e.plan, sub.legacy) \in {"FREE", "ESSENTIAL", "STANDARD"}
      /\ Given(e.status, sub.status) \in Statuses /\ Given(e.start, sub.bought) \in Times
      /\ Given(e.end, sub.end) \in Times \cup {None}
  BY <1>1, <1>2 DEF Given, Sub
<1>4. sub' = [sub EXCEPT !.plan = call[c][3], !.legacy = Given(e.plan, sub.legacy),
                         !.status = Given(e.status, sub.status),
                         !.bought = Given(e.start, sub.bought), !.end = Given(e.end, sub.end)]
  BY DEF EditWrite
<1>5. /\ sub' \in Sub /\ sub'.plan = call[c][3] /\ sub'.status = Given(e.status, sub.status)
      /\ sub'.payment = sub.payment /\ sub'.bought = Given(e.start, sub.bought)
  BY <1>2, <1>3, <1>4 DEF Sub
<1> QED
  BY <1>2, <1>5 DEF Given

LEMMA SubTyped ==
    ASSUME ConstantsAssumption, TypeOK, [Next]_vars
    PROVE  sub' \in Sub
<1>0. sub \in Sub /\ \A r \in Requests : request[r].plan \in Plans
  BY DEF TypeOK
<1>1. ASSUME NEW c \in Calls, NEW entitle \in BOOLEAN, SettleWrite(c, entitle)
      PROVE  sub' \in Sub
  BY <1>0, <1>1, SettledTyped DEF SettleWrite
<1>2. ASSUME NEW c \in Calls, ExpireWrite(c) \/ UnblockWrite(c)
      PROVE  sub' \in Sub
  <2>1. CASE ExpireWrite(c)
    <3>1. sub' = [sub EXCEPT !.status = "EXPIRED", !.payment = "EXPIRED"]
      BY <2>1 DEF ExpireWrite
    <3> QED
      BY <1>0, <3>1 DEF Sub, Statuses
  <2>2. CASE UnblockWrite(c)
    BY <1>0, <2>2, ReopenedTyped DEF UnblockWrite
  <2> QED
    BY <1>2, <2>1, <2>2
<1>3. ASSUME NEW c \in Calls, NEW r \in Requests, ApproveWrite(c, r)
      PROVE  sub' \in Sub
  BY <1>0, <1>3, ApprovedTyped DEF ApproveWrite
<1>4. ASSUME NEW c \in Calls, NEW e \in Edits, EditWrite(c, e)
      PROVE  sub' \in Sub
  BY <1>4, EditedTyped
<1>5. ASSUME NEW c \in Calls, NEW p \in Purchases, SyncWrite(c, p)
      PROVE  sub' \in Sub
  BY <1>0, <1>5, SyncedTyped, WorkTyped DEF SyncWrite
<1> QED
  BY SubSteps, <1>0, <1>1, <1>2, <1>3, <1>4, <1>5

LEMMA GrantedTyped ==
    ASSUME ConstantsAssumption, TypeOK, [Next]_vars
    PROVE  granted' \in [by : {"apple", "edit", "other"}, bought : Times]
<1>0. granted \in [by : {"apple", "edit", "other"}, bought : Times] /\ 0 \in Times
  BY DEF TypeOK, ConstantsAssumption, Times
<1>1. ASSUME NEW c \in Calls, NEW p \in Purchases, SyncWrite(c, p)
      PROVE  granted' = [by |-> "apple", bought |-> call[c][5]] /\ call[c][5] \in Times
  BY <1>1, WorkTyped DEF SyncWrite, Grants
<1> QED
  BY <1>0, <1>1, GrantedSteps

LEMMA TenantTyped ==
    ASSUME TypeOK, [Next]_vars
    PROVE  tenant' \in [status : TenantStatuses, deleted : BOOLEAN]
<1> USE DEF TenantStatuses
<1>0. tenant \in [status : TenantStatuses, deleted : BOOLEAN]
  BY DEF TypeOK
<1>1. CASE DeleteTenant
  BY <1>1 DEF DeleteTenant
<1>2. ASSUME NEW c \in Calls, NEW entitle \in BOOLEAN, SettleWrite(c, entitle)
      PROVE  tenant' \in [status : TenantStatuses, deleted : BOOLEAN]
  <2>1. tenant' = tenant \/ tenant' = [tenant EXCEPT !.status = "ACTIVE"]
    BY <1>2 DEF SettleWrite
  <2> QED
    BY <1>0, <2>1
<1>3. ASSUME NEW c \in Calls, ExpireTenant(c)
      PROVE  tenant' \in [status : TenantStatuses, deleted : BOOLEAN]
  BY <1>0, <1>3 DEF ExpireTenant
<1>4. ASSUME NEW c \in Calls, NEW s \in {"ACTIVE", "PAUSED", "SUSPENDED", "EXPIRED", "DELETED"},
             SetStatusWrite(c, s)
      PROVE  tenant' \in [status : TenantStatuses, deleted : BOOLEAN]
  BY <1>0, <1>4, WorkTyped DEF SetStatusWrite
<1>5. ASSUME NEW c \in Calls, NEW p \in Purchases, SyncWrite(c, p)
      PROVE  tenant' \in [status : TenantStatuses, deleted : BOOLEAN]
  BY <1>0, <1>5 DEF SyncWrite
<1> QED
  BY TenantSteps, <1>0, <1>1, <1>2, <1>3, <1>4, <1>5

LEMMA RequestTyped ==
    ASSUME ConstantsAssumption, TypeOK, [Next]_vars
    PROVE  /\ request' \in [Requests -> [status : {"NONE", "PENDING", "APPROVED", "REFUSED"},
                                         plan : Plans, decisions : Nat]]
           /\ latest' \in Requests \cup {"decision", None}
<1> DEFINE Row == [status : {"NONE", "PENDING", "APPROVED", "REFUSED"},
                   plan : Plans, decisions : Nat]
<1>0. request \in [Requests -> Row] /\ latest \in Requests \cup {"decision", None}
  BY DEF TypeOK
<1> DEFINE Goal == request' \in [Requests -> Row] /\ latest' \in Requests \cup {"decision", None}
<1>1. ASSUME NEW c \in Calls, NEW r \in Requests, AskWrite(c, r)
      PROVE  Goal
  BY <1>0, <1>1, WorkTyped DEF AskWrite
<1>2. ASSUME NEW c \in Calls, NEW r \in Requests, ApproveWrite(c, r) \/ RejectWrite(c, r)
      PROVE  Goal
  <2>1. PICK status \in {"APPROVED", "REFUSED"} :
            request' = [request EXCEPT ![r].status = status,
                                       ![r].decisions = request[r].decisions + 1]
    BY <1>2 DEF ApproveWrite, RejectWrite, Decision
  <2>2. latest' = "decision"
    BY <1>2 DEF ApproveWrite, RejectWrite, Decision
  <2> QED
    BY <1>0, <2>1, <2>2
<1>3. ASSUME NEW c \in Calls, NEW e \in Edits, EditWrite(c, e)
      PROVE  Goal
  BY <1>0, <1>3 DEF EditWrite
<1> QED
  BY RequestSteps, <1>0, <1>1, <1>2, <1>3

LEMMA AppleTyped ==
    ASSUME ConstantsAssumption, TypeOK, [Next]_vars
    PROVE  /\ apple' \in [Purchases -> [bought : Times \cup {None}, ends : Times]]
           /\ signed' \in 0 .. MaxSigned
           /\ row' \in [Purchases -> 0 .. MaxSigned]
           /\ heard' \in [Purchases -> [signed : 0 .. MaxSigned, active : BOOLEAN]]
<1> DEFINE Goal ==
        /\ apple' \in [Purchases -> [bought : Times \cup {None}, ends : Times]]
        /\ signed' \in 0 .. MaxSigned
        /\ row' \in [Purchases -> 0 .. MaxSigned]
        /\ heard' \in [Purchases -> [signed : 0 .. MaxSigned, active : BOOLEAN]]
<1>0. /\ apple \in [Purchases -> [bought : Times \cup {None}, ends : Times]]
      /\ signed \in 0 .. MaxSigned
      /\ row \in [Purchases -> 0 .. MaxSigned]
      /\ heard \in [Purchases -> [signed : 0 .. MaxSigned, active : BOOLEAN]]
      /\ now \in Times /\ now + Month \in Times /\ 0 \in Times /\ MaxSigned \in Nat
  BY RowsTyped DEF TypeOK, Times
<1>1. ASSUME NEW p \in Purchases, Buy(p) \/ Refund(p)
      PROVE  Goal
  BY <1>0, <1>1 DEF Buy, Refund
<1>2. ASSUME NEW c \in Calls, NEW p \in Purchases, Fetch(c, p)
      PROVE  Goal
  <2>1. signed + 1 \in 0 .. MaxSigned
    BY <1>0, <1>2 DEF Fetch
  <2> QED
    BY <1>0, <1>2, <2>1 DEF Fetch
<1>3. ASSUME NEW c \in Calls, NEW p \in Purchases, SyncWrite(c, p) \/ SyncIgnored(c, p)
      PROVE  Goal
  <2>1. call[c][3] \in 0 .. MaxSigned /\ call[c][4] \in BOOLEAN
    BY <1>3, WorkTyped DEF SyncWrite, SyncIgnored
  <2> DEFINE n == call[c][3]
             h == [signed |-> n, active |-> call[c][4]]
  <2>2. UNCHANGED <<apple, signed>> /\ (row' = row \/ row' = [row EXCEPT ![p] = n])
    BY <1>3 DEF SyncWrite, SyncIgnored
  <2>3. heard' = heard \/ heard' = [heard EXCEPT ![p] = h]
    BY <1>3 DEF SyncWrite, SyncIgnored, Hear
  <2>4. n \in 0 .. MaxSigned /\ h \in [signed : 0 .. MaxSigned, active : BOOLEAN]
    BY <2>1
  <2> HIDE DEF n, h
  <2>5. row' \in [Purchases -> 0 .. MaxSigned]
    BY <1>0, <2>2, <2>4
  <2>6. heard' \in [Purchases -> [signed : 0 .. MaxSigned, active : BOOLEAN]]
    BY <1>0, <2>3, <2>4
  <2> QED
    BY <1>0, <2>2, <2>5, <2>6
<1> QED
  BY AppleSteps, <1>0, <1>1, <1>2, <1>3

LEMMA CacheTyped ==
    ASSUME ConstantsAssumption, TypeOK, [Next]_vars
    PROVE  cache' = None \/ cache' \in Entitlements
<1>1. ASSUME NEW c \in Calls, LookWrite(c)
      PROVE  cache' \in Entitlements
  <2>1. now + CacheLife \in Nat
    BY RowsTyped
  <2> QED
    BY <1>1, <2>1, WorkTyped DEF LookWrite, Entitlements
<1> QED
  BY CacheSteps, <1>1 DEF TypeOK

LEMMA UsersTyped ==
    ASSUME TypeOK, [Next]_vars
    PROVE  users' \in Nat
  BY UserSteps DEF TypeOK, DeleteTenant, DisableUser, AddUser

LEMMA NowTyped ==
    ASSUME ConstantsAssumption, TypeOK, [Next]_vars
    PROVE  now' \in 0 .. MaxTime
<1>1. CASE Tick
  BY <1>1, RowsTyped DEF Tick
<1> QED
  BY TimeSteps, <1>1, RowsTyped

\* What a call may have read.
LEMMA WorkForms ==
    /\ Idle \in Works /\ <<"expire">> \in Works /\ <<"expired">> \in Works
    /\ <<"unblock">> \in Works /\ <<"unblocked">> \in Works
    /\ \A status \in Statuses : <<"settle", status>> \in Works
    /\ \A e \in Entitlements : <<"look", e>> \in Works
    /\ \A plan \in Plans : <<"ask", plan>> \in Works
    /\ \A r \in Requests : <<"approve", r>> \in Works /\ <<"reject", r>> \in Works
    /\ \A e \in Edits, plan \in Plans \ {"POS_FREE"} : <<"edit", e, plan>> \in Works
    /\ \A status \in TenantStatuses, deleted \in BOOLEAN : <<"status", status, deleted>> \in Works
    /\ \A p \in Purchases, n \in 0 .. MaxSigned, active \in BOOLEAN, bought, ends \in Times :
           <<"sync", p, n, active, bought, ends>> \in Works
    /\ \A n, m \in Nat : <<"limit", n, m>> \in Works
    /\ \A n, m, k \in Nat : <<"add", n, m, k>> \in Works
  BY DEF Works, Idle

LEMMA ViewTyped ==
    ASSUME ConstantsAssumption, TypeOK, NEW s \in Sub
    PROVE  View(s) \in Entitlements
<1>1. s.plan \in Plans /\ now + CacheLife \in Nat
  BY RowsTyped DEF Sub
<1>2. (s.status \in Inactive) \in BOOLEAN /\ Active(s) \in BOOLEAN
  BY DEF Active
<1> QED
  BY <1>1, <1>2 DEF View, Entitlements

LEMMA CallTyped ==
    ASSUME ConstantsAssumption, TypeOK, [Next]_vars
    PROVE  call' \in [Calls -> Works]
<1> DEFINE Goal == call' \in [Calls -> Works]
<1>0. /\ call \in [Calls -> Works] /\ sub \in Sub /\ sub' \in Sub /\ users \in Nat
      /\ sub.status \in Statuses /\ sub.legacy \in {"FREE", "ESSENTIAL", "STANDARD"}
  BY SubTyped DEF TypeOK, Sub
<1>1. ASSUME NEW c \in Calls, NEW r \in Works, call' = [call EXCEPT ![c] = r]
      PROVE  Goal
  BY <1>0, <1>1
<1>2. UNCHANGED call => Goal
  BY <1>0
<1>3. ASSUME NEW c \in Calls, Return(c)
      PROVE  Goal
  BY <1>1, <1>3, WorkForms DEF Return
<1>4. ASSUME NEW c \in Calls, NEW r \in Works, Start(c, r)
      PROVE  Goal
  BY <1>1, <1>4 DEF Start
<1>5. ASSUME NEW c \in Calls, Settle(c) \/ Look(c) \/ LookWrite(c)
      PROVE  Goal
  <2>1. <<"settle", sub.status>> \in Works /\ <<"look", View(sub)>> \in Works
    BY <1>0, ViewTyped, WorkForms
  <2> QED
    BY <1>3, <1>4, <1>5, <2>1 DEF Settle, Look, LookWrite
<1>6. ASSUME NEW c \in Calls, NEW entitle \in BOOLEAN, SettleWrite(c, entitle)
      PROVE  Goal
  <2>1. View(sub') \in Entitlements
    BY <1>0, ViewTyped
  <2>2. <<"look", View(sub')>> \in Works /\ Idle \in Works
    BY <2>1, WorkForms
  <2> QED
    BY <1>1, <1>6, <2>2 DEF SettleWrite
<1>7. ASSUME NEW c \in Calls, Expire(c) \/ ExpireTenant(c) \/ ExpireWrite(c)
      PROVE  Goal
  BY <1>1, <1>3, <1>4, <1>7, WorkForms DEF Expire, ExpireTenant, ExpireWrite
<1>8. ASSUME NEW c \in Calls, NEW plan \in {"POS_FREE", "POS_BASIC", "ESSENTIAL"}, Ask(c, plan)
      PROVE  Goal
  <2>1. <<"ask", plan>> \in Works
    BY WorkForms DEF Plans
  <2> QED
    BY <1>4, <1>8, <2>1 DEF Ask
<1>9. ASSUME NEW c \in Calls, NEW r \in Requests,
             \/ AskWrite(c, r)
             \/ Decide(c, r, "approve")
             \/ Decide(c, r, "reject")
      PROVE  Goal
  <2>1. <<"approve", r>> \in Works /\ <<"reject", r>> \in Works
    BY WorkForms
  <2> QED
    BY <1>3, <1>4, <1>9, <2>1 DEF AskWrite, Decide
<1>10. ASSUME NEW c \in Calls, NEW r \in Requests, ApproveWrite(c, r) \/ RejectWrite(c, r)
       PROVE  Goal
  BY <1>3, <1>10 DEF ApproveWrite, RejectWrite
<1>11. ASSUME NEW c \in Calls, NEW e \in Edits, EditRead(c, e) \/ EditWrite(c, e)
       PROVE  Goal
  <2> DEFINE plan == PlanCode[IF e.plan # None THEN e.plan ELSE sub.legacy]
  <2>1. plan \in Plans \ {"POS_FREE"}
    <3>1. e.plan # None => e.plan \in {"FREE", "ESSENTIAL", "STANDARD"}
      BY DEF ConstantsAssumption, Edit
    <3> QED
      BY <1>0, <3>1, LegacyTyped
  <2>2. <<"edit", e, plan>> \in Works
    BY <2>1, WorkForms
  <2> QED
    BY <1>3, <1>4, <1>11, <2>2 DEF EditRead, EditWrite
<1>12. ASSUME NEW c \in Calls, NEW s \in {"ACTIVE", "PAUSED", "SUSPENDED", "EXPIRED", "DELETED"},
              SetStatus(c, s) \/ SetStatusWrite(c, s)
       PROVE  Goal
  <2>1. tenant.deleted \in BOOLEAN
    BY DEF TypeOK
  <2>2. <<"status", s, tenant.deleted>> \in Works /\ <<"unblock">> \in Works /\ Idle \in Works
    BY <2>1, WorkForms DEF TenantStatuses
  <2> QED
    BY <1>1, <1>4, <1>12, <2>2 DEF SetStatus, SetStatusWrite
<1>13. ASSUME NEW c \in Calls, Unblock(c) \/ UnblockWrite(c)
       PROVE  Goal
  BY <1>1, <1>3, <1>13, WorkForms DEF Unblock, UnblockWrite
<1>14. ASSUME NEW c \in Calls, NEW p \in Purchases, Fetch(c, p)
       PROVE  Goal
  <2> DEFINE active == apple[p].ends > now
  <2>1. /\ signed + 1 \in 0 .. MaxSigned /\ apple[p].bought \in Times /\ apple[p].ends \in Times
        /\ active \in BOOLEAN
    BY <1>14, RowsTyped DEF Fetch, TypeOK
  <2>2. <<"sync", p, signed + 1, active, apple[p].bought, apple[p].ends>> \in Works
    BY <2>1, WorkForms
  <2> QED
    BY <1>4, <1>14, <2>2 DEF Fetch
<1>15. ASSUME NEW c \in Calls, NEW p \in Purchases,
              SyncWrite(c, p) \/ SyncIgnored(c, p) \/ SyncRefused(c, p)
       PROVE  Goal
  BY <1>3, <1>15 DEF SyncWrite, SyncIgnored, SyncRefused
<1>16. ASSUME NEW c \in Calls, Limited(c)
       PROVE  Goal
  <2>1. cache \in Entitlements
    BY <1>16 DEF Limited, Live, TypeOK
  <2>2. Limit[cache.plan] \in Nat
    BY <2>1 DEF Entitlements, ConstantsAssumption
  <2>3. <<"limit", Limit[cache.plan], 0>> \in Works
    BY <2>2, WorkForms
  <2> QED
    BY <1>4, <1>16, <2>3 DEF Limited
<1>17. ASSUME NEW c \in Calls, CountUsers(c) \/ AddUser(c) \/ Retry(c)
       PROVE  Goal
  <2>1. CASE CountUsers(c)
    <3>1. <<"add", call[c][2], call[c][3], users>> \in Works /\ Idle \in Works
      BY <1>0, <2>1, WorkTyped, WorkForms DEF CountUsers
    <3> QED
      BY <1>1, <2>1, <3>1 DEF CountUsers
  <2>2. CASE AddUser(c)
    BY <1>3, <2>2 DEF AddUser
  <2>3. CASE Retry(c)
    <3>1. call[c][2] \in Nat /\ call[c][3] + 1 \in Nat
      BY <2>3, WorkTyped DEF Retry
    <3>2. <<"limit", call[c][2], call[c][3] + 1>> \in Works /\ Idle \in Works
      BY <3>1, WorkForms
    <3> QED
      BY <1>1, <2>3, <3>2 DEF Retry
  <2> QED
    BY <1>17, <2>1, <2>2, <2>3
<1>18. ASSUME NEW p \in Purchases, Buy(p) \/ Refund(p)
       PROVE  Goal
  BY <1>2, <1>18 DEF Buy, Refund
<1>19. ASSUME DeleteTenant \/ DisableUser \/ Tick
       PROVE  Goal
  BY <1>2, <1>19 DEF DeleteTenant, DisableUser, Tick
<1>20. ASSUME UNCHANGED vars
       PROVE  Goal
  BY <1>2, <1>20 DEF vars
<1> HIDE DEF Goal
<1>21. ASSUME TrialStep \/ ExpiryStep
       PROVE  Goal
  BY <1>5, <1>6, <1>7, <1>21 DEF TrialStep, ExpiryStep
<1>22. ASSUME RequestStep
       PROVE  Goal
  BY <1>8, <1>9, <1>10, <1>22 DEF RequestStep
<1>23. ASSUME EditStep \/ StatusStep
       PROVE  Goal
  BY <1>11, <1>12, <1>13, <1>19, <1>23 DEF EditStep, StatusStep
<1>24. ASSUME AppleStep \/ UserStep
       PROVE  Goal
  BY <1>14, <1>15, <1>16, <1>17, <1>18, <1>19, <1>24 DEF AppleStep, UserStep
<1>25. Goal
  BY <1>19, <1>20, <1>21, <1>22, <1>23, <1>24 DEF Next
<1> QED
  BY <1>25 DEF Goal

LEMMA InitTyped ==
    ASSUME ConstantsAssumption, Init
    PROVE  TypeOK
<1>1. 0 \in Times /\ Month \in Times /\ MaxTime \in Nat /\ MaxSigned \in Nat
  BY DEF ConstantsAssumption, Times
<1>2. sub \in Sub
  BY <1>1 DEF Init, Sub, Plans, Statuses
<1>3. tenant \in [status : TenantStatuses, deleted : BOOLEAN]
  BY DEF Init, TenantStatuses
<1> QED
  BY <1>1, <1>2, <1>3, WorkForms DEF Init, TypeOK, Plans

LEMMA TypeKept ==
    ASSUME ConstantsAssumption, TypeOK, [Next]_vars
    PROVE  TypeOK'
<1>1. scene' \in Scenes
  BY DEF TypeOK, Next, vars
<1> QED
  BY <1>1, NowTyped, TenantTyped, SubTyped, GrantedTyped, RequestTyped, AppleTyped, CacheTyped, UsersTyped,
     CallTyped, MarksTyped DEF TypeOK

(***************************************************************************)
(* What calls have read stays true.                                        *)
(***************************************************************************)

\* How a call comes to hold an entitlement, a request, an answer of Apple or a count.
LEMMA CallSteps ==
    ASSUME TypeOK, [Next]_vars, NEW b \in Calls
    PROVE  \/ call'[b] = call[b]
           \/ call'[b][1] \notin {"look", "ask", "approve", "reject", "status", "sync", "add"}
           \/ Look(b) \/ CountUsers(b) \/ \E entitle \in BOOLEAN : SettleWrite(b, entitle)
           \/ \E plan \in {"POS_FREE", "POS_BASIC", "ESSENTIAL"} : Ask(b, plan)
           \/ \E r \in Requests : Decide(b, r, "approve") \/ Decide(b, r, "reject")
           \/ \E s \in {"ACTIVE", "PAUSED", "SUSPENDED", "EXPIRED", "DELETED"} : SetStatus(b, s)
           \/ \E p \in Purchases : Fetch(b, p)
<1> DEFINE Goal == \/ call'[b] = call[b]
                   \/ call'[b][1] \notin {"look", "ask", "approve", "reject", "status", "sync", "add"}
                   \/ Look(b) \/ CountUsers(b) \/ \E entitle \in BOOLEAN : SettleWrite(b, entitle)
                   \/ \E plan \in {"POS_FREE", "POS_BASIC", "ESSENTIAL"} : Ask(b, plan)
                   \/ \E r \in Requests : Decide(b, r, "approve") \/ Decide(b, r, "reject")
                   \/ \E s \in {"ACTIVE", "PAUSED", "SUSPENDED", "EXPIRED", "DELETED"} : SetStatus(b, s)
                   \/ \E p \in Purchases : Fetch(b, p)
<1>0. call \in [Calls -> Works]
  BY DEF TypeOK
<1>1. ASSUME NEW c \in Calls, NEW r, call' = [call EXCEPT ![c] = r],
             c # b \/ r[1] \notin {"look", "ask", "approve", "reject", "status", "sync", "add"}
      PROVE  Goal
  BY <1>0, <1>1
<1>2. UNCHANGED call => Goal
  OBVIOUS
<1>3. ASSUME NEW c \in Calls, Return(c)
      PROVE  Goal
  <2>1. call' = [call EXCEPT ![c] = <<"idle">>]
    BY <1>3 DEF Return, Idle
  <2> QED
    BY <1>1, <2>1
<1>4. ASSUME NEW c \in Calls, NEW r, Start(c, r),
             c # b \/ r[1] \notin {"look", "ask", "approve", "reject", "status", "sync", "add"}
      PROVE  Goal
  BY <1>1, <1>4 DEF Start
<1>5. ASSUME NEW c \in Calls, c = b,
             \/ Look(c) \/ CountUsers(c) \/ \E entitle \in BOOLEAN : SettleWrite(c, entitle)
             \/ \E plan \in {"POS_FREE", "POS_BASIC", "ESSENTIAL"} : Ask(c, plan)
             \/ \E r \in Requests : Decide(c, r, "approve") \/ Decide(c, r, "reject")
             \/ \E s \in {"ACTIVE", "PAUSED", "SUSPENDED", "EXPIRED", "DELETED"} : SetStatus(c, s)
             \/ \E p \in Purchases : Fetch(c, p)
      PROVE  Goal
  BY <1>5
<1> HIDE DEF Goal
<1>6. ASSUME NEW c \in Calls, Settle(c) \/ LookWrite(c) \/ Expire(c) \/ ExpireWrite(c)
      PROVE  Goal
  BY <1>3, <1>4, <1>6 DEF Settle, LookWrite, Expire, ExpireWrite
<1>7. ASSUME NEW c \in Calls, ExpireTenant(c)
      PROVE  Goal
  <2>1. call' = [call EXCEPT ![c] = <<"expired">>]
    BY <1>7 DEF ExpireTenant, Idle
  <2> QED
    BY <1>1, <2>1
<1>8. ASSUME NEW c \in Calls, Look(c)
      PROVE  Goal
  <2>1. CASE c = b
    BY <1>5, <1>8, <2>1
  <2>2. CASE c # b
    BY <1>4, <1>8, <2>2 DEF Look
  <2> QED
    BY <2>1, <2>2
<1>9. ASSUME NEW c \in Calls, NEW entitle \in BOOLEAN, SettleWrite(c, entitle)
      PROVE  Goal
  <2>1. CASE c = b
    BY <1>5, <1>9, <2>1
  <2>2. CASE c # b
    BY <1>1, <1>9, <2>2 DEF SettleWrite
  <2> QED
    BY <2>1, <2>2
<1>10. ASSUME NEW c \in Calls, NEW plan \in {"POS_FREE", "POS_BASIC", "ESSENTIAL"}, Ask(c, plan)
      PROVE  Goal
  <2>1. CASE c = b
    BY <1>5, <1>10, <2>1
  <2>2. CASE c # b
    BY <1>4, <1>10, <2>2 DEF Ask
  <2> QED
    BY <2>1, <2>2
<1>11. ASSUME NEW c \in Calls, NEW r \in Requests, Decide(c, r, "approve")
      PROVE  Goal
  <2>1. CASE c = b
    BY <1>5, <1>11, <2>1
  <2>2. CASE c # b
    BY <1>4, <1>11, <2>2 DEF Decide
  <2> QED
    BY <2>1, <2>2
<1>12. ASSUME NEW c \in Calls, NEW r \in Requests, Decide(c, r, "reject")
      PROVE  Goal
  <2>1. CASE c = b
    BY <1>5, <1>12, <2>1
  <2>2. CASE c # b
    BY <1>4, <1>12, <2>2 DEF Decide
  <2> QED
    BY <2>1, <2>2
<1>13. ASSUME NEW c \in Calls, NEW r \in Requests,
             AskWrite(c, r) \/ ApproveWrite(c, r) \/ RejectWrite(c, r)
      PROVE  Goal
  BY <1>3, <1>13 DEF AskWrite, ApproveWrite, RejectWrite
<1>14. ASSUME NEW c \in Calls, NEW e \in Edits, EditRead(c, e) \/ EditWrite(c, e)
      PROVE  Goal
  BY <1>3, <1>4, <1>14 DEF EditRead, EditWrite
<1>15. ASSUME NEW c \in Calls, NEW s \in {"ACTIVE", "PAUSED", "SUSPENDED", "EXPIRED", "DELETED"},
             SetStatus(c, s)
      PROVE  Goal
  <2>1. CASE c = b
    BY <1>5, <1>15, <2>1
  <2>2. CASE c # b
    BY <1>4, <1>15, <2>2 DEF SetStatus
  <2> QED
    BY <2>1, <2>2
<1>16. ASSUME NEW c \in Calls, NEW s \in {"ACTIVE", "PAUSED", "SUSPENDED", "EXPIRED", "DELETED"},
             SetStatusWrite(c, s)
      PROVE  Goal
  <2>1. \/ call' = [call EXCEPT ![c] = <<"unblock">>]
        \/ call' = [call EXCEPT ![c] = <<"idle">>]
    BY <1>16 DEF SetStatusWrite, Idle
  <2> QED
    BY <1>1, <2>1
<1>17. ASSUME NEW c \in Calls, Unblock(c)
      PROVE  Goal
  <2>1. \/ call' = [call EXCEPT ![c] = <<"unblocked">>]
        \/ call' = [call EXCEPT ![c] = <<"idle">>]
    BY <1>17 DEF Unblock, Idle
  <2> QED
    BY <1>1, <2>1
<1>18. ASSUME NEW c \in Calls, UnblockWrite(c)
      PROVE  Goal
  BY <1>3, <1>18 DEF UnblockWrite
<1>19. ASSUME NEW c \in Calls, NEW p \in Purchases,
             Fetch(c, p) \/ SyncWrite(c, p) \/ SyncIgnored(c, p) \/ SyncRefused(c, p)
      PROVE  Goal
  <2>1. CASE c = b /\ Fetch(c, p)
    BY <1>5, <2>1
  <2>2. CASE c # b /\ Fetch(c, p)
    BY <1>4, <2>2 DEF Fetch
  <2>3. CASE SyncWrite(c, p) \/ SyncIgnored(c, p) \/ SyncRefused(c, p)
    BY <1>3, <2>3 DEF SyncWrite, SyncIgnored, SyncRefused
  <2> QED
    BY <1>19, <2>1, <2>2, <2>3
<1>20. ASSUME NEW c \in Calls, Limited(c) \/ AddUser(c)
      PROVE  Goal
  BY <1>3, <1>4, <1>20 DEF Limited, AddUser
<1>21. ASSUME NEW c \in Calls, CountUsers(c)
      PROVE  Goal
  <2>1. CASE c = b
    BY <1>5, <1>21, <2>1
  <2>2. CASE c # b
    BY <1>1, <1>21, <2>2 DEF CountUsers
  <2> QED
    BY <2>1, <2>2
<1>22. ASSUME NEW c \in Calls, Retry(c)
      PROVE  Goal
  <2>1. \/ call' = [call EXCEPT ![c] = <<"limit", call[c][2], call[c][3] + 1>>]
        \/ call' = [call EXCEPT ![c] = <<"idle">>]
    BY <1>22 DEF Retry, Idle
  <2> QED
    BY <1>1, <2>1
<1>23. ASSUME NEW p \in Purchases, Buy(p) \/ Refund(p)
      PROVE  Goal
  BY <1>2, <1>23 DEF Buy, Refund
<1>24. ASSUME DeleteTenant \/ DisableUser \/ Tick
      PROVE  Goal
  BY <1>2, <1>24 DEF DeleteTenant, DisableUser, Tick
<1>25. ASSUME UNCHANGED vars
      PROVE  Goal
  BY <1>2, <1>25 DEF vars
<1>26. ASSUME TrialStep \/ ExpiryStep
      PROVE  Goal
  BY <1>6, <1>7, <1>8, <1>9, <1>26 DEF TrialStep, ExpiryStep
<1>27. ASSUME RequestStep
      PROVE  Goal
  BY <1>10, <1>11, <1>12, <1>13, <1>27 DEF RequestStep
<1>28. ASSUME EditStep \/ StatusStep
      PROVE  Goal
  BY <1>14, <1>15, <1>16, <1>17, <1>18, <1>24, <1>28 DEF EditStep, StatusStep
<1>29. ASSUME AppleStep \/ UserStep
      PROVE  Goal
  BY <1>19, <1>20, <1>21, <1>22, <1>23, <1>24, <1>29 DEF AppleStep, UserStep
<1>30. Goal
  BY <1>24, <1>25, <1>26, <1>27, <1>28, <1>29 DEF Next
<1> QED
  BY <1>30 DEF Goal

\* The answers of Apple apart.
LEMMA ReadSteps ==
    ASSUME TypeOK, [Next]_vars, NEW b \in Calls
    PROVE  \/ call'[b] = call[b]
           \/ call'[b][1] \notin {"look", "ask", "approve", "reject", "status", "add"}
           \/ Look(b) \/ CountUsers(b) \/ \E entitle \in BOOLEAN : SettleWrite(b, entitle)
           \/ \E plan \in {"POS_FREE", "POS_BASIC", "ESSENTIAL"} : Ask(b, plan)
           \/ \E r \in Requests : Decide(b, r, "approve") \/ Decide(b, r, "reject")
           \/ \E s \in {"ACTIVE", "PAUSED", "SUSPENDED", "EXPIRED", "DELETED"} : SetStatus(b, s)
<1>1. ASSUME NEW p \in Purchases, Fetch(b, p)
      PROVE  call'[b][1] = "sync"
  BY <1>1 DEF Fetch, Start, TypeOK
<1> QED
  BY CallSteps, <1>1

\* The call is about to write the status of the subscription after that of the business.
Busy(c) == call[c][1] \in {"expired", "unblock", "unblocked"}

\* Only three steps end such a call.
LEMMA BusySteps ==
    ASSUME TypeOK, [Next]_vars
    PROVE  \/ \A b \in Calls : Busy(b) => Busy(b)'
           \/ \E c \in Calls : ExpireWrite(c) \/ Unblock(c) \/ UnblockWrite(c)
<1> DEFINE Goal == \/ \A b \in Calls : Busy(b) => Busy(b)'
                   \/ \E c \in Calls : ExpireWrite(c) \/ Unblock(c) \/ UnblockWrite(c)
<1>0. call \in [Calls -> Works]
  BY DEF TypeOK
<1>1. ASSUME UNCHANGED vars
      PROVE  Goal
  BY <1>1, <1>0 DEF vars, Busy
<1>2. CASE Tick
  BY <1>2, <1>0 DEF Tick, Start, Return, Idle, Busy
<1>3. ASSUME NEW c \in Calls, Settle(c) \/ Look(c) \/ LookWrite(c)
      PROVE  Goal
  BY <1>3, <1>0 DEF Settle, Look, LookWrite, Start, Return, Idle, Busy
<1>4. ASSUME NEW c \in Calls, NEW entitle \in BOOLEAN, SettleWrite(c, entitle)
      PROVE  Goal
  BY <1>4, <1>0 DEF SettleWrite, Start, Return, Idle, Busy
<1>5. ASSUME NEW c \in Calls, Expire(c) \/ ExpireTenant(c) \/ ExpireWrite(c)
      PROVE  Goal
  BY <1>5, <1>0 DEF Expire, ExpireTenant, Start, Return, Idle, Busy
<1>6. ASSUME NEW c \in Calls, NEW plan \in {"POS_FREE", "POS_BASIC", "ESSENTIAL"}, Ask(c, plan)
      PROVE  Goal
  BY <1>6, <1>0 DEF Ask, Start, Return, Idle, Busy
<1>7. ASSUME NEW c \in Calls, NEW r \in Requests,
             AskWrite(c, r) \/ Decide(c, r, "approve") \/ Decide(c, r, "reject")
      PROVE  Goal
  <2>1. CASE AskWrite(c, r)
    BY <1>0, <2>1 DEF AskWrite, Return, Idle, Busy
  <2>2. ASSUME NEW op \in {"approve", "reject"}, Decide(c, r, op)
        PROVE  Goal
    BY <1>0, <2>2 DEF Decide, Start, Idle, Busy
  <2> QED
    BY <1>7, <2>1, <2>2
<1>8. ASSUME NEW c \in Calls, NEW r \in Requests, ApproveWrite(c, r) \/ RejectWrite(c, r)
      PROVE  Goal
  BY <1>8, <1>0 DEF ApproveWrite, RejectWrite, Start, Return, Idle, Busy
<1>9. ASSUME NEW c \in Calls, NEW e \in Edits, EditRead(c, e) \/ EditWrite(c, e)
      PROVE  Goal
  BY <1>9, <1>0 DEF EditRead, EditWrite, Start, Return, Idle, Busy
<1>10. CASE DeleteTenant \/ DisableUser
  BY <1>10, <1>0 DEF DeleteTenant, DisableUser, Start, Return, Idle, Busy
<1>11. ASSUME NEW c \in Calls, NEW s \in {"ACTIVE", "PAUSED", "SUSPENDED", "EXPIRED", "DELETED"},
             SetStatus(c, s) \/ SetStatusWrite(c, s)
      PROVE  Goal
  BY <1>11, <1>0 DEF SetStatus, SetStatusWrite, Start, Return, Idle, Busy
<1>12. ASSUME NEW c \in Calls, Unblock(c) \/ UnblockWrite(c)
      PROVE  Goal
  BY <1>12, <1>0 DEF Start, Return, Idle, Busy
<1>13. ASSUME NEW p \in Purchases, Buy(p) \/ Refund(p)
      PROVE  Goal
  BY <1>13, <1>0 DEF Buy, Refund, Start, Return, Idle, Busy
<1>14. ASSUME NEW c \in Calls, NEW p \in Purchases, Fetch(c, p) \/ SyncWrite(c, p)
      PROVE  Goal
  BY <1>14, <1>0 DEF Fetch, SyncWrite, Start, Return, Idle, Busy
<1>15. ASSUME NEW c \in Calls, NEW p \in Purchases, SyncIgnored(c, p) \/ SyncRefused(c, p)
      PROVE  Goal
  BY <1>15, <1>0 DEF SyncIgnored, SyncRefused, Start, Return, Idle, Busy
<1>16. ASSUME NEW c \in Calls, Limited(c) \/ CountUsers(c) \/ AddUser(c) \/ Retry(c)
      PROVE  Goal
  BY <1>16, <1>0 DEF Limited, CountUsers, AddUser, Retry, Start, Return, Idle, Busy
<1> QED
  BY <1>1, <1>2, <1>3, <1>4, <1>5, <1>6, <1>7, <1>8, <1>9, <1>10, <1>11, <1>12, <1>13, <1>14,
     <1>15, <1>16
     DEF Next, TrialStep, ExpiryStep, RequestStep, EditStep, StatusStep, AppleStep,
         UserStep

(***************************************************************************)
(* A paid plan is kept.                                                    *)
(***************************************************************************)

\* A paid plan that is paid through Apple is one Apple granted, for the purchase the row has,
\* or one the platform left to Apple.
GrantedInv ==
    sub.plan \in Paid /\ sub.payment \in {"APPLE", "APPLE_FREE"} =>
        \/ granted.by = "edit"
        \/ sub.payment = "APPLE" /\ granted.by = "apple" /\ granted.bought = sub.bought

\* What the steps that write the plan leave.
LEMMA GrantedKept ==
    ASSUME TypeOK, GrantedInv, [Next]_vars
    PROVE  GrantedInv'
<1>0. /\ sub \in Sub /\ "POS_FREE" \notin Paid
      /\ granted \in [by : {"apple", "edit", "other"}, bought : Times]
  BY DEF TypeOK, Paid
<1>1. CASE UNCHANGED <<sub, granted>>
  BY <1>1 DEF GrantedInv
<1>2. ASSUME NEW c \in Calls, NEW entitle \in BOOLEAN, SettleWrite(c, entitle)
      PROVE  GrantedInv'
  <2>1. sub'.plan = "POS_FREE" \/ UNCHANGED <<sub, granted>>
    BY <1>0, <1>2 DEF SettleWrite, Settled, Sub
  <2> QED
    BY <1>0, <1>1, <2>1 DEF GrantedInv
<1>3. ASSUME NEW c \in Calls, ExpireWrite(c) \/ UnblockWrite(c)
      PROVE  GrantedInv'
  <2>1. granted' = granted
    BY <1>3 DEF ExpireWrite, UnblockWrite
  <2>2. sub' = sub \/ sub'.payment \in {"EXPIRED", "MANUAL_CONFIRMED"}
    BY <1>0, <1>3 DEF ExpireWrite, UnblockWrite, Reopened, Sub
  <2> QED
    BY <1>1, <2>1, <2>2 DEF GrantedInv
<1>4. ASSUME NEW c \in Calls, NEW r \in Requests, ApproveWrite(c, r)
      PROVE  GrantedInv'
  <2>1. sub'.payment = IF request[r].plan = "POS_FREE" THEN "FREE" ELSE "MANUAL_CONFIRMED"
    BY <1>0, <1>4 DEF ApproveWrite, Approved, Sub
  <2> QED
    BY <2>1 DEF GrantedInv
<1>5. ASSUME NEW c \in Calls, NEW e \in Edits, EditWrite(c, e)
      PROVE  GrantedInv'
  BY <1>5 DEF EditWrite, Grants, GrantedInv
<1>6. ASSUME NEW c \in Calls, NEW p \in Purchases, SyncWrite(c, p)
      PROVE  GrantedInv'
  <2>1. /\ sub' = Synced(sub, call[c][4], call[c][5], call[c][6])
        /\ granted' = [by |-> "apple", bought |-> call[c][5]]
    BY <1>6 DEF SyncWrite, Grants
  <2>2. /\ sub'.plan = IF call[c][4] THEN "POS_PREMIUM" ELSE "POS_FREE"
        /\ sub'.payment = IF call[c][4] THEN "APPLE" ELSE "APPLE_FREE"
        /\ sub'.bought = call[c][5]
    BY <1>0, <2>1 DEF Synced, Sub
  <2> QED
    BY <1>0, <2>1, <2>2 DEF GrantedInv
<1> QED
  BY PlanSteps, <1>1, <1>2, <1>3, <1>4, <1>5, <1>6

\* The end of a trial takes the free plan only from a trial, and Apple only a plan that it had
\* granted for a purchase no newer, or that the platform had left to it.
THEOREM PaidPlanKeptCorrect == Spec => PaidPlanKept
<1> DEFINE Goal ==
        \E c \in Calls :
            /\ call[c] # Idle /\ call'[c] = Idle
            /\ \/ call[c][1] = "approve"
               \/ /\ call[c][1] = "sync"
                  /\ \/ LeftToApple
                     \/ granted.by = "apple" /\ granted.bought <= call[c][5]
<1>1. ASSUME TypeOK, GrantedInv, [Next]_vars, sub.plan \in Paid, sub'.plan = "POS_FREE"
      PROVE  Goal
  <2>0. sub \in Sub /\ call \in [Calls -> Works] /\ sub.plan \notin {"TRIAL", "POS_FREE"}
    BY <1>1 DEF TypeOK, Paid
  <2>1. ASSUME NEW c \in Calls, Return(c), call[c][1] \in {"approve", "sync"}
        PROVE  call[c] # Idle /\ call'[c] = Idle
    BY <2>0, <2>1 DEF Return, Idle
  <2>2. ASSUME NEW c \in Calls, NEW entitle \in BOOLEAN, SettleWrite(c, entitle)
        PROVE  FALSE
    BY <1>1, <2>0, <2>2 DEF SettleWrite, StillTrial
  <2>3. ASSUME NEW c \in Calls, ExpireWrite(c) \/ UnblockWrite(c)
        PROVE  FALSE
    <3>1. sub'.plan = sub.plan
      BY <2>0, <2>3, ReopenedTyped DEF ExpireWrite, UnblockWrite, Sub
    <3> QED
      BY <1>1, <2>0, <3>1
  <2>4. ASSUME NEW c \in Calls, NEW r \in Requests, ApproveWrite(c, r)
        PROVE  Goal
    <3>1. Return(c) /\ call[c][1] = "approve"
      BY <2>4 DEF ApproveWrite
    <3> QED
      BY <2>1, <3>1
  <2>5. ASSUME NEW c \in Calls, NEW e \in Edits, EditWrite(c, e)
        PROVE  FALSE
    BY <1>1, <2>5, ConstantsAssumption, EditedTyped
  <2>6. ASSUME NEW c \in Calls, NEW p \in Purchases, SyncWrite(c, p)
        PROVE  Goal
    <3>1. Return(c) /\ call[c][1] = "sync"
      BY <2>6 DEF SyncWrite
    <3>2. call[c][4] \in BOOLEAN /\ call[c][5] \in Times /\ call[c][6] \in Times
      BY <3>1, <1>1, WorkTyped
    <3>3. sub'.plan = IF call[c][4] THEN "POS_PREMIUM" ELSE "POS_FREE"
      BY <2>0, <2>6, <3>2, SyncedTyped DEF SyncWrite
    <3>4. /\ sub.payment \in {"APPLE", "APPLE_FREE"}
          /\ sub.payment = "APPLE" => ~(sub.bought > call[c][5])
      BY <1>1, <2>6, <3>3 DEF SyncWrite, Irrelevant
    <3>5. sub.bought \in Nat /\ call[c][5] \in Nat
      BY <2>0, <3>2, ConstantsAssumption DEF ConstantsAssumption, Times, Sub
    <3>6. LeftToApple \/ (granted.by = "apple" /\ granted.bought <= call[c][5])
      BY <1>1, <3>4, <3>5 DEF GrantedInv, LeftToApple
    <3> QED
      BY <2>1, <3>1, <3>6
  <2> QED
    BY <1>1, <2>0, <2>2, <2>3, <2>4, <2>5, <2>6, SubSteps
<1>2. Init => TypeOK /\ GrantedInv
  <2>1. Init => GrantedInv
    BY DEF Init, GrantedInv, Paid
  <2> QED
    BY <2>1, InitTyped, ConstantsAssumption
<1>3. TypeOK /\ GrantedInv /\ [Next]_vars => TypeOK' /\ GrantedInv'
  BY TypeKept, GrantedKept, ConstantsAssumption
<1>4. TypeOK /\ GrantedInv /\ [Next]_vars =>
          [sub.plan \in Paid /\ sub'.plan = "POS_FREE" => Goal]_vars
  BY <1>1
<1> QED
  BY <1>2, <1>3, <1>4, PTL DEF Spec, PaidPlanKept

(***************************************************************************)
(* The inductive invariant.                                                *)
(***************************************************************************)

\* A call that will add a user counted fewer than its limit.
AddInv == \A c \in Calls : call[c][1] = "add" => call[c][4] < call[c][2]

\* Entitlements that are in memory, or on their way there, are those of the row.
Reflects(e) == e.plan = sub.plan /\ e.blocked = (sub.status \in Inactive)

CacheInv ==
    Without({"overlapped", "unannounced"}) =>
        /\ cache # None => Reflects(cache)
        /\ \A c \in Calls : call[c][1] = "look" => Reflects(call[c][2])

\* A request being decided is pending, and decided by one call.
Holds(c, r) == call[c] \in {<<"approve", r>>, <<"reject", r>>}

HoldInv ==
    Without({"together"}) =>
        /\ \A c \in Calls, r \in Requests : Holds(c, r) => request[r].status = "PENDING"
        /\ \A c, d \in Calls, r \in Requests : Holds(c, r) /\ Holds(d, r) => c = d

\* One call is asking, and then no request is pending.
Asks(c) == call[c][1] = "ask"

AskAloneInv ==
    Without({"together"}) => \A c, d \in Calls : Asks(c) /\ Asks(d) => c = d

AskInv ==
    Without({"together", "bypassed"}) =>
        \A c \in Calls, r \in Requests : Asks(c) => request[r].status # "PENDING"

RequestInv == AnsweredOnce /\ OneRequestWaits /\ HoldInv /\ AskAloneInv /\ AskInv

\* A deletion that was read is the business's new status too.
StatusReadInv ==
    Without({"overtaken"}) =>
        \A c \in Calls : call[c][1] = "status" /\ call[c][3] => call[c][2] = "DELETED"

Inv == TypeOK /\ AddInv /\ CacheInv /\ RequestInv /\ StatusReadInv /\ StatusInPhase

LEMMA InitInv ==
    ASSUME Init
    PROVE  Inv
<1>1. TypeOK
  BY InitTyped, ConstantsAssumption
<1>2. AddInv /\ CacheInv /\ StatusReadInv
  BY DEF Init, AddInv, CacheInv, StatusReadInv, Idle
<1>3. AnsweredOnce /\ OneRequestWaits
  BY DEF Init, AnsweredOnce, OneRequestWaits
<1>4. HoldInv /\ AskAloneInv /\ AskInv
  BY DEF Init, HoldInv, AskAloneInv, AskInv, Holds, Asks, Idle
<1>5. StatusInPhase
  BY DEF Init, StatusInPhase, DeletedForGood, ActiveIsNotBlocked, Inactive
<1> QED
  BY <1>1, <1>2, <1>3, <1>4, <1>5 DEF Inv, RequestInv

LEMMA DecideForms ==
    ASSUME TypeOK, NEW c \in Calls, NEW r, NEW op, Decide(c, r, op)
    PROVE  call[c] = Idle /\ call'[c] = <<op, r>> /\ \A b \in Others(c) : call'[b] = call[b]
<1>1. call \in [Calls -> Works] /\ Start(c, <<op, r>>)
  BY DEF TypeOK, Decide
<1> QED
  BY <1>1 DEF Start, Others

LEMMA SetForms ==
    ASSUME TypeOK, NEW c \in Calls, NEW s, SetStatus(c, s)
    PROVE  call'[c] = <<"status", s, tenant.deleted>> /\ s \in NextStatuses(tenant.status)
<1>1. call \in [Calls -> Works] /\ Start(c, <<"status", s, tenant.deleted>>)
  BY DEF TypeOK, SetStatus
<1> QED
  BY <1>1 DEF Start, SetStatus

LEMMA AddKept ==
    ASSUME Inv, [Next]_vars
    PROVE  AddInv'
<1> SUFFICES ASSUME NEW b \in Calls, call'[b][1] = "add"
             PROVE  call'[b][4] < call'[b][2]
  BY DEF AddInv
<1>0. TypeOK /\ call \in [Calls -> Works] /\ AddInv
  BY DEF Inv, TypeOK
<1>1. CASE call'[b] = call[b]
  BY <1>0, <1>1 DEF AddInv
<1>2. CASE CountUsers(b)
  BY <1>0, <1>2 DEF CountUsers, Idle
<1>3. ASSUME Look(b) \/ \E entitle \in BOOLEAN : SettleWrite(b, entitle)
      PROVE  FALSE
  BY <1>0, <1>3 DEF Look, SettleWrite, Start, Idle
<1>4. ASSUME NEW plan, Ask(b, plan)
      PROVE  FALSE
  BY <1>0, <1>4 DEF Ask, Start
<1>5. ASSUME NEW r \in Requests, Decide(b, r, "approve") \/ Decide(b, r, "reject")
      PROVE  FALSE
  BY <1>0, <1>5, DecideForms
<1>6. ASSUME NEW s, SetStatus(b, s)
      PROVE  FALSE
  BY <1>0, <1>6, SetForms
<1> QED
  BY ReadSteps, <1>0, <1>1, <1>2, <1>3, <1>4, <1>5, <1>6

LEMMA WithoutBefore ==
    ASSUME [Next]_vars, NEW ms, Without(ms)'
    PROVE  Without(ms)
  BY MarksGrow DEF Without

\* A call newly on its way to the cache took the row as it is.
LEMMA LookSteps ==
    ASSUME TypeOK, [Next]_vars, NEW b \in Calls, call'[b][1] = "look"
    PROVE  call'[b] = call[b] \/ Reflects(call[b][2])'
<1>0. call \in [Calls -> Works]
  BY DEF TypeOK
<1>1. ASSUME Look(b)
      PROVE  Reflects(call[b][2])'
  BY <1>0, <1>1 DEF Look, Start, View, Reflects
<1>2. ASSUME NEW entitle \in BOOLEAN, SettleWrite(b, entitle)
      PROVE  Reflects(call[b][2])'
  <2>1. call'[b] = <<"look", View(sub')>>
    BY <1>0, <1>2 DEF SettleWrite, Idle
  <2> QED
    BY <2>1 DEF View, Reflects
<1>3. ASSUME CountUsers(b)
      PROVE  FALSE
  BY <1>0, <1>3 DEF CountUsers, Idle
<1>4. ASSUME NEW plan, Ask(b, plan)
      PROVE  FALSE
  BY <1>0, <1>4 DEF Ask, Start
<1>5. ASSUME NEW r \in Requests, Decide(b, r, "approve") \/ Decide(b, r, "reject")
      PROVE  FALSE
  BY <1>0, <1>5, DecideForms
<1>6. ASSUME NEW s, SetStatus(b, s)
      PROVE  FALSE
  BY <1>0, <1>6, SetForms
<1> QED
  BY ReadSteps, <1>1, <1>2, <1>3, <1>4, <1>5, <1>6

\* Whoever writes the subscription tells the cache, or is marked.
LEMMA WritesTold ==
    ASSUME [Next]_vars, Without({"overlapped", "unannounced"})'
    PROVE  \/ UNCHANGED sub
           \/ cache' = None /\ \A b \in Calls : call[b][1] # "look"
<1> DEFINE Goal == \/ UNCHANGED sub
                   \/ cache' = None /\ \A b \in Calls : call[b][1] # "look"
<1>0. "overlapped" \notin marks' /\ "unannounced" \notin marks'
  BY DEF Without
<1>1. ASSUME NEW c \in Calls, NEW entitle \in BOOLEAN, SettleWrite(c, entitle)
      PROVE  Goal
  BY <1>0, <1>1 DEF SettleWrite, Mark, Overlap, If
<1>2. ASSUME NEW c \in Calls, ExpireWrite(c) \/ UnblockWrite(c)
      PROVE  Goal
  BY <1>0, <1>2 DEF ExpireWrite, UnblockWrite, Mark
<1>3. ASSUME NEW c \in Calls, NEW r \in Requests, ApproveWrite(c, r)
      PROVE  Goal
  BY <1>0, <1>3 DEF ApproveWrite, Decision, Mark, Overlap, If
<1>4. ASSUME NEW c \in Calls, NEW e \in Edits, EditWrite(c, e)
      PROVE  Goal
  BY <1>0, <1>4 DEF EditWrite, Mark, Overlap, If
<1>5. ASSUME NEW c \in Calls, NEW p \in Purchases, SyncWrite(c, p)
      PROVE  Goal
  BY <1>0, <1>5 DEF SyncWrite, Mark, Overlap, If
<1> QED
  BY SubSteps, <1>1, <1>2, <1>3, <1>4, <1>5

LEMMA CacheKept ==
    ASSUME Inv, [Next]_vars
    PROVE  CacheInv'
<1> SUFFICES ASSUME Without({"overlapped", "unannounced"})'
             PROVE  /\ (cache # None => Reflects(cache))'
                    /\ (\A c \in Calls : call[c][1] = "look" => Reflects(call[c][2]))'
  BY DEF CacheInv
<1>0. /\ TypeOK
      /\ cache # None => Reflects(cache)
      /\ \A c \in Calls : call[c][1] = "look" => Reflects(call[c][2])
  BY WithoutBefore DEF Inv, CacheInv
<1>1. (\A c \in Calls : call[c][1] = "look" => Reflects(call[c][2]))'
  BY <1>0, LookSteps, WritesTold DEF Reflects
<1>2. ASSUME NEW c \in Calls, LookWrite(c)
      PROVE  Reflects(cache)'
  <2>1. call[c][1] = "look" /\ call[c][2] \in Entitlements /\ sub' = sub
    BY <1>0, <1>2, WorkTyped DEF LookWrite
  <2>2. cache'.plan = call[c][2].plan /\ cache'.blocked = call[c][2].blocked
    BY <1>2, <2>1 DEF LookWrite, Entitlements
  <2> QED
    BY <1>0, <2>1, <2>2 DEF Reflects
<1>3. (cache # None => Reflects(cache))'
  BY <1>0, <1>2, CacheSteps, WritesTold DEF Reflects
<1> QED
  BY <1>1, <1>3

\* How a call comes to decide a request, or to ask for one.
LEMMA HoldSteps ==
    ASSUME TypeOK, [Next]_vars, NEW b \in Calls, NEW r \in Requests, Holds(b, r)'
    PROVE  Holds(b, r) \/ Decide(b, r, "approve") \/ Decide(b, r, "reject")
<1>0. call \in [Calls -> Works] /\ call'[b][1] \in {"approve", "reject"} /\ call'[b][2] = r
  BY DEF TypeOK, Holds
<1>1. CASE call'[b] = call[b]
  BY <1>1 DEF Holds
<1>2. ASSUME Look(b) \/ \E entitle \in BOOLEAN : SettleWrite(b, entitle)
      PROVE  FALSE
  BY <1>0, <1>2 DEF Look, SettleWrite, Start, Idle
<1>3. ASSUME CountUsers(b)
      PROVE  FALSE
  BY <1>0, <1>3 DEF CountUsers, Idle
<1>4. ASSUME NEW plan, Ask(b, plan)
      PROVE  FALSE
  BY <1>0, <1>4 DEF Ask, Start
<1>5. ASSUME NEW q \in Requests, Decide(b, q, "approve") \/ Decide(b, q, "reject")
      PROVE  q = r
  BY <1>0, <1>5, DecideForms
<1>6. ASSUME NEW s, SetStatus(b, s)
      PROVE  FALSE
  BY <1>0, <1>6, SetForms
<1> QED
  BY ReadSteps, <1>0, <1>1, <1>2, <1>3, <1>4, <1>5, <1>6

LEMMA AskSteps ==
    ASSUME TypeOK, [Next]_vars, NEW b \in Calls, Asks(b)'
    PROVE  Asks(b) \/ \E plan \in {"POS_FREE", "POS_BASIC", "ESSENTIAL"} : Ask(b, plan)
<1>0. call \in [Calls -> Works] /\ call'[b][1] = "ask"
  BY DEF TypeOK, Asks
<1>1. CASE call'[b] = call[b]
  BY <1>0, <1>1 DEF Asks
<1>2. ASSUME Look(b) \/ \E entitle \in BOOLEAN : SettleWrite(b, entitle)
      PROVE  FALSE
  BY <1>0, <1>2 DEF Look, SettleWrite, Start, Idle
<1>3. ASSUME CountUsers(b)
      PROVE  FALSE
  BY <1>0, <1>3 DEF CountUsers, Idle
<1>4. ASSUME NEW r \in Requests, Decide(b, r, "approve") \/ Decide(b, r, "reject")
      PROVE  FALSE
  BY <1>0, <1>4, DecideForms
<1>5. ASSUME NEW s, SetStatus(b, s)
      PROVE  FALSE
  BY <1>0, <1>5, SetForms
<1> QED
  BY ReadSteps, <1>0, <1>1, <1>2, <1>3, <1>4, <1>5

LEMMA AskForms ==
    ASSUME TypeOK, NEW c \in Calls, NEW plan, Ask(c, plan)
    PROVE  call[c] = Idle /\ call'[c] = <<"ask", plan>> /\ \A b \in Others(c) : call'[b] = call[b]
<1>1. call \in [Calls -> Works] /\ Start(c, <<"ask", plan>>)
  BY DEF TypeOK, Ask
<1> QED
  BY <1>1 DEF Start, Others

\* A call that returns asks for nothing and decides nothing.
LEMMA Returned ==
    ASSUME TypeOK, NEW c \in Calls, Return(c)
    PROVE  /\ \A b \in Others(c) : call'[b] = call[b]
           /\ ~Asks(c)' /\ \A r \in Requests : ~Holds(c, r)'
<1>1. call'[c] = Idle
  BY DEF TypeOK, Return
<1> QED
  BY <1>1 DEF TypeOK, Return, Others, Asks, Holds, Idle

\* While the requests stay as they are, calls may come to decide them or to ask.
LEMMA RequestsRest ==
    ASSUME Inv, [Next]_vars, UNCHANGED <<request, latest>>
    PROVE  RequestInv'
<1>0. TypeOK /\ AnsweredOnce /\ OneRequestWaits /\ HoldInv /\ AskAloneInv /\ AskInv
  BY DEF Inv, RequestInv
<1>1. AnsweredOnce' /\ OneRequestWaits'
  BY <1>0, WithoutBefore DEF AnsweredOnce, OneRequestWaits
<1>2. ASSUME Without({"together"})', NEW b \in Calls, NEW r \in Requests, Holds(b, r)'
      PROVE  request[r].status = "PENDING"
  BY <1>0, <1>2, HoldSteps, WithoutBefore DEF HoldInv, Decide, Decidable
<1>3. ASSUME NEW b \in Calls, NEW r \in Requests, NEW op, Decide(b, r, op),
             Without({"together"})', NEW d \in Calls, d # b, Holds(d, r)'
      PROVE  FALSE
  <2>1. Holds(d, r)
    BY <1>0, <1>3, DecideForms DEF Others, Holds
  <2>2. "together" \in marks'
    BY <1>3, <2>1 DEF Decide, Mark, If, Holds
  <2> QED
    BY <1>3, <2>2 DEF Without
<1>4. ASSUME Without({"together"})', NEW b \in Calls, NEW d \in Calls, NEW r \in Requests,
             Holds(b, r)', Holds(d, r)'
      PROVE  b = d
  <2>1. Holds(b, r) /\ Holds(d, r) => b = d
    BY <1>0, <1>4, WithoutBefore DEF HoldInv
  <2> QED
    BY <1>0, <1>3, <1>4, <2>1, HoldSteps
<1>5. HoldInv'
  BY <1>2, <1>4 DEF HoldInv
<1>6. ASSUME NEW b \in Calls, NEW plan, Ask(b, plan),
             Without({"together"})', NEW d \in Calls, d # b, Asks(d)'
      PROVE  FALSE
  <2>1. Asks(d)
    BY <1>0, <1>6, AskForms DEF Others, Asks
  <2>2. "together" \in marks'
    BY <1>6, <2>1 DEF Ask, Mark, If, Asks
  <2> QED
    BY <1>6, <2>2 DEF Without
<1>7. ASSUME Without({"together"})', NEW b \in Calls, NEW d \in Calls, Asks(b)', Asks(d)'
      PROVE  b = d
  <2>1. Asks(b) /\ Asks(d) => b = d
    BY <1>0, <1>7, WithoutBefore DEF AskAloneInv
  <2> QED
    BY <1>0, <1>6, <1>7, <2>1, AskSteps
<1>8. ASSUME Without({"together", "bypassed"})', NEW b \in Calls, NEW r \in Requests, Asks(b)'
      PROVE  request'[r].status # "PENDING"
  <2>1. Asks(b) => request[r].status # "PENDING"
    BY <1>0, <1>8, WithoutBefore DEF AskInv
  <2>2. ASSUME NEW plan, Ask(b, plan)
        PROVE  request[r].status # "PENDING"
    <3>1. ~Pending /\ (request[r].status = "PENDING" => latest = r)
      BY <1>0, <1>8, <2>2, WithoutBefore DEF Ask, OneRequestWaits
    <3> QED
      BY <3>1 DEF Pending
  <2> QED
    BY <1>0, <1>8, <2>1, <2>2, AskSteps
<1>9. AskAloneInv' /\ AskInv'
  BY <1>7, <1>8 DEF AskAloneInv, AskInv
<1> QED
  BY <1>1, <1>5, <1>9 DEF RequestInv

LEMMA RequestAsked ==
    ASSUME Inv, [Next]_vars, NEW c \in Calls, NEW r \in Requests, AskWrite(c, r)
    PROVE  RequestInv'
<1>0. /\ TypeOK /\ AnsweredOnce /\ OneRequestWaits /\ HoldInv /\ AskAloneInv /\ AskInv
      /\ request[r].status = "NONE" /\ Asks(c) /\ latest' = r
      /\ request' = [request EXCEPT ![r].status = "PENDING", ![r].plan = call[c][2]]
      /\ DOMAIN request = Requests
  BY DEF Inv, RequestInv, AskWrite, Asks, TypeOK
<1>1. /\ request'[r].status = "PENDING" /\ request'[r].decisions = request[r].decisions
      /\ \A q \in Requests \ {r} : request'[q] = request[q]
  BY <1>0 DEF TypeOK
<1>2. /\ \A b \in Calls : b # c => call'[b] = call[b]
      /\ ~Asks(c)' /\ \A q \in Requests : ~Holds(c, q)'
  BY <1>0, Returned DEF AskWrite, Others
<1>3. AnsweredOnce'
  BY <1>0, <1>1, WithoutBefore DEF AnsweredOnce
<1>4. HoldInv'
  BY <1>0, <1>1, <1>2, WithoutBefore DEF HoldInv, Holds
<1>5. AskAloneInv'
  BY <1>0, <1>2, WithoutBefore DEF AskAloneInv, Asks
<1>6. OneRequestWaits'
  BY <1>0, <1>1, WithoutBefore DEF OneRequestWaits, AskInv
<1>7. ASSUME Without({"together", "bypassed"})', NEW b \in Calls, Asks(b)'
      PROVE  FALSE
  <2>1. b # c /\ Asks(b) /\ Without({"together"})
    BY <1>2, <1>7, WithoutBefore DEF Asks, Without
  <2> QED
    BY <1>0, <2>1 DEF AskAloneInv
<1> QED
  BY <1>3, <1>4, <1>5, <1>6, <1>7 DEF RequestInv, AskInv

LEMMA RequestDecided ==
    ASSUME Inv, [Next]_vars, NEW c \in Calls, NEW r \in Requests,
           ApproveWrite(c, r) \/ RejectWrite(c, r)
    PROVE  RequestInv'
<1>1. PICK status \in {"APPROVED", "REFUSED"} : Decision(r, status) /\ Holds(c, r) /\ Return(c)
  BY DEF ApproveWrite, RejectWrite, Holds
<1>0. /\ TypeOK /\ AnsweredOnce /\ OneRequestWaits /\ HoldInv /\ AskAloneInv /\ AskInv
      /\ request[r].decisions \in Nat /\ DOMAIN request = Requests
  BY DEF Inv, RequestInv, TypeOK
<1>2. /\ request'[r].status = status /\ request'[r].decisions = request[r].decisions + 1
      /\ \A q \in Requests \ {r} : request'[q] = request[q]
  BY <1>0, <1>1 DEF Decision, TypeOK
<1>3. /\ \A b \in Calls : b # c => call'[b] = call[b]
      /\ ~Asks(c)' /\ \A q \in Requests : ~Holds(c, q)'
  BY <1>0, <1>1, Returned DEF Others
<1>4. Without({"together"})' => request[r].status = "PENDING" /\ request[r].decisions = 0
  BY <1>0, <1>1, WithoutBefore DEF HoldInv, AnsweredOnce
<1>5. AnsweredOnce'
  BY <1>0, <1>2, <1>4, WithoutBefore DEF AnsweredOnce
<1>6. HoldInv'
  BY <1>0, <1>1, <1>2, <1>3, WithoutBefore DEF HoldInv, Holds
<1>7. AskAloneInv'
  BY <1>0, <1>3, WithoutBefore DEF AskAloneInv, Asks
<1>8. ASSUME Without({"together", "bypassed"})', NEW q \in Requests, request'[q].status = "PENDING"
      PROVE  FALSE
  <2>1. q # r /\ request[q].status = "PENDING"
    BY <1>2, <1>8
  <2>2. Without({"together"})'
    BY <1>8 DEF Without
  <2>3. request[r].status = "PENDING" /\ latest = r /\ latest = q
    BY <1>0, <1>4, <1>8, <2>1, <2>2, WithoutBefore DEF OneRequestWaits
  <2> QED
    BY <2>1, <2>3
<1>9. OneRequestWaits' /\ AskInv'
  BY <1>8 DEF OneRequestWaits, AskInv
<1> QED
  BY <1>5, <1>6, <1>7, <1>9 DEF RequestInv

\* A plan set by the platform hides no request that waits, or is marked.
LEMMA RequestEdited ==
    ASSUME Inv, [Next]_vars, NEW c \in Calls, NEW e \in Edits, EditWrite(c, e)
    PROVE  RequestInv'
<1>0. /\ TypeOK /\ AnsweredOnce /\ OneRequestWaits /\ HoldInv /\ AskAloneInv /\ AskInv
      /\ request' = request
  BY DEF Inv, RequestInv, EditWrite
<1>1. /\ \A b \in Calls : b # c => call'[b] = call[b]
      /\ ~Asks(c)' /\ \A q \in Requests : ~Holds(c, q)'
  BY <1>0, Returned DEF EditWrite, Others
<1>2. AnsweredOnce'
  BY <1>0, WithoutBefore DEF AnsweredOnce
<1>3. HoldInv'
  BY <1>0, <1>1, WithoutBefore DEF HoldInv, Holds
<1>4. AskAloneInv' /\ AskInv'
  BY <1>0, <1>1, WithoutBefore DEF AskAloneInv, AskInv, Asks
<1>5. ASSUME Without({"together", "bypassed"})', NEW r \in Requests, request[r].status = "PENDING"
      PROVE  latest' = r
  <2>1. latest = r
    BY <1>0, <1>5, WithoutBefore DEF OneRequestWaits
  <2>2. Pending
    BY <1>5, <2>1 DEF Pending
  <2>3. e.plan # None => "bypassed" \in marks'
    BY <2>2 DEF EditWrite, Mark, If
  <2>4. e.plan = None
    BY <1>5, <2>3 DEF Without
  <2> QED
    BY <2>1, <2>4 DEF EditWrite
<1>6. OneRequestWaits'
  BY <1>0, <1>5 DEF OneRequestWaits
<1> QED
  BY <1>2, <1>3, <1>4, <1>6 DEF RequestInv

LEMMA RequestKept ==
    ASSUME Inv, [Next]_vars
    PROVE  RequestInv'
  BY RequestSteps, RequestsRest, RequestAsked, RequestDecided, RequestEdited

LEMMA StatusReadKept ==
    ASSUME Inv, [Next]_vars
    PROVE  StatusReadInv'
<1> SUFFICES ASSUME Without({"overtaken"})', NEW b \in Calls, call'[b][1] = "status", call'[b][3]
             PROVE  call'[b][2] = "DELETED"
  BY DEF StatusReadInv
<1>0. TypeOK /\ Without({"overtaken"}) /\ StatusReadInv /\ DeletedForGood
  BY WithoutBefore DEF Inv, StatusInPhase
<1>1. CASE call'[b] = call[b]
  BY <1>0, <1>1 DEF StatusReadInv
<1>2. ASSUME Look(b) \/ CountUsers(b) \/ \E entitle \in BOOLEAN : SettleWrite(b, entitle)
      PROVE  FALSE
  BY <1>0, <1>2 DEF Look, SettleWrite, CountUsers, Start, Idle, TypeOK
<1>3. ASSUME NEW plan, Ask(b, plan)
      PROVE  FALSE
  BY <1>0, <1>3, AskForms
<1>4. ASSUME NEW r \in Requests, Decide(b, r, "approve") \/ Decide(b, r, "reject")
      PROVE  FALSE
  BY <1>0, <1>4, DecideForms
<1>5. ASSUME NEW s, SetStatus(b, s)
      PROVE  call'[b][2] = "DELETED"
  <2>1. call'[b] = <<"status", s, tenant.deleted>> /\ s \in NextStatuses(tenant.status)
    BY <1>0, <1>5, SetForms
  <2>2. tenant.status = "DELETED"
    BY <1>0, <2>1 DEF DeletedForGood
  <2> QED
    BY <2>1, <2>2 DEF NextStatuses
<1> QED
  BY ReadSteps, <1>0, <1>1, <1>2, <1>3, <1>4, <1>5

LEMMA DeletionKept ==
    ASSUME Inv, [Next]_vars
    PROVE  DeletedForGood'
<1> SUFFICES ASSUME Without({"overtaken"})'
             PROVE  (tenant.deleted <=> tenant.status = "DELETED")'
  BY DEF DeletedForGood
<1>0. /\ TypeOK /\ (tenant.deleted <=> tenant.status = "DELETED") /\ "overtaken" \notin marks'
      /\ tenant \in [status : TenantStatuses, deleted : BOOLEAN]
  BY WithoutBefore DEF Inv, StatusInPhase, DeletedForGood, Without, TypeOK
<1>1. CASE DeleteTenant
  BY <1>1 DEF DeleteTenant
<1>2. ASSUME NEW c \in Calls, NEW entitle \in BOOLEAN, SettleWrite(c, entitle)
      PROVE  (tenant.deleted <=> tenant.status = "DELETED")'
  <2>1. \/ tenant' = tenant
        \/ /\ tenant.status \in {"TRIAL", "EXPIRED"}
           /\ tenant' = [tenant EXCEPT !.status = "ACTIVE"]
    BY <1>2 DEF SettleWrite
  <2> QED
    BY <1>0, <2>1
<1>3. ASSUME NEW c \in Calls, ExpireTenant(c)
      PROVE  (tenant.deleted <=> tenant.status = "DELETED")'
  <2>1. tenant.status = "TRIAL" /\ tenant' = [tenant EXCEPT !.status = "EXPIRED"]
    BY <1>0, <1>3 DEF ExpireTenant, Mark, If
  <2> QED
    BY <1>0, <2>1
<1>4. ASSUME NEW c \in Calls, NEW s \in {"ACTIVE", "PAUSED", "SUSPENDED", "EXPIRED", "DELETED"},
             SetStatusWrite(c, s)
      PROVE  (tenant.deleted <=> tenant.status = "DELETED")'
  <2>1. /\ call[c][1] = "status" /\ call[c][2] = s
        /\ tenant' = [status |-> s, deleted |-> call[c][3] \/ s = "DELETED"]
    BY <1>4 DEF SetStatusWrite
  <2>2. call[c][3] => s = "DELETED"
    BY WithoutBefore, <2>1 DEF Inv, StatusReadInv
  <2> QED
    BY <2>1, <2>2
<1>5. ASSUME NEW c \in Calls, NEW p \in Purchases, SyncWrite(c, p)
      PROVE  (tenant.deleted <=> tenant.status = "DELETED")'
  <2>1. /\ tenant.status \in {"ACTIVE", "TRIAL", "EXPIRED"}
        /\ tenant' = [tenant EXCEPT !.status = "ACTIVE"]
    BY <1>5 DEF SyncWrite
  <2> QED
    BY <1>0, <2>1
<1> QED
  BY TenantSteps, <1>0, <1>1, <1>2, <1>3, <1>4, <1>5

\* No active business is stopped by its subscription.
LEMMA ActiveKept ==
    ASSUME Inv, [Next]_vars
    PROVE  ActiveIsNotBlocked'
<1> SUFFICES ASSUME Without({"overtaken", "stopped", "swallowed"})', tenant'.status = "ACTIVE",
                    \A b \in Calls : ~Busy(b)'
             PROVE  sub'.status \notin Inactive
  BY DEF ActiveIsNotBlocked, Busy
<1>0. /\ TypeOK /\ sub \in Sub /\ call \in [Calls -> Works]
      /\ "overtaken" \notin marks' /\ "stopped" \notin marks' /\ "swallowed" \notin marks'
      /\ "ACTIVE" \notin Inactive
  BY DEF Inv, TypeOK, Without, Inactive
<1>1. tenant.status = "ACTIVE" /\ (\A b \in Calls : ~Busy(b)) => sub.status \notin Inactive
  BY WithoutBefore DEF Inv, StatusInPhase, ActiveIsNotBlocked, Busy
<1>2. ASSUME NEW c \in Calls, NEW entitle \in BOOLEAN, SettleWrite(c, entitle)
      PROVE  sub'.status \notin Inactive \/ UNCHANGED <<sub, tenant>>
  BY <1>0, <1>2, SettledTyped DEF SettleWrite
<1>3. ASSUME NEW c \in Calls, ExpireWrite(c)
      PROVE  FALSE
  BY <1>0, <1>3 DEF ExpireWrite, Mark, If
<1>4. ASSUME NEW c \in Calls, UnblockWrite(c)
      PROVE  sub'.status \notin Inactive
  BY <1>0, <1>4, ReopenedTyped DEF UnblockWrite, Mark
<1>5. ASSUME NEW c \in Calls, Unblock(c)
      PROVE  sub'.status \notin Inactive
  <2>1. Blocks(sub) => call'[c] = <<"unblocked">>
    BY <1>0, <1>5 DEF Unblock
  <2>2. ~Blocks(sub)
    BY <2>1 DEF Busy
  <2> QED
    BY <1>5, <2>2 DEF Unblock, Blocks
<1>6. ASSUME NEW c \in Calls, NEW r \in Requests, ApproveWrite(c, r)
      PROVE  sub'.status \notin Inactive
  <2>1. request[r].plan \in Plans
    BY <1>0 DEF TypeOK
  <2> QED
    BY <1>0, <1>6, <2>1, ApprovedTyped, ConstantsAssumption DEF ApproveWrite
<1>7. ASSUME NEW c \in Calls, NEW e \in Edits, EditWrite(c, e)
      PROVE  \/ sub'.status \notin Inactive
             \/ sub'.status = sub.status /\ UNCHANGED tenant
  <2>1. e.status \notin Inactive
    BY <1>0, <1>7 DEF EditWrite, Mark, If
  <2>2. sub'.status = IF e.status # None THEN e.status ELSE sub.status
    BY <1>0, <1>7, EditedTyped, ConstantsAssumption
  <2> QED
    BY <1>7, <2>1, <2>2 DEF EditWrite
<1>8. ASSUME NEW c \in Calls, NEW p \in Purchases, SyncWrite(c, p)
      PROVE  sub'.status \notin Inactive
  <2>1. call[c][4] \in BOOLEAN /\ call[c][5] \in Times /\ call[c][6] \in Times
    BY <1>0, <1>8, WorkTyped DEF SyncWrite
  <2> QED
    BY <1>0, <1>8, <2>1, SyncedTyped DEF SyncWrite
<1>9. ASSUME NEW c \in Calls, ExpireTenant(c)
      PROVE  FALSE
  BY <1>0, <1>9 DEF ExpireTenant, TypeOK
<1>10. ASSUME NEW c \in Calls, NEW s \in {"ACTIVE", "PAUSED", "SUSPENDED", "EXPIRED", "DELETED"},
              SetStatusWrite(c, s)
       PROVE  FALSE
  <2>1. s = "ACTIVE"
    BY <1>10 DEF SetStatusWrite
  <2>2. call'[c] = <<"unblock">>
    BY <1>0, <1>10, <2>1 DEF SetStatusWrite
  <2> QED
    BY <2>2 DEF Busy
<1>11. CASE DeleteTenant
  BY <1>11 DEF DeleteTenant
<1>12. sub'.status \notin Inactive \/ sub'.status = sub.status
  BY SubSteps, <1>2, <1>3, <1>4, <1>6, <1>7, <1>8
<1>13. sub'.status \notin Inactive \/ UNCHANGED tenant
  BY TenantSteps, <1>2, <1>8, <1>9, <1>10, <1>11
<1>14. sub'.status \notin Inactive \/ \A b \in Calls : ~Busy(b)
  BY BusySteps, <1>0, <1>3, <1>4, <1>5
<1> QED
  BY <1>1, <1>12, <1>13, <1>14

LEMMA InvKept ==
    ASSUME Inv, [Next]_vars
    PROVE  Inv'
<1>1. TypeOK'
  BY TypeKept, ConstantsAssumption DEF Inv
<1> QED
  BY <1>1, AddKept, CacheKept, RequestKept, StatusReadKept, DeletionKept, ActiveKept
  DEF Inv, StatusInPhase

(***************************************************************************)
(* The answers of Apple.                                                   *)
(***************************************************************************)

Syncing(c) == call[c][1] = "sync"

Syncs(c, p) == Syncing(c) /\ call[c][2] = p

\* Answers are numbered as they are signed, and each is dealt with once.
NumbersInv ==
    /\ \A p \in Purchases : row[p] <= heard[p].signed /\ heard[p].signed <= signed
    /\ \A c \in Calls : Syncing(c) => call[c][3] <= signed
    /\ \A c \in Calls, p \in Purchases : Syncing(c) => call[c][3] # heard[p].signed
    /\ \A c, d \in Calls : c # d /\ Syncing(c) /\ Syncing(d) => call[c][3] # call[d][3]

\* A later answer on a purchase was never bought earlier.
BoughtInv ==
    /\ \A p \in Purchases : apple[p].bought # None => apple[p].bought <= now
    /\ \A c \in Calls, p \in Purchases :
           Syncs(c, p) => apple[p].bought # None /\ call[c][5] <= apple[p].bought
    /\ \A c, d \in Calls, p \in Purchases :
           Syncs(c, p) /\ Syncs(d, p) /\ call[c][3] < call[d][3] => call[c][5] <= call[d][5]

\* The row of a purchase has the newest answer, or those on their way are newer still.
RecordedInv ==
    Without({"unrecorded"}) =>
        \A c \in Calls, p \in Purchases :
            Syncs(c, p) => row[p] = heard[p].signed \/ heard[p].signed < call[c][3]

\* The purchase a subscription stands on: nothing newer on it can be taken for a former one.
GrantedBy(p) ==
    /\ heard[p].active /\ row[p] = heard[p].signed
    /\ apple[p].bought # None /\ sub.bought <= apple[p].bought
    /\ \A c \in Calls : Syncs(c, p) /\ row[p] < call[c][3] => sub.bought <= call[c][5]

GrantInv ==
    Without({"unrecorded", "restarted"}) /\ sub.payment = "APPLE" =>
        \E p \in Purchases : GrantedBy(p)

AppleInv == NumbersInv /\ BoughtInv /\ RecordedInv /\ GrantInv

\* The numbers and times these compare.
LEMMA AnswersTyped ==
    ASSUME TypeOK
    PROVE  /\ now \in Nat /\ signed \in Nat /\ sub.bought \in Nat
           /\ \A p \in Purchases :
                  /\ apple[p].bought # None => apple[p].bought \in Nat
                  /\ row[p] \in Nat /\ heard[p].signed \in Nat
           /\ \A c \in Calls : Syncing(c) => call[c][3] \in Nat /\ call[c][5] \in Nat
<1>1. Times \subseteq Nat /\ 0 .. MaxSigned \subseteq Nat /\ 0 .. MaxTime \subseteq Nat
  BY ConstantsAssumption DEF ConstantsAssumption, Times
<1>2. now \in Nat /\ signed \in Nat /\ sub.bought \in Nat
  BY <1>1 DEF TypeOK, Sub
<1>3. ASSUME NEW p \in Purchases
      PROVE  /\ apple[p].bought # None => apple[p].bought \in Nat
             /\ row[p] \in Nat /\ heard[p].signed \in Nat
  BY <1>1 DEF TypeOK
<1>4. ASSUME NEW c \in Calls, Syncing(c)
      PROVE  call[c][3] \in Nat /\ call[c][5] \in Nat
  BY <1>1, <1>4, WorkTyped DEF Syncing
<1> QED
  BY <1>2, <1>3, <1>4

\* A call that has an answer has just got it or had it before.
LEMMA SyncSteps ==
    ASSUME TypeOK, [Next]_vars, NEW b \in Calls, Syncing(b)'
    PROVE  call'[b] = call[b] \/ \E p \in Purchases : Fetch(b, p)
<1>0. call \in [Calls -> Works] /\ call'[b][1] = "sync"
  BY DEF TypeOK, Syncing
<1>1. ASSUME Look(b) \/ CountUsers(b) \/ \E entitle \in BOOLEAN : SettleWrite(b, entitle)
      PROVE  FALSE
  BY <1>0, <1>1 DEF Look, SettleWrite, CountUsers, Start, Idle
<1>2. ASSUME NEW plan, Ask(b, plan)
      PROVE  FALSE
  BY <1>0, <1>2, AskForms
<1>3. ASSUME NEW r \in Requests, Decide(b, r, "approve") \/ Decide(b, r, "reject")
      PROVE  FALSE
  BY <1>0, <1>3, DecideForms
<1>4. ASSUME NEW s, SetStatus(b, s)
      PROVE  FALSE
  BY <1>0, <1>4, SetForms
<1> QED
  BY CallSteps, <1>0, <1>1, <1>2, <1>3, <1>4

\* Without a new answer, those on their way become fewer.
LEMMA SyncsRest ==
    ASSUME TypeOK, [Next]_vars, signed' = signed, NEW b \in Calls, Syncing(b)'
    PROVE  call'[b] = call[b] /\ Syncing(b)
<1>1. ASSUME NEW p \in Purchases, Fetch(b, p)
      PROVE  FALSE
  <2>1. signed' = signed + 1 /\ signed \in Nat
    BY <1>1, AnswersTyped DEF Fetch
  <2> QED
    BY <2>1
<1> QED
  BY SyncSteps, <1>1 DEF Syncing

\* Time does not go back.
LEMMA TimeGrows ==
    ASSUME TypeOK, [Next]_vars
    PROVE  now \in Nat /\ now' \in Nat /\ now <= now'
<1>1. CASE Tick
  BY <1>1, AnswersTyped DEF Tick
<1> QED
  BY <1>1, TimeSteps, AnswersTyped

\* A subscription paid through Apple was so before, or has just been written from an answer.
LEMMA PaymentSteps ==
    ASSUME TypeOK, [Next]_vars, sub'.payment = "APPLE"
    PROVE  \/ /\ sub.payment = "APPLE"
              /\ "restarted" \notin marks' => sub'.bought <= sub.bought
           \/ \E c \in Calls, p \in Purchases : SyncWrite(c, p)
<1>0. sub \in Sub /\ sub.bought \in Nat
  BY AnswersTyped DEF TypeOK
<1>1. ASSUME NEW c \in Calls, NEW entitle \in BOOLEAN, SettleWrite(c, entitle)
      PROVE  sub' = sub
  BY <1>0, <1>1 DEF SettleWrite, Settled, Sub
<1>2. ASSUME NEW c \in Calls, ExpireWrite(c)
      PROVE  FALSE
  BY <1>0, <1>2 DEF ExpireWrite, Sub
<1>3. ASSUME NEW c \in Calls, UnblockWrite(c)
      PROVE  sub' = sub
  BY <1>0, <1>3 DEF UnblockWrite, Reopened, Sub
<1>4. ASSUME NEW c \in Calls, NEW r \in Requests, ApproveWrite(c, r)
      PROVE  FALSE
  <2>1. sub'.payment = IF request[r].plan = "POS_FREE" THEN "FREE" ELSE "MANUAL_CONFIRMED"
    BY <1>0, <1>4 DEF ApproveWrite, Approved, Sub
  <2> QED
    BY <2>1
<1>5. ASSUME NEW c \in Calls, NEW e \in Edits, EditWrite(c, e)
      PROVE  /\ sub.payment = "APPLE"
             /\ "restarted" \notin marks' => sub'.bought <= sub.bought
  <2>1. sub.payment = "APPLE" /\ sub'.bought = Given(e.start, sub.bought) /\ sub' \in Sub
    BY <1>5, EditedTyped, ConstantsAssumption
  <2>2. "restarted" \notin marks' => ~(sub'.bought > sub.bought)
    BY <1>5, <2>1 DEF EditWrite, Mark, If
  <2>3. sub'.bought \in Nat
    BY <2>1, ConstantsAssumption DEF Sub, Times, ConstantsAssumption
  <2> QED
    BY <1>0, <2>1, <2>2, <2>3
<1> QED
  BY SubSteps, <1>0, <1>1, <1>2, <1>3, <1>4, <1>5

LEMMA BoughtTyped ==
    ASSUME TypeOK, [Next]_vars
    PROVE  sub'.bought \in Nat
  BY SubTyped, ConstantsAssumption DEF ConstantsAssumption, Sub, Times

\* Steps in which Apple and its answers take no part.
LEMMA AnswersRest ==
    ASSUME TypeOK, TypeOK', [Next]_vars, AppleInv, UNCHANGED <<apple, signed, row, heard>>
    PROVE  NumbersInv' /\ BoughtInv' /\ RecordedInv'
<1>1. \A b \in Calls : Syncing(b)' => call'[b] = call[b] /\ Syncing(b)
  BY SyncsRest
<1>2. NumbersInv'
  BY <1>1 DEF AppleInv, NumbersInv
<1>3. BoughtInv'
  BY <1>1, TimeGrows, AnswersTyped DEF AppleInv, BoughtInv, Syncs
<1>4. RecordedInv'
  BY <1>1, WithoutBefore DEF AppleInv, RecordedInv, Syncs
<1> QED
  BY <1>2, <1>3, <1>4

LEMMA GrantRest ==
    ASSUME TypeOK, [Next]_vars, AppleInv, UNCHANGED <<apple, signed, row, heard>>,
           \A c \in Calls, p \in Purchases : ~SyncWrite(c, p)
    PROVE  GrantInv'
<1> SUFFICES ASSUME Without({"unrecorded", "restarted"})', sub'.payment = "APPLE"
             PROVE  \E p \in Purchases : GrantedBy(p)'
  BY DEF GrantInv
<1>1. \A b \in Calls : Syncing(b)' => call'[b] = call[b] /\ Syncing(b)
  BY SyncsRest
<1>2. sub.payment = "APPLE" /\ sub'.bought <= sub.bought
  BY PaymentSteps DEF Without
<1>3. PICK p \in Purchases : GrantedBy(p)
  BY <1>2, WithoutBefore DEF AppleInv, GrantInv
<1>4. GrantedBy(p)'
  BY <1>1, <1>2, <1>3, AnswersTyped, BoughtTyped DEF GrantedBy, Syncs
<1> QED
  BY <1>4

\* What is bought is bought now.
LEMMA AnswersBought ==
    ASSUME TypeOK, [Next]_vars, AppleInv, NEW q \in Purchases, Buy(q) \/ Refund(q)
    PROVE  AppleInv'
<1>0. /\ UNCHANGED <<now, signed, row, heard, call, sub, marks>>
      /\ apple \in [Purchases -> [bought : Times \cup {None}, ends : Times]]
      /\ now \in Nat /\ None \notin Nat
  BY ConstantsAssumption, AnswersTyped DEF Buy, Refund, TypeOK, ConstantsAssumption
<1>1. \A p \in Purchases :
          /\ apple[p].bought # None => /\ apple'[p].bought # None
                                       /\ apple[p].bought <= apple'[p].bought
          /\ apple'[p].bought # None => apple'[p].bought \in Nat /\ apple'[p].bought <= now
  <2>1. CASE Buy(q)
    <3>1. \A p \in Purchases : apple'[p].bought = now \/ apple'[p] = apple[p]
      BY <1>0, <2>1 DEF Buy
    <3> QED
      BY <1>0, <3>1, AnswersTyped DEF AppleInv, BoughtInv
  <2>2. CASE Refund(q)
    <3>1. \A p \in Purchases : apple'[p].bought = apple[p].bought
      BY <1>0, <2>2 DEF Refund
    <3> QED
      BY <1>0, <3>1, AnswersTyped DEF AppleInv, BoughtInv
  <2> QED
    BY <2>1, <2>2
<1>2. NumbersInv' /\ RecordedInv'
  BY <1>0 DEF AppleInv, NumbersInv, RecordedInv, Syncing, Syncs, Without
<1>3. BoughtInv'
  BY <1>0, <1>1, AnswersTyped DEF AppleInv, BoughtInv, Syncing, Syncs
<1>4. ASSUME NEW p \in Purchases, GrantedBy(p)
      PROVE  GrantedBy(p)'
  BY <1>0, <1>1, <1>4, AnswersTyped DEF GrantedBy, Syncing, Syncs
<1>5. GrantInv'
  BY <1>0, <1>4 DEF AppleInv, GrantInv, Without
<1> QED
  BY <1>2, <1>3, <1>5 DEF AppleInv

\* An answer just signed is newer than any other.
LEMMA AnswersFetched ==
    ASSUME TypeOK, [Next]_vars, AppleInv, NEW c \in Calls, NEW q \in Purchases, Fetch(c, q)
    PROVE  AppleInv'
<1>0. /\ UNCHANGED <<now, apple, row, heard, sub, marks>>
      /\ signed' = signed + 1 /\ apple[q].bought # None
      /\ call' = [call EXCEPT ![c] = <<"sync", q, signed + 1, apple[q].ends > now,
                                       apple[q].bought, apple[q].ends>>]
      /\ call[c] = Idle /\ DOMAIN call = Calls
  BY DEF Fetch, Start, TypeOK
<1>1. /\ \A b \in Calls : b # c => call'[b] = call[b]
      /\ call'[c][1] = "sync" /\ call'[c][2] = q /\ call'[c][3] = signed + 1
      /\ call'[c][5] = apple[q].bought
  BY <1>0
<1>2. \A b \in Calls : Syncing(b)' => b = c \/ (Syncing(b) /\ call'[b] = call[b])
  BY <1>1 DEF Syncing
<1>3. \A b \in Calls, p \in Purchases : Syncs(b, p)' => (b = c /\ p = q) \/ (b # c /\ Syncs(b, p))
  BY <1>1 DEF Syncing, Syncs
<1>4. NumbersInv'
  <2>1. \A p \in Purchases : row[p] <= heard[p].signed /\ heard[p].signed < signed'
    BY <1>0, AnswersTyped DEF AppleInv, NumbersInv
  <2>2. \A b \in Calls : Syncing(b)' /\ b # c => call'[b][3] < signed'
    BY <1>0, <1>2, AnswersTyped DEF AppleInv, NumbersInv
  <2>3. signed' \in Nat /\ call'[c][3] = signed'
    BY <1>0, <1>1, AnswersTyped
  <2>4. \A b \in Calls : Syncing(b)' => call'[b][3] \in Nat /\ call'[b][3] <= signed'
    BY <1>2, <2>2, <2>3, AnswersTyped
  <2>5. \A b \in Calls, p \in Purchases : Syncing(b)' => call'[b][3] # heard'[p].signed
    BY <1>0, <1>2, <2>1, <2>3, AnswersTyped DEF AppleInv, NumbersInv
  <2>6. \A b, d \in Calls : b # d /\ Syncing(b)' /\ Syncing(d)' => call'[b][3] # call'[d][3]
    BY <1>2, <2>2, <2>3, <2>4 DEF AppleInv, NumbersInv
  <2>7. \A p \in Purchases : row'[p] <= heard'[p].signed /\ heard'[p].signed <= signed'
    BY <1>0, <2>1, <2>3, AnswersTyped
  <2> QED
    BY <2>4, <2>5, <2>6, <2>7 DEF NumbersInv
<1>5. \A b \in Calls : b # c /\ Syncing(b) => call[b][3] < call'[c][3]
  BY <1>0, <1>1, AnswersTyped DEF AppleInv, NumbersInv
<1>6. BoughtInv'
  <2>1. \A b \in Calls, p \in Purchases :
            Syncs(b, p)' => apple[p].bought # None /\ call'[b][5] <= apple[p].bought
    BY <1>0, <1>1, <1>3, AnswersTyped DEF AppleInv, BoughtInv
  <2>2. ASSUME NEW b \in Calls, NEW d \in Calls, NEW p \in Purchases,
               Syncs(b, p)', Syncs(d, p)', call'[b][3] < call'[d][3]
        PROVE  call'[b][5] <= call'[d][5]
    <3>1. CASE b # c /\ d # c
      BY <1>1, <1>3, <2>2, <3>1 DEF AppleInv, BoughtInv
    <3>2. CASE d = c
      BY <1>1, <1>3, <2>1, <2>2, <3>2
    <3>3. CASE b = c /\ d # c
      <4>1. Syncing(d) /\ call'[d] = call[d]
        BY <1>1, <1>3, <2>2, <3>3 DEF Syncs
      <4>2. call[d][3] < call'[c][3] /\ call[d][3] \in Nat /\ call'[c][3] \in Nat
        BY <1>0, <1>1, <1>5, <3>3, <4>1, AnswersTyped
      <4> QED
        BY <2>2, <3>3, <4>1, <4>2
    <3> QED
      BY <3>1, <3>2, <3>3
  <2> QED
    BY <1>0, <2>1, <2>2 DEF AppleInv, BoughtInv
<1>7. RecordedInv'
  <2>1. heard[q].signed < call'[c][3]
    BY <1>0, <1>1, AnswersTyped DEF AppleInv, NumbersInv
  <2> QED
    BY <1>0, <1>1, <1>3, <2>1 DEF AppleInv, RecordedInv, Without
<1>8. ASSUME NEW p \in Purchases, GrantedBy(p)
      PROVE  GrantedBy(p)'
  BY <1>0, <1>1, <1>3, <1>8 DEF GrantedBy
<1>9. GrantInv'
  BY <1>0, <1>8 DEF AppleInv, GrantInv, Without
<1> QED
  BY <1>4, <1>6, <1>7, <1>9 DEF AppleInv

\* A call that has dealt with its answer has none.
LEMMA Answered ==
    ASSUME TypeOK, NEW c \in Calls, Return(c)
    PROVE  \A b \in Calls : Syncing(b)' => b # c /\ Syncing(b) /\ call'[b] = call[b]
<1>1. \A b \in Others(c) : call'[b] = call[b]
  BY Returned
<1>2. call'[c] = <<"idle">>
  BY DEF TypeOK, Return, Idle
<1> QED
  BY <1>1, <1>2 DEF Others, Syncing

\* An answer that is written is newer than what was dealt with, or an answer was lost before.
LEMMA AnswersWritten ==
    ASSUME TypeOK, [Next]_vars, AppleInv, NEW c \in Calls, NEW q \in Purchases, SyncWrite(c, q)
    PROVE  AppleInv'
<1> DEFINE n == call[c][3]
           h == [signed |-> n, active |-> call[c][4]]
<1>0. /\ UNCHANGED <<now, apple, signed>> /\ Syncs(c, q) /\ Syncing(c)
      /\ ~(row[q] > n) /\ Return(c)
      /\ row' = [row EXCEPT ![q] = n]
      /\ heard' = IF n > heard[q].signed THEN [heard EXCEPT ![q] = h] ELSE heard
      /\ sub' = Synced(sub, call[c][4], call[c][5], call[c][6])
  BY DEF SyncWrite, Syncs, Syncing, Outdated, Hear
<1>1. /\ n \in Nat /\ n <= signed /\ row[q] <= n /\ n # heard[q].signed
      /\ DOMAIN row = Purchases /\ DOMAIN heard = Purchases
      /\ row[q] \in Nat /\ heard[q].signed \in Nat /\ signed \in Nat
  BY <1>0, AnswersTyped DEF AppleInv, NumbersInv, TypeOK
<1>2. \A b \in Calls : Syncing(b)' => b # c /\ Syncing(b) /\ call'[b] = call[b]
  BY <1>0, Answered
<1>3. \A b \in Calls, p \in Purchases : Syncs(b, p)' => b # c /\ Syncs(b, p) /\ call'[b] = call[b]
  BY <1>2 DEF Syncs
<1>4. /\ row'[q] = n
      /\ heard'[q] = IF n > heard[q].signed THEN h ELSE heard[q]
      /\ \A p \in Purchases : p # q => row'[p] = row[p] /\ heard'[p] = heard[p]
  BY <1>0, <1>1
<1>5. h.signed = n /\ h.active = call[c][4]
  OBVIOUS
<1> HIDE DEF h
<1>6. heard'[q].signed \in {n, heard[q].signed} /\ n <= heard'[q].signed
  BY <1>1, <1>4, <1>5
<1>7. NumbersInv'
  <2>1. \A p \in Purchases : row'[p] <= heard'[p].signed /\ heard'[p].signed <= signed'
    BY <1>0, <1>1, <1>4, <1>6 DEF AppleInv, NumbersInv
  <2>2. \A b \in Calls, p \in Purchases : Syncing(b)' => call'[b][3] # heard'[p].signed
    BY <1>0, <1>2, <1>4, <1>6 DEF AppleInv, NumbersInv
  <2> QED
    BY <1>0, <1>2, <2>1, <2>2 DEF AppleInv, NumbersInv
<1>8. BoughtInv'
  BY <1>0, <1>2, <1>3 DEF AppleInv, BoughtInv
<1>9. Without({"unrecorded"})' => heard'[q] = h
  <2>1. Without({"unrecorded"})' => row[q] = heard[q].signed \/ heard[q].signed < n
    BY <1>0, WithoutBefore DEF AppleInv, RecordedInv
  <2> QED
    BY <1>1, <1>4, <2>1
<1>10. RecordedInv'
  <2>1. ASSUME Without({"unrecorded"})', NEW b \in Calls, NEW p \in Purchases, Syncs(b, p)'
        PROVE  row'[p] = heard'[p].signed \/ heard'[p].signed < call'[b][3]
    <3>1. CASE p = q
      BY <1>4, <1>5, <1>9, <2>1, <3>1
    <3>2. CASE p # q
      BY <1>3, <1>4, <2>1, <3>2, WithoutBefore DEF AppleInv, RecordedInv
    <3> QED
      BY <3>1, <3>2
  <2> QED
    BY <2>1 DEF RecordedInv
<1>11. ASSUME Without({"unrecorded"})', sub'.payment = "APPLE"
       PROVE  GrantedBy(q)'
  <2>0. sub \in Sub
    BY DEF TypeOK
  <2>1. call[c][4] /\ sub'.bought = call[c][5]
    <3>1. sub'.payment = (IF call[c][4] THEN "APPLE" ELSE "APPLE_FREE") /\ sub'.bought = call[c][5]
      BY <1>0, <2>0 DEF Synced, Sub
    <3> QED
      BY <1>11, <3>1
  <2>2. heard'[q].active /\ row'[q] = heard'[q].signed
    BY <1>4, <1>5, <1>9, <1>11, <2>1
  <2>3. apple'[q].bought # None /\ sub'.bought <= apple'[q].bought
    BY <1>0, <2>1 DEF AppleInv, BoughtInv
  <2>4. ASSUME NEW b \in Calls, Syncs(b, q)', row'[q] < call'[b][3]
        PROVE  sub'.bought <= call'[b][5]
    <3>1. Syncs(b, q) /\ n < call[b][3] /\ call'[b] = call[b]
      BY <1>3, <1>4, <2>4
    <3> QED
      BY <1>0, <2>1, <3>1 DEF AppleInv, BoughtInv
  <2> QED
    BY <2>2, <2>3, <2>4 DEF GrantedBy
<1>12. GrantInv'
  BY <1>11 DEF GrantInv, Without
<1> QED
  BY <1>7, <1>8, <1>10, <1>12 DEF AppleInv

\* An answer that is left was overtaken, or is on another purchase than the subscription's.
LEMMA AnswersIgnored ==
    ASSUME TypeOK, [Next]_vars, AppleInv, NEW c \in Calls, NEW q \in Purchases, SyncIgnored(c, q)
    PROVE  AppleInv'
<1> DEFINE n == call[c][3]
           h == [signed |-> n, active |-> call[c][4]]
<1>0. /\ UNCHANGED <<now, apple, signed, row, sub>> /\ Syncs(c, q) /\ Syncing(c) /\ Return(c)
      /\ row[q] > n \/ Irrelevant(call[c][4], call[c][5])
      /\ heard' = IF n > heard[q].signed THEN [heard EXCEPT ![q] = h] ELSE heard
      /\ "unrecorded" \notin marks' =>
             row[q] > n \/ \A b \in Calls : b # c => ~Syncing(b)
  BY DEF SyncIgnored, Syncs, Syncing, Outdated, Hear, Mark, If, Others
<1>1. /\ n \in Nat /\ n <= signed /\ n # heard[q].signed /\ row[q] <= heard[q].signed
      /\ DOMAIN heard = Purchases
      /\ row[q] \in Nat /\ heard[q].signed \in Nat /\ signed \in Nat
  BY <1>0, AnswersTyped DEF AppleInv, NumbersInv, TypeOK
<1>2. \A b \in Calls : Syncing(b)' => b # c /\ Syncing(b) /\ call'[b] = call[b]
  BY <1>0, Answered
<1>3. \A b \in Calls, p \in Purchases : Syncs(b, p)' => b # c /\ Syncs(b, p) /\ call'[b] = call[b]
  BY <1>2 DEF Syncs
<1>4. /\ heard'[q] = IF n > heard[q].signed THEN h ELSE heard[q]
      /\ \A p \in Purchases : p # q => heard'[p] = heard[p]
  BY <1>0, <1>1
<1>5. h.signed = n
  OBVIOUS
<1> HIDE DEF h
<1>6. heard'[q].signed \in {n, heard[q].signed} /\ row[q] <= heard'[q].signed
  BY <1>1, <1>4, <1>5
<1>7. NumbersInv'
  <2>1. \A p \in Purchases : row'[p] <= heard'[p].signed /\ heard'[p].signed <= signed'
    BY <1>0, <1>1, <1>4, <1>6 DEF AppleInv, NumbersInv
  <2>2. \A b \in Calls, p \in Purchases : Syncing(b)' => call'[b][3] # heard'[p].signed
    BY <1>0, <1>2, <1>4, <1>6 DEF AppleInv, NumbersInv
  <2> QED
    BY <1>0, <1>2, <2>1, <2>2 DEF AppleInv, NumbersInv
<1>8. BoughtInv'
  BY <1>0, <1>2, <1>3 DEF AppleInv, BoughtInv
<1>9. row[q] > n => heard' = heard
  BY <1>0, <1>1
<1>10. RecordedInv'
  <2>1. ASSUME Without({"unrecorded"})', NEW b \in Calls, NEW p \in Purchases, Syncs(b, p)'
        PROVE  row'[p] = heard'[p].signed \/ heard'[p].signed < call'[b][3]
    <3>1. Syncs(b, p) /\ call'[b] = call[b] /\ b # c /\ Syncing(b)
      BY <1>2, <1>3, <2>1 DEF Syncs
    <3>2. heard' = heard
      BY <1>0, <1>9, <2>1, <3>1 DEF Without
    <3> QED
      BY <1>0, <2>1, <3>1, <3>2, WithoutBefore DEF AppleInv, RecordedInv
  <2> QED
    BY <2>1 DEF RecordedInv
<1>11. ASSUME sub.payment = "APPLE", NEW p \in Purchases, GrantedBy(p)
       PROVE  GrantedBy(p)'
  <2>1. heard'[p] = heard[p]
    <3>1. CASE p # q
      BY <1>4, <3>1
    <3>2. CASE p = q /\ row[q] > n
      BY <1>9, <3>2
    <3>3. CASE p = q /\ ~(row[q] > n)
      <4>1. row[q] < n
        BY <1>1, <1>11, <3>3 DEF GrantedBy
      <4>2. sub.bought <= call[c][5]
        BY <1>0, <1>11, <3>3, <4>1 DEF GrantedBy
      <4>3. sub.bought > call[c][5]
        BY <1>0, <1>11, <3>3 DEF Irrelevant
      <4> QED
        BY <1>0, <4>2, <4>3, AnswersTyped
    <3> QED
      BY <3>1, <3>2, <3>3
  <2> QED
    BY <1>0, <1>3, <1>11, <2>1 DEF GrantedBy
<1>12. GrantInv'
  BY <1>0, <1>11, WithoutBefore DEF AppleInv, GrantInv
<1> QED
  BY <1>7, <1>8, <1>10, <1>12 DEF AppleInv

LEMMA AppleKept ==
    ASSUME TypeOK, TypeOK', AppleInv, [Next]_vars
    PROVE  AppleInv'
<1>1. CASE \E c \in Calls, p \in Purchases : SyncWrite(c, p)
  BY <1>1, AnswersWritten
<1>2. CASE UNCHANGED <<apple, signed, row, heard>>
           /\ ~\E c \in Calls, p \in Purchases : SyncWrite(c, p)
  BY <1>2, AnswersRest, GrantRest DEF AppleInv
<1> QED
  BY AppleSteps, <1>1, <1>2, AnswersBought, AnswersFetched, AnswersIgnored

LEMMA AppleInit ==
    ASSUME Init
    PROVE  AppleInv
<1>1. \A c \in Calls : ~Syncing(c)
  BY DEF Init, Idle, Syncing
<1>2. NumbersInv
  BY <1>1 DEF Init, NumbersInv
<1>3. BoughtInv /\ RecordedInv /\ GrantInv
  BY <1>1 DEF Init, BoughtInv, RecordedInv, GrantInv, Syncs
<1> QED
  BY <1>2, <1>3 DEF AppleInv

(***************************************************************************)
(* The theorems.                                                           *)
(***************************************************************************)

\* What calls have read and what is in memory agrees with the rows, unless marked.
THEOREM InvCorrect == Spec => []Inv
<1>1. Init => Inv
  BY InitInv
<1>2. Inv /\ [Next]_vars => Inv'
  BY InvKept
<1> QED
  BY <1>1, <1>2, PTL DEF Spec

\* Rows, requests, purchases, calls and cache keep their types.
THEOREM TypeCorrect == Spec => []TypeOK
<1>1. Inv => TypeOK
  BY DEF Inv
<1> QED
  BY <1>1, InvCorrect, PTL

\* Requests are answered once and wait one at a time, unless two of these calls meet.
THEOREM RequestsAnsweredCorrect == Spec => []RequestsAnswered
<1>1. Inv => RequestsAnswered
  BY DEF Inv, RequestInv, RequestsAnswered
<1> QED
  BY <1>1, InvCorrect, PTL

\* A deleted business stays so, and no active one is stopped by its subscription.
THEOREM StatusInPhaseCorrect == Spec => []StatusInPhase
<1>1. Inv => StatusInPhase
  BY DEF Inv
<1> QED
  BY <1>1, InvCorrect, PTL

\* Entitlements in memory are those of the row.
THEOREM CacheFollowsPlanCorrect == Spec => []CacheFollowsPlan
<1>1. Inv => CacheFollowsPlan
  BY DEF Inv, CacheInv, CacheFollowsPlan, Reflects
<1> QED
  BY <1>1, InvCorrect, PTL

\* Users are added up to the limit that was read.
THEOREM LimitKeptCorrect == Spec => LimitKept
<1> DEFINE Goal == \E c \in Calls : call[c][1] = "add" /\ users' <= call[c][2]
<1>1. ASSUME Inv, [Next]_vars, users' > users
      PROVE  Goal
  <2>0. TypeOK /\ users \in Nat
    BY <1>1 DEF Inv, TypeOK
  <2>1. ASSUME NEW c \in Calls, AddUser(c)
        PROVE  Goal
    <3>1. call[c][1] = "add" /\ users = call[c][4] /\ users' = users + 1
      BY <2>1 DEF AddUser, Conflict
    <3>2. call[c][4] < call[c][2] /\ call[c][2] \in Nat
      BY <1>1, <2>0, <3>1, WorkTyped DEF Inv, AddInv
    <3>3. users' <= call[c][2]
      BY <2>0, <3>1, <3>2
    <3> QED
      BY <3>1, <3>3
  <2>2. ~DeleteTenant /\ ~DisableUser /\ users' # users
    BY <1>1, <2>0 DEF DeleteTenant, DisableUser
  <2> QED
    BY UserSteps, <1>1, <2>1, <2>2
<1>2. Inv /\ [Next]_vars => [users' > users => Goal]_vars
  BY <1>1
<1> QED
  BY <1>2, InvCorrect, PTL DEF Spec, LimitKept

\* What Apple's newest answers refuse is not granted, unless an answer was lost.
THEOREM AppleNewestWinsCorrect == Spec => []AppleNewestWins
<1>1. Init => AppleInv
  BY AppleInit
<1>2. TypeOK /\ TypeOK' /\ AppleInv /\ [Next]_vars => AppleInv'
  BY AppleKept
<1>3. AppleInv => AppleNewestWins
  BY DEF AppleInv, GrantInv, GrantedBy, AppleNewestWins
<1> QED
  BY <1>1, <1>2, <1>3, TypeCorrect, PTL DEF Spec
=============================================================================
