------------------------------ MODULE Payments ------------------------------
(***************************************************************************)
(* Payments of one account through Midtrans (payments.service.ts), its     *)
(* token balance and ledger (tokens.service.ts) and its subscription       *)
(* (subscriptions.service.ts, subscriptions.cron.ts).                      *)
(*                                                                         *)
(* The webhook handler has no transaction: the row is read, its status is  *)
(* written, and what was bought is credited in awaits of their own.        *)
(* Midtrans repeats a notification until it is answered, and in any order. *)
(***************************************************************************)
EXTENDS Integers, FiniteSets

CONSTANTS
    TopUps,         \* orders of a talent (TOKEN_TOPUP)
    Subs,           \* orders of a company (SUBSCRIPTION)
    MaxHooks,       \* bound: webhook requests handled at once
    Spenders,       \* requests that spend tokens
    TokenAmount,    \* tokens of a top-up
    Cost,           \* tokens of a spend
    Months,         \* months of a subscription
    MaxNow,         \* bound: the clock, in months
    MaxCredits,     \* bound: credits after which a credited order is not notified again
    MaxEarned,      \* bound: rewards and simulated top-ups
    MaxRestarts

Orders == TopUps \cup Subs
Hooks == 1 .. MaxHooks

ASSUME OrdersAssumption == TopUps \cap Subs = {}
ASSUME NumbersAssumption ==
    /\ {TokenAmount, Cost, Months} \subseteq Nat \ {0}
    /\ {MaxHooks, MaxNow, MaxCredits, MaxEarned, MaxRestarts} \subseteq Nat

VARIABLES
    account,        \* "talent" or "company"
    profile,        \* the account has the profile that its orders are credited to
    status,         \* PaymentTransaction.status; "none" before the row exists
    sent,           \* what Midtrans reports of each order
    hook,           \* hook[h]: a webhook request under way
    balance,        \* talentProfile.tokenBalance
    ledger,         \* sum of the TokenTransaction rows, spends negative
    spender,        \* spender[s]: a spending transaction under way
    tier,           \* companyProfile.subscriptionTier
    expiresAt,      \* companyProfile.subscriptionExpiresAt; 0 is null
    now,
    earned, restarts,
    credits,        \* history: how often each order was credited
    disturbed,      \* history: what happened that the properties except
    lived           \* history: months begun on a paid tier

tokenVars == <<balance, ledger, spender, earned>>
planVars == <<tier, expiresAt>>
history == <<credits, disturbed, lived>>
vars == <<account, profile, status, sent, hook, tokenVars, planVars, now, restarts, history>>

Events == {"settlement", "expire", "deny"}
Idle == [at |-> "idle"]

\* What can happen to an order, or to the account, that excuses a property.
Disturbances ==
    {<<"overlapped", o>> : o \in Orders} \cup {<<"interrupted", o>> : o \in Orders}
        \cup {<<"plans">>}

Init ==
    /\ account \in {"talent", "company"}
    /\ profile \in BOOLEAN
    /\ status = [o \in Orders |-> "none"]
    /\ sent = [o \in Orders |-> {}]
    /\ hook = [h \in Hooks |-> Idle]
    /\ balance = 0 /\ ledger = 0 /\ earned = 0
    /\ spender = [s \in Spenders |-> "idle"]
    /\ tier = "STARTUP" /\ expiresAt = 0
    /\ now = 1 /\ restarts = 0
    /\ credits = [o \in Orders |-> 0]
    /\ disturbed = {}
    /\ lived = 0

-----------------------------------------------------------------------------
(* Orders.                                                                 *)

\* What Midtrans will report: a card is denied and perhaps another one accepted,
\* or nothing is paid in time.  Each report may come late, again, or be behind the
\* next one; an order that Snap refused is one nothing is ever reported of.
Reports == {{"deny", "settlement"}, {"expire"}}

\* The row, PENDING, is stored before Snap is asked.
createOrder(o) ==
    /\ o \in (IF account = "talent" THEN TopUps ELSE Subs)
    /\ status[o] = "none"
    /\ status' = [status EXCEPT ![o] = "PENDING"]
    /\ \E r \in Reports : sent' = [sent EXCEPT ![o] = r]
    /\ UNCHANGED <<account, profile, hook, tokenVars, planVars, now, restarts, history>>

-----------------------------------------------------------------------------
(* handleMidtransWebhook, step by step.                                    *)

\* Every credit there has been, by its order and its number.
Credits == UNION {{o} \X (1 .. credits[o]) : o \in Orders}
AllCredits == Cardinality(Credits)

HandledBy(o) == {h \in Hooks : hook[h].at # "idle" /\ hook[h].order = o}

\* Mutated form of findTransaction: a denied order is taken for finished.
findTransaction_Pending(h, o, e) ==
    /\ hook[h].at = "idle" /\ \A g \in 1 .. h - 1 : hook[g].at # "idle"
    /\ e \in sent[o]
    /\ status[o] = "PENDING"
    /\ hook' = [hook EXCEPT ![h] = [at |-> "found", order |-> o, event |-> e]]
    /\ disturbed' = disturbed \cup (IF HandledBy(o) = {} THEN {} ELSE {<<"overlapped", o>>})
    /\ UNCHANGED <<account, profile, status, sent, tokenVars, planVars, now, restarts, credits, lived>>

\* The row is found and not SUCCESS ("already processed" changes nothing).
findTransaction(h, o, e) ==
    /\ hook[h].at = "idle" /\ \A g \in 1 .. h - 1 : hook[g].at # "idle"
    /\ e \in sent[o]
    /\ status[o] # "SUCCESS"
    /\ credits[o] = 0 \/ AllCredits < MaxCredits
    /\ hook' = [hook EXCEPT ![h] = [at |-> "found", order |-> o, event |-> e]]
    /\ disturbed' = disturbed \cup (IF HandledBy(o) = {} THEN {} ELSE {<<"overlapped", o>>})
    /\ UNCHANGED <<account, profile, status, sent, tokenVars, planVars, now, restarts, credits, lived>>

\* Mutated form of markPaid: the status is written after the credit, or not at all.
markPaid_Later(h) ==
    /\ hook[h].at = "found" /\ hook[h].event = "settlement"
    /\ hook' = [hook EXCEPT ![h].at = "paid"]
    /\ UNCHANGED <<account, profile, status, sent, tokenVars, planVars, now, restarts, history>>

markPaid(h) ==
    /\ hook[h].at = "found" /\ hook[h].event = "settlement"
    /\ status' = [status EXCEPT ![hook[h].order] = "SUCCESS"]
    /\ hook' = [hook EXCEPT ![h].at = "paid"]
    /\ UNCHANGED <<account, profile, sent, tokenVars, planVars, now, restarts, history>>

\* Nothing is asked of the row again: a SUCCESS written meanwhile is overwritten.
markUnpaid(h) ==
    /\ hook[h].at = "found" /\ hook[h].event # "settlement"
    /\ status' = [status EXCEPT ![hook[h].order] =
                    IF hook[h].event = "expire" THEN "EXPIRED" ELSE "FAILED"]
    /\ hook' = [hook EXCEPT ![h] = Idle]
    /\ UNCHANGED <<account, profile, sent, tokenVars, planVars, now, restarts, history>>

\* The updateMany of a missing profile counts 0; that is logged and answered.
creditWithoutProfile(h) ==
    /\ hook[h].at = "paid"
    /\ ~profile
    /\ hook' = [hook EXCEPT ![h] = Idle]
    /\ UNCHANGED <<account, profile, status, sent, tokenVars, planVars, now, restarts, history>>

creditTokens(h) ==
    /\ hook[h].at = "paid" /\ account = "talent"
    /\ profile
    /\ balance' = balance + TokenAmount
    /\ credits' = [credits EXCEPT ![hook[h].order] = @ + 1]
    /\ hook' = [hook EXCEPT ![h] = Idle]
    /\ UNCHANGED <<account, profile, status, sent, ledger, spender, earned, planVars, now, restarts,
                   disturbed, lived>>

\* Mutated form of Base: the rest of the running period is forfeited.
Base_Now(e) == now

\* The paid period is stacked on what is left of the running one.
Base(e) == IF e > now THEN e ELSE now

readExpiry(h) ==
    /\ hook[h].at = "paid" /\ account = "company"
    /\ profile
    /\ hook' = [hook EXCEPT ![h] = [at |-> "extend", order |-> hook[h].order,
                                    event |-> "settlement", base |-> Base(expiresAt)]]
    /\ disturbed' = disturbed \cup
                      (IF \E g \in Hooks : hook[g].at = "extend" THEN {<<"plans">>} ELSE {})
    /\ UNCHANGED <<account, profile, status, sent, tokenVars, planVars, now, restarts, credits, lived>>

extendPlan(h) ==
    /\ hook[h].at = "extend"
    /\ profile
    /\ tier' = "PAID"
    /\ expiresAt' = hook[h].base + Months
    /\ credits' = [credits EXCEPT ![hook[h].order] = @ + 1]
    /\ hook' = [hook EXCEPT ![h] = Idle]
    /\ UNCHANGED <<account, profile, status, sent, tokenVars, now, restarts, disturbed, lived>>

-----------------------------------------------------------------------------
(* Tokens.                                                                 *)

\* topUp (simulated) and earnTokens: balance, ledger and notice, one transaction.
earnTokens ==
    /\ account = "talent" /\ profile
    /\ earned < MaxEarned
    /\ earned' = earned + 1
    /\ balance' = balance + 1
    /\ ledger' = ledger + 1
    /\ UNCHANGED <<account, profile, status, sent, hook, spender, planVars, now, restarts, history>>

\* SELECT ... FOR UPDATE of the profile, until the transaction ends.  Credits wait
\* for it too; as increments they would come out the same and are not held up here.
RowLocked == \E s \in Spenders : spender[s] = "checked"

\* Mutated form of spendCheck: the profile is read without a lock.
spendCheck_Unlocked(s) ==
    /\ spender[s] = "idle"
    /\ account = "talent" /\ profile
    /\ balance >= Cost
    /\ spender' = [spender EXCEPT ![s] = "checked"]
    /\ UNCHANGED <<account, profile, status, sent, hook, balance, ledger, earned, planVars, now, restarts,
                   history>>

\* lockTalentAndAssertQuota, then the read of spendTokensWithin.  At read committed
\* only that lock keeps what was read from changing.
spendCheck(s) ==
    /\ spender[s] = "idle" /\ ~RowLocked
    /\ account = "talent" /\ profile
    /\ balance >= Cost
    /\ spender' = [spender EXCEPT ![s] = "checked"]
    /\ UNCHANGED <<account, profile, status, sent, hook, balance, ledger, earned, planVars, now, restarts,
                   history>>

\* Mutated form of spendTokens: without the ledger row.
spendTokens_NoRow(s) ==
    /\ spender[s] = "checked"
    /\ spender' = [spender EXCEPT ![s] = "done"]
    /\ balance' = balance - Cost
    /\ UNCHANGED <<account, profile, status, sent, hook, ledger, earned, planVars, now, restarts, history>>

\* Decrement, ledger and notice commit with the caller's transaction.
spendTokens(s) ==
    /\ spender[s] = "checked"
    /\ spender' = [spender EXCEPT ![s] = "done"]
    /\ balance' = balance - Cost
    /\ ledger' = ledger - Cost
    /\ UNCHANGED <<account, profile, status, sent, hook, earned, planVars, now, restarts, history>>

\* The caller's work fails and takes the spend back with it.
spendFails(s) ==
    /\ spender[s] = "checked"
    /\ spender' = [spender EXCEPT ![s] = "done"]
    /\ UNCHANGED <<account, profile, status, sent, hook, balance, ledger, earned, planVars, now, restarts,
                   history>>

-----------------------------------------------------------------------------
(* Subscription and time.                                                  *)

\* subscriptions.service upgrade, by an admin: from now on, whatever was left.
upgrade ==
    /\ account = "company" /\ profile
    /\ <<"plans">> \notin disturbed
    /\ tier' = "PAID"
    /\ expiresAt' = now + Months
    /\ disturbed' = disturbed \cup {<<"plans">>}
    /\ UNCHANGED <<account, profile, status, sent, hook, tokenVars, now, restarts, credits, lived>>

PlanOver == expiresAt # 0 /\ expiresAt < now /\ tier # "STARTUP"

downgradeExpiredSubscriptions ==
    /\ PlanOver
    /\ tier' = "STARTUP"
    /\ expiresAt' = 0
    /\ UNCHANGED <<account, profile, status, sent, hook, tokenVars, now, restarts, history>>

\* A month; no handler takes that long.  Nothing of a talent's depends on it.
Tick ==
    /\ now < MaxNow
    /\ account = "company"
    /\ \A h \in Hooks : hook[h].at = "idle"
    /\ now' = now + 1
    /\ lived' = IF tier = "PAID" THEN lived + 1 ELSE lived
    /\ UNCHANGED <<account, profile, status, sent, hook, tokenVars, planVars, restarts, credits, disturbed>>

\* Requests that have marked their order paid, and not credited it.
Unfinished == {h \in Hooks : hook[h].at \in {"paid", "extend"}}

\* The process ends: requests are gone, open transactions are rolled back.  A
\* request that had only read is as one that never came.
restart ==
    /\ restarts < MaxRestarts
    /\ Unfinished # {} \/ \E s \in Spenders : spender[s] = "checked"
    /\ restarts' = restarts + 1
    /\ hook' = [h \in Hooks |-> Idle]
    /\ spender' = [s \in Spenders |-> IF spender[s] = "checked" THEN "idle" ELSE spender[s]]
    /\ disturbed' = disturbed \cup {<<"interrupted", hook[h].order>> : h \in Unfinished}
    /\ UNCHANGED <<account, profile, status, sent, balance, ledger, earned, planVars, now, credits,
                   lived>>

-----------------------------------------------------------------------------
Next ==
    \/ \E o \in Orders : createOrder(o)
    \/ \E h \in Hooks :
         \/ \E o \in Orders, e \in Events : findTransaction(h, o, e)
         \/ markPaid(h) \/ markUnpaid(h) \/ creditWithoutProfile(h)
         \/ creditTokens(h) \/ readExpiry(h) \/ extendPlan(h)
    \/ \E s \in Spenders : spendCheck(s) \/ spendTokens(s) \/ spendFails(s)
    \/ earnTokens \/ upgrade \/ downgradeExpiredSubscriptions \/ Tick \/ restart

Spec == Init /\ [][Next]_vars

\* A handler under way goes on, and Midtrans repeats a notification until it is
\* answered; SF because the requests handled at once are bounded here.
Fairness ==
    /\ \A h \in Hooks : WF_vars(\/ markPaid(h) \/ markUnpaid(h) \/ creditWithoutProfile(h)
                                \/ creditTokens(h) \/ readExpiry(h) \/ extendPlan(h))
    /\ \A o \in Orders : SF_vars(\E h \in Hooks : findTransaction(h, o, "settlement"))

FairSpec == Spec /\ Fairness

-----------------------------------------------------------------------------
TypeOK ==
    /\ account \in {"talent", "company"}
    /\ profile \in BOOLEAN
    /\ status \in [Orders -> {"none", "PENDING", "SUCCESS", "FAILED", "EXPIRED"}]
    /\ sent \in [Orders -> SUBSET Events]
    /\ hook \in [Hooks -> {Idle}
                   \cup [at : {"found", "paid"}, order : Orders, event : Events]
                   \cup [at : {"extend"}, order : Orders, event : {"settlement"}, base : Nat]]
    /\ balance \in Int /\ ledger \in Int /\ earned \in Nat
    /\ spender \in [Spenders -> {"idle", "checked", "done"}]
    /\ tier \in {"STARTUP", "PAID"} /\ expiresAt \in Nat
    /\ now \in Nat /\ restarts \in Nat /\ lived \in Nat
    /\ credits \in [Orders -> Nat]
    /\ disturbed \subseteq Disturbances

\* "pengulangannya berhenti di penjaga 'already processed'": an order is
\* credited at most once, unless two of its notifications were handled at once.
CreditedOnce ==
    \A o \in Orders : credits[o] > 1 => <<"overlapped", o>> \in disturbed

\* Whatever is paid is credited in the end, unless the process ended between
\* SUCCESS and the credit of that order or there is no profile to credit.
PaidIsCredited ==
    \A o \in Orders :
        "settlement" \in sent[o] ~>
            credits[o] > 0 \/ <<"interrupted", o>> \in disturbed \/ ~profile

\* The balance is what the ledger says plus the paid top-ups, which alone leave
\* no TokenTransaction.
BalanceExplained ==
    account = "talent" => balance = ledger + TokenAmount * AllCredits

\* Spends checked against the same balance never take it below zero: the check and
\* the decrement are apart, and only the lock of the profile row orders two of them.
NeverOverdrawn == balance >= 0

MonthsLeft == IF tier = "PAID" /\ expiresAt > now THEN expiresAt - now ELSE 0

\* "Perpanjangan menumpuk dari sisa masa aktif, bukan menghanguskannya": every
\* month paid for was spent on a paid tier or is still ahead, unless an admin
\* set the plan or two payments of it were handled at once.
NoMonthLost ==
    account = "company" /\ <<"plans">> \notin disturbed =>
        lived + MonthsLeft >= Months * AllCredits
=============================================================================
