---------------------------- MODULE PaymentsProofs ----------------------------
(***************************************************************************)
(* Proofs about Payments, for any orders, webhooks, spenders and amounts.  *)
(*                                                                         *)
(* A credited order is SUCCESS and stays so while its notifications are    *)
(* handled one after the other, which is what findTransaction looks at;    *)
(* what one spender has checked, no other can take away; and the base a    *)
(* company's payment has read is still what its plan is worth when the     *)
(* extension is written, unless two of them, or an admin, were at it.      *)
(***************************************************************************)
EXTENDS Payments, FiniteSetTheorems, TLAPS

Handles(h, o) == hook[h].at # "idle" /\ hook[h].order = o

Credited(o) == credits[o] > 0

\* What holds of an order no two notifications of which were handled at once.
AloneInv(o) ==
    /\ credits[o] <= 1
    /\ \A g, h \in Hooks : Handles(g, o) /\ Handles(h, o) => g = h
    /\ Credited(o) => status[o] = "SUCCESS" /\ \A h \in Hooks : ~Handles(h, o)
    /\ \A h \in Hooks :
         hook[h].at \in {"paid", "extend"} /\ hook[h].order = o => status[o] = "SUCCESS"

CreditInv == \A o \in Orders : <<"overlapped", o>> \in disturbed \/ AloneInv(o)

\* The row lock is held by at most one spender, and what it saw is still there.
SpendInv ==
    /\ balance >= 0
    /\ \A s \in Spenders : spender[s] = "checked" => balance >= Cost
    /\ \A r, s \in Spenders : spender[r] = "checked" /\ spender[s] = "checked" => r = s

\* Credits add up; only a company's payments extend a plan.
MoneyInv ==
    /\ BalanceExplained
    /\ IsFiniteSet(Credits)
    /\ \A h \in Hooks : hook[h].at = "extend" => account = "company"

\* One payment at a time extends a plan, from where the plan ends by then.
PlanInv ==
    account = "company" /\ <<"plans">> \notin disturbed =>
        /\ lived + MonthsLeft >= Months * AllCredits
        /\ \A h \in Hooks : hook[h].at = "extend" => hook[h].base = Base(expiresAt)
        /\ \A g, h \in Hooks : hook[g].at = "extend" /\ hook[h].at = "extend" => g = h

Handling(h) ==
    \/ markPaid(h) \/ markUnpaid(h) \/ creditWithoutProfile(h)
    \/ creditTokens(h) \/ readExpiry(h) \/ extendPlan(h)

Spending(s) == spendCheck(s) \/ spendTokens(s) \/ spendFails(s)

\* Next, one actor at a time.
LEMMA Steps ==
    [Next]_vars =>
        \/ \E o \in Orders : createOrder(o)
        \/ \E h \in Hooks, o \in Orders, e \in Events : findTransaction(h, o, e)
        \/ \E h \in Hooks : Handling(h)
        \/ \E s \in Spenders : Spending(s)
        \/ earnTokens \/ upgrade \/ downgradeExpiredSubscriptions \/ Tick \/ restart
        \/ UNCHANGED vars
BY DEF Next, Handling, Spending

-----------------------------------------------------------------------------
\* Type correctness; balances are integers here, that they are not negative is SpendSafe.
THEOREM TypeCorrect == Spec => []TypeOK
<1> USE OrdersAssumption, NumbersAssumption
<1>1. Init => TypeOK
  BY DEF Init, TypeOK, Idle, Disturbances
<1>2. TypeOK /\ [Next]_vars => TypeOK'
  <2> SUFFICES ASSUME TypeOK, [Next]_vars PROVE TypeOK'
    OBVIOUS
  <2> USE DEF TypeOK
  <2>1. ASSUME NEW o \in Orders, createOrder(o) PROVE TypeOK'
    BY <2>1 DEF createOrder, Reports, Events, tokenVars, planVars, history
  <2>2. ASSUME NEW h \in Hooks, NEW o \in Orders, NEW e \in Events, findTransaction(h, o, e)
        PROVE TypeOK'
    <3>1. hook' \in [Hooks -> {Idle}
                   \cup [at : {"found", "paid"}, order : Orders, event : Events]
                   \cup [at : {"extend"}, order : Orders, event : {"settlement"}, base : Nat]]
      BY <2>2 DEF findTransaction
    <3>2. disturbed' \subseteq Disturbances
      BY <2>2 DEF findTransaction, Disturbances
    <3> QED BY <2>2, <3>1, <3>2 DEF findTransaction, tokenVars, planVars
  <2>3. ASSUME NEW h \in Hooks, Handling(h) PROVE TypeOK'
    <3>0. hook[h].at # "idle" => hook[h].order \in Orders
      BY DEF Idle
    <3>1. CASE markPaid(h)
      BY <3>0, <3>1 DEF markPaid, Events, tokenVars, planVars, history, Idle
    <3>2. CASE markUnpaid(h)
      BY <3>0, <3>2 DEF markUnpaid, tokenVars, planVars, history
    <3>3. CASE creditWithoutProfile(h)
      BY <3>3 DEF creditWithoutProfile, tokenVars, planVars, history
    <3>4. CASE creditTokens(h)
      BY <3>0, <3>4 DEF creditTokens, planVars
    <3>5. CASE readExpiry(h)
      <4>1. Base(expiresAt) \in Nat
        BY DEF Base
      <4>2. hook' \in [Hooks -> {Idle}
                   \cup [at : {"found", "paid"}, order : Orders, event : Events]
                   \cup [at : {"extend"}, order : Orders, event : {"settlement"}, base : Nat]]
        BY <3>0, <3>5, <4>1 DEF readExpiry
      <4>3. disturbed' \subseteq Disturbances
        BY <3>5 DEF readExpiry, Disturbances
      <4> QED BY <3>5, <4>2, <4>3 DEF readExpiry, tokenVars, planVars
    <3>6. CASE extendPlan(h)
      <4>1. hook[h].base \in Nat
        BY <3>6 DEF extendPlan, Idle
      <4> QED BY <3>0, <3>6, <4>1 DEF extendPlan, tokenVars
    <3> QED BY <2>3, <3>1, <3>2, <3>3, <3>4, <3>5, <3>6 DEF Handling
  <2>4. ASSUME NEW s \in Spenders, Spending(s) PROVE TypeOK'
    BY <2>4 DEF Spending, spendCheck, spendTokens, spendFails, planVars, history
  <2>5. CASE earnTokens \/ downgradeExpiredSubscriptions
    BY <2>5 DEF earnTokens, downgradeExpiredSubscriptions, tokenVars, planVars, history
  <2>6. CASE upgrade
    BY <2>6 DEF upgrade, tokenVars, Disturbances
  <2>7. CASE Tick
    BY <2>7 DEF Tick, tokenVars, planVars
  <2>8. CASE restart
    <3>1. disturbed' \subseteq Disturbances
      BY <2>8 DEF restart, Unfinished, Disturbances, Idle
    <3> QED BY <2>8, <3>1 DEF restart, planVars
  <2>9. CASE UNCHANGED vars
    BY <2>9 DEF vars, tokenVars, planVars, history
  <2> QED
    BY <2>1, <2>2, <2>3, <2>4, <2>5, <2>6, <2>7, <2>8, <2>9, Steps
<1> QED BY <1>1, <1>2, PTL DEF Spec

-----------------------------------------------------------------------------
\* An order is credited once, unless two of its notifications were handled at once.
THEOREM CreditsCorrect == Spec => []CreditInv
<1> USE OrdersAssumption, NumbersAssumption
<1>1. Init => CreditInv
  BY DEF Init, CreditInv, AloneInv, Handles, Credited, Idle
<1>2. TypeOK /\ CreditInv /\ [Next]_vars => CreditInv'
  <2> SUFFICES ASSUME TypeOK, CreditInv, [Next]_vars,
                      NEW o \in Orders, <<"overlapped", o>> \notin disturbed'
               PROVE  AloneInv(o)'
    BY DEF CreditInv
  <2>0. disturbed \subseteq disturbed'
    BY Steps DEF createOrder, findTransaction, Handling, markPaid, markUnpaid,
         creditWithoutProfile, creditTokens, readExpiry, extendPlan, Spending, spendCheck,
         spendTokens, spendFails, earnTokens, upgrade, downgradeExpiredSubscriptions, Tick,
         restart, history, vars
  <2>a. AloneInv(o)
    BY <2>0 DEF CreditInv
  <2>b. ASSUME UNCHANGED <<status, credits, hook>> PROVE AloneInv(o)'
    BY <2>a, <2>b DEF AloneInv, Handles, Credited
  <2>1. ASSUME NEW p \in Orders, createOrder(p) PROVE AloneInv(o)'
    BY <2>1, <2>a DEF createOrder, AloneInv, Handles, Credited, TypeOK, history
  <2>2. ASSUME NEW h \in Hooks, NEW p \in Orders, NEW e \in Events, findTransaction(h, p, e)
        PROVE AloneInv(o)'
    <3>1. /\ status' = status /\ credits' = credits
          /\ hook'[h].at = "found" /\ hook'[h].order = p /\ hook[h].at = "idle"
          /\ \A g \in Hooks \ {h} : hook'[g] = hook[g]
          /\ status[p] # "SUCCESS"
      BY <2>2 DEF findTransaction, TypeOK
    <3>2. CASE p = o
      <4>1. HandledBy(o) = {}
        BY <2>2, <3>2 DEF findTransaction
      <4>2. \A g \in Hooks : ~Handles(g, o)
        BY <4>1 DEF HandledBy, Handles
      <4> QED BY <2>a, <3>1, <3>2, <4>2 DEF AloneInv, Handles, Credited
    <3>3. CASE p # o
      BY <2>a, <3>1, <3>3 DEF AloneInv, Handles, Credited
    <3> QED BY <3>2, <3>3
  <2>3. ASSUME NEW h \in Hooks, Handling(h) PROVE AloneInv(o)'
    <3> DEFINE p == hook[h].order
    <3>1. CASE markPaid(h)
      BY <2>a, <3>1 DEF markPaid, AloneInv, Handles, Credited, TypeOK, history
    <3>2. CASE markUnpaid(h)
      <4>1. /\ credits' = credits /\ hook'[h].at = "idle" /\ Handles(h, p)
            /\ \A g \in Hooks \ {h} : hook'[g] = hook[g]
            /\ \A q \in Orders \ {p} : status'[q] = status[q]
        BY <3>2 DEF markUnpaid, TypeOK, history, Idle, Handles
      <4> QED BY <2>a, <4>1 DEF AloneInv, Handles, Credited
    <3>3. CASE creditWithoutProfile(h)
      BY <2>a, <3>3 DEF creditWithoutProfile, AloneInv, Handles, Credited, TypeOK, history, Idle
    <3>4. CASE creditTokens(h) \/ extendPlan(h)
      <4>1. /\ status' = status /\ hook'[h].at = "idle"
            /\ hook[h].at \in {"paid", "extend"}
            /\ \A g \in Hooks \ {h} : hook'[g] = hook[g]
            /\ \A q \in Orders \ {p} : credits'[q] = credits[q]
            /\ p \in Orders => credits'[p] = credits[p] + 1
        BY <3>4 DEF creditTokens, extendPlan, TypeOK, Idle
      <4>2. credits[o] \in Nat
        BY DEF TypeOK
      <4>3. CASE p = o
        BY <2>a, <4>1, <4>2, <4>3 DEF AloneInv, Handles, Credited
      <4>4. CASE p # o
        BY <2>a, <4>1, <4>4 DEF AloneInv, Handles, Credited
      <4> QED BY <4>3, <4>4
    <3>5. CASE readExpiry(h)
      BY <2>a, <3>5 DEF readExpiry, AloneInv, Handles, Credited, TypeOK
    <3> QED BY <2>3, <3>1, <3>2, <3>3, <3>4, <3>5 DEF Handling
  <2>4. CASE restart
    BY <2>4, <2>a DEF restart, AloneInv, Handles, Credited, Idle
  <2>5. CASE \/ \E s \in Spenders : Spending(s)
             \/ earnTokens \/ upgrade \/ downgradeExpiredSubscriptions \/ Tick \/ UNCHANGED vars
    BY <2>5, <2>b DEF Spending, spendCheck, spendTokens, spendFails, earnTokens, upgrade,
         downgradeExpiredSubscriptions, Tick, history, vars
  <2> QED BY <2>1, <2>2, <2>3, <2>4, <2>5, Steps
<1> QED BY <1>1, <1>2, TypeCorrect, PTL DEF Spec

\* "Already processed" stops repetitions that come one after the other.
THEOREM CreditSafe == Spec => []CreditedOnce
<1>1. TypeOK /\ CreditInv => CreditedOnce
  BY DEF TypeOK, CreditInv, AloneInv, CreditedOnce
<1> QED BY <1>1, TypeCorrect, CreditsCorrect, PTL

-----------------------------------------------------------------------------
\* Between the check of a spender and its decrement nothing is taken by another.
THEOREM SpendsCorrect == Spec => []SpendInv
<1> USE NumbersAssumption
<1>1. Init => SpendInv
  BY DEF Init, SpendInv
<1>2. TypeOK /\ SpendInv /\ [Next]_vars => SpendInv'
  <2> SUFFICES ASSUME TypeOK, SpendInv, [Next]_vars PROVE SpendInv'
    OBVIOUS
  <2>a. ASSUME spender' = spender, balance' >= balance, balance' \in Int PROVE SpendInv'
    BY <2>a DEF SpendInv, TypeOK
  <2>1. ASSUME NEW s \in Spenders, Spending(s) PROVE SpendInv'
    <3>1. CASE spendCheck(s)
      BY <3>1 DEF spendCheck, RowLocked, SpendInv, TypeOK
    <3>2. CASE spendTokens(s)
      BY <3>2 DEF spendTokens, SpendInv, TypeOK
    <3>3. CASE spendFails(s)
      BY <3>3 DEF spendFails, SpendInv, TypeOK
    <3> QED BY <2>1, <3>1, <3>2, <3>3 DEF Spending
  <2>2. ASSUME NEW h \in Hooks, Handling(h) PROVE SpendInv'
    BY <2>2, <2>a DEF Handling, markPaid, markUnpaid, creditWithoutProfile, creditTokens,
         readExpiry, extendPlan, tokenVars, TypeOK
  <2>3. CASE restart
    BY <2>3 DEF restart, SpendInv, TypeOK
  <2>4. CASE \/ \E o \in Orders : createOrder(o)
             \/ \E h \in Hooks, o \in Orders, e \in Events : findTransaction(h, o, e)
             \/ earnTokens \/ upgrade \/ downgradeExpiredSubscriptions \/ Tick \/ UNCHANGED vars
    BY <2>4, <2>a DEF createOrder, findTransaction, earnTokens, upgrade,
         downgradeExpiredSubscriptions, Tick, tokenVars, vars, TypeOK
  <2> QED BY <2>1, <2>2, <2>3, <2>4, Steps
<1> QED BY <1>1, <1>2, TypeCorrect, PTL DEF Spec

\* No spend takes the balance below zero, however many run at once.
THEOREM SpendSafe == Spec => []NeverOverdrawn
<1>1. SpendInv => NeverOverdrawn
  BY DEF SpendInv, NeverOverdrawn
<1> QED BY <1>1, SpendsCorrect, PTL

-----------------------------------------------------------------------------
\* One more credit of an order is one more credit.
LEMMA CreditCounted ==
    ASSUME TypeOK, IsFiniteSet(Credits), NEW o \in Orders,
           credits' = [credits EXCEPT ![o] = @ + 1]
    PROVE  /\ IsFiniteSet(Credits') /\ AllCredits \in Nat
           /\ AllCredits' = AllCredits + 1
<1> DEFINE new == <<o, credits[o] + 1>>
<1>1. credits[o] \in Nat /\ credits'[o] = credits[o] + 1
      /\ \A p \in Orders \ {o} : credits'[p] = credits[p]
  BY DEF TypeOK
<1>2. Credits' = Credits \cup {new}
  <2>1. ASSUME NEW e \in Credits' PROVE e \in Credits \cup {new}
    <3>1. PICK p \in Orders : \E n \in 1 .. credits'[p] : e = <<p, n>>
      BY DEF Credits
    <3> QED BY <1>1, <3>1 DEF Credits
  <2>2. ASSUME NEW e \in Credits PROVE e \in Credits'
    <3>1. PICK p \in Orders : \E n \in 1 .. credits[p] : e = <<p, n>>
      BY DEF Credits
    <3>2. \A n \in 1 .. credits[p] : n \in 1 .. credits'[p]
      BY <1>1, <3>1
    <3> QED BY <3>1, <3>2 DEF Credits
  <2>3. new \in Credits'
    BY <1>1 DEF Credits
  <2> QED BY <2>1, <2>2, <2>3
<1>3. new \notin Credits
  BY <1>1 DEF Credits
<1> HIDE DEF new
<1>4. /\ IsFiniteSet(Credits \cup {new}) /\ Cardinality(Credits) \in Nat
      /\ Cardinality(Credits \cup {new}) = Cardinality(Credits) + 1
  BY <1>3, FS_AddElement, FS_CardinalityType
<1> QED BY <1>2, <1>4 DEF AllCredits

\* What moves money, and what does not.
LEMMA MoneyStep ==
    ASSUME TypeOK, NEW h \in Hooks, Handling(h)
    PROVE  \/ /\ creditTokens(h) \/ extendPlan(h)
              /\ hook[h].order \in Orders
              /\ credits' = [credits EXCEPT ![hook[h].order] = @ + 1]
              /\ hook' = [hook EXCEPT ![h] = Idle]
              /\ UNCHANGED <<account, now, lived, disturbed, ledger>>
           \/ readExpiry(h) /\ UNCHANGED <<account, credits, balance, ledger>>
           \/ /\ UNCHANGED <<account, credits, balance, ledger, planVars, now, lived, disturbed>>
              /\ \A g \in Hooks : hook'[g].at = "extend" => hook'[g] = hook[g]
<1> USE DEF TypeOK
<1>1. CASE markPaid(h)
  BY <1>1 DEF markPaid, tokenVars, history
<1>2. CASE markUnpaid(h)
  BY <1>2 DEF markUnpaid, tokenVars, history, Idle
<1>3. CASE creditWithoutProfile(h)
  BY <1>3 DEF creditWithoutProfile, tokenVars, history, Idle
<1>4. CASE creditTokens(h)
  BY <1>4 DEF creditTokens, Idle
<1>5. CASE readExpiry(h)
  BY <1>5 DEF readExpiry, tokenVars
<1>6. CASE extendPlan(h)
  BY <1>6 DEF extendPlan, tokenVars, Idle
<1> QED BY <1>1, <1>2, <1>3, <1>4, <1>5, <1>6 DEF Handling

\* Every other step leaves the credits alone.
LEMMA OtherSteps ==
    ASSUME [Next]_vars, ~\E h \in Hooks : Handling(h)
    PROVE  UNCHANGED <<account, credits>>
BY Steps DEF createOrder, findTransaction, Spending, spendCheck, spendTokens, spendFails,
     earnTokens, upgrade, downgradeExpiredSubscriptions, Tick, restart, history, vars

\* Every token of the balance is one the ledger has, or one of a paid top-up.
THEOREM MoneyCorrect == Spec => []MoneyInv
<1> USE OrdersAssumption, NumbersAssumption
<1>1. Init => MoneyInv
  <2> SUFFICES ASSUME Init PROVE MoneyInv
    OBVIOUS
  <2>1. Credits = {}
    BY DEF Init, Credits
  <2> QED BY <2>1, FS_EmptySet DEF Init, MoneyInv, BalanceExplained, AllCredits, Idle
<1>2. TypeOK /\ MoneyInv /\ [Next]_vars => MoneyInv'
  <2> SUFFICES ASSUME TypeOK, MoneyInv, [Next]_vars PROVE MoneyInv'
    OBVIOUS
  <2>0. TokenAmount \in Nat /\ Cost \in Nat /\ AllCredits \in Nat
    BY FS_CardinalityType DEF AllCredits, MoneyInv
  <2>a. ASSUME UNCHANGED <<account, credits>>, balance' - ledger' = balance - ledger,
               balance' \in Int, ledger' \in Int,
               \A h \in Hooks : hook'[h].at = "extend" => hook[h].at = "extend"
        PROVE  MoneyInv'
    <3>1. Credits' = Credits /\ AllCredits' = AllCredits
      BY <2>a DEF Credits, AllCredits
    <3>2. account' = "talent" => balance' = ledger' + TokenAmount * AllCredits'
      <4>1. TokenAmount * AllCredits' = TokenAmount * AllCredits /\ TokenAmount * AllCredits \in Int
        BY <2>0, <3>1
      <4>2. account = "talent" => balance = ledger + TokenAmount * AllCredits
        BY DEF MoneyInv, BalanceExplained
      <4>3. balance \in Int /\ ledger \in Int
        BY DEF TypeOK
      <4> QED BY <2>a, <4>1, <4>2, <4>3
    <3> QED BY <2>a, <3>1, <3>2 DEF MoneyInv, BalanceExplained
  <2>1. ASSUME NEW h \in Hooks, Handling(h) PROVE MoneyInv'
    <3>1. CASE creditTokens(h)
      <4>1. /\ balance' = balance + TokenAmount /\ ledger' = ledger /\ account' = account
            /\ hook[h].order \in Orders /\ hook' = [hook EXCEPT ![h] = Idle]
            /\ credits' = [credits EXCEPT ![hook[h].order] = @ + 1]
        BY <3>1 DEF creditTokens, TypeOK, Idle
      <4>2. IsFiniteSet(Credits') /\ AllCredits' = AllCredits + 1
        BY <4>1, CreditCounted DEF MoneyInv
      <4> QED BY <2>0, <4>1, <4>2 DEF MoneyInv, BalanceExplained, Idle, TypeOK
    <3>2. CASE extendPlan(h)
      <4>1. account = "company"
        BY <3>2 DEF extendPlan, MoneyInv
      <4>2. /\ account' = account /\ hook[h].order \in Orders
            /\ hook' = [hook EXCEPT ![h] = Idle]
            /\ credits' = [credits EXCEPT ![hook[h].order] = @ + 1]
        BY <3>2 DEF extendPlan, TypeOK, Idle
      <4>3. IsFiniteSet(Credits')
        BY <4>2, CreditCounted DEF MoneyInv
      <4> QED BY <4>1, <4>2, <4>3 DEF MoneyInv, BalanceExplained, Idle, TypeOK
    <3>3. CASE readExpiry(h)
      <4>1. /\ account = "company" /\ UNCHANGED <<account, credits>>
            /\ \A g \in Hooks : hook'[g].at = "extend" => g = h \/ hook[g].at = "extend"
        BY <3>3 DEF readExpiry, TypeOK
      <4>2. Credits' = Credits
        BY <4>1 DEF Credits
      <4> QED BY <4>1, <4>2 DEF MoneyInv, BalanceExplained
    <3>4. CASE /\ UNCHANGED <<account, credits, balance, ledger>>
               /\ \A g \in Hooks : hook'[g].at = "extend" => hook'[g] = hook[g]
      BY <2>a, <3>4 DEF TypeOK
    <3> QED BY <2>1, <3>1, <3>2, <3>3, <3>4, MoneyStep
  <2>2. CASE ~\E h \in Hooks : Handling(h)
    <3>1. UNCHANGED <<account, credits>>
      BY <2>2, OtherSteps
    <3>2. balance' - ledger' = balance - ledger /\ balance' \in Int /\ ledger' \in Int
      BY <2>2, Steps, <2>0
         DEF createOrder, findTransaction, Spending, spendCheck, spendTokens, spendFails,
             earnTokens, upgrade, downgradeExpiredSubscriptions, Tick, restart, tokenVars,
             vars, TypeOK
    <3>3. \A h \in Hooks : hook'[h].at = "extend" => hook[h].at = "extend"
      BY <2>2, Steps
         DEF createOrder, findTransaction, Spending, spendCheck, spendTokens, spendFails,
             earnTokens, upgrade, downgradeExpiredSubscriptions, Tick, restart, Idle,
             vars, TypeOK
    <3> QED BY <2>a, <3>1, <3>2, <3>3
  <2> QED BY <2>1, <2>2
<1> QED BY <1>1, <1>2, TypeCorrect, PTL DEF Spec

\* The balance is the ledger plus the paid top-ups.
THEOREM BalanceSafe == Spec => []BalanceExplained
<1>1. MoneyInv => BalanceExplained
  BY DEF MoneyInv
<1> QED BY <1>1, MoneyCorrect, PTL

\* What a payment of a company has read of its plan still holds when it writes.
THEOREM PlanCorrect == Spec => []PlanInv
<1> USE OrdersAssumption, NumbersAssumption
<1>1. Init => PlanInv
  <2> SUFFICES ASSUME Init PROVE PlanInv
    OBVIOUS
  <2>1. Credits = {}
    BY DEF Init, Credits
  <2>2. AllCredits = 0
    BY <2>1, FS_EmptySet DEF AllCredits
  <2> QED BY <2>2 DEF Init, PlanInv, MonthsLeft, Idle
<1>2. TypeOK /\ MoneyInv /\ PlanInv /\ [Next]_vars => PlanInv'
  <2> SUFFICES ASSUME TypeOK, MoneyInv, PlanInv, [Next]_vars,
                      account' = "company", <<"plans">> \notin disturbed'
               PROVE  PlanInv'
    BY DEF PlanInv
  <2>0. /\ Months \in Nat /\ AllCredits \in Nat /\ MonthsLeft \in Nat /\ expiresAt \in Nat
        /\ now \in Nat /\ lived \in Nat
    BY FS_CardinalityType DEF AllCredits, MoneyInv, MonthsLeft, TypeOK
  <2>a. ASSUME account = "company", UNCHANGED credits, lived' + MonthsLeft' >= lived + MonthsLeft,
               lived' \in Nat, MonthsLeft' \in Nat, <<"plans">> \notin disturbed,
               \A h \in Hooks : hook'[h].at = "extend" =>
                   hook'[h] = hook[h] /\ Base(expiresAt)' = Base(expiresAt)
        PROVE  PlanInv'
    <3> DEFINE paid == Months * AllCredits
    <3>1. AllCredits' = AllCredits
      BY <2>a DEF Credits, AllCredits
    <3>2. paid \in Nat
      BY <2>0
    <3>3. lived + MonthsLeft >= paid
      BY <2>a DEF PlanInv
    <3> HIDE DEF paid
    <3>4. lived' + MonthsLeft' >= paid
      <4>0. SUFFICES ASSUME NEW l, NEW m, l = lived', m = MonthsLeft' PROVE l + m >= paid
        OBVIOUS
      <4>1. l \in Nat /\ m \in Nat /\ l + m >= lived + MonthsLeft
        BY <2>a, <4>0
      <4>2. lived \in Nat /\ MonthsLeft \in Nat
        BY <2>0
      <4> QED BY <3>2, <3>3, <4>1, <4>2
    <3>5. paid = Months * AllCredits'
      BY <3>1 DEF paid
    <3>6. lived' + MonthsLeft' >= Months * AllCredits'
      BY <3>4, <3>5
    <3> QED BY <2>a, <3>6 DEF PlanInv
  <2>1. ASSUME NEW h \in Hooks, Handling(h) PROVE PlanInv'
    <3>1. CASE creditTokens(h)
      BY <2>1, <3>1 DEF creditTokens, TypeOK
    <3>2. CASE extendPlan(h)
      <4>1. /\ account = "company" /\ <<"plans">> \notin disturbed
            /\ hook[h].order \in Orders /\ hook' = [hook EXCEPT ![h] = Idle]
            /\ credits' = [credits EXCEPT ![hook[h].order] = @ + 1]
            /\ now' = now /\ lived' = lived
            /\ tier' = "PAID" /\ expiresAt' = hook[h].base + Months
        BY <3>2 DEF extendPlan, TypeOK, Idle
      <4>2. AllCredits' = AllCredits + 1
        BY <4>1, CreditCounted DEF MoneyInv
      <4>3. /\ lived + MonthsLeft >= Months * AllCredits
            /\ hook[h].base = Base(expiresAt)
            /\ \A g \in Hooks : hook[g].at = "extend" => g = h
        BY <3>2, <4>1 DEF extendPlan, PlanInv
      <4>4. MonthsLeft' >= MonthsLeft + Months
        BY <2>0, <4>1, <4>3 DEF MonthsLeft, Base
      <4> DEFINE paid == Months * AllCredits
      <4>5. Months * AllCredits' = paid + Months /\ paid \in Nat
        BY <2>0, <4>2
      <4>6. MonthsLeft' \in Nat
        BY <2>0, <4>1, <4>3 DEF MonthsLeft, Base
      <4>a. lived + MonthsLeft >= paid
        BY <4>3
      <4>b. lived' + MonthsLeft' >= paid + Months
        <5> HIDE DEF paid
        <5>0. SUFFICES ASSUME NEW m, m = MonthsLeft' PROVE lived + m >= paid + Months
          BY <4>1
        <5>1. m \in Nat /\ m >= MonthsLeft + Months
          BY <4>4, <4>6, <5>0
        <5>2. lived \in Nat /\ MonthsLeft \in Nat /\ Months \in Nat
          BY <2>0
        <5> QED BY <4>5, <4>a, <5>1, <5>2
      <4>7. lived' + MonthsLeft' >= Months * AllCredits'
        BY <4>5, <4>b
      <4>8. \A g \in Hooks : hook'[g].at # "extend"
        BY <4>1, <4>3 DEF Idle, TypeOK
      <4> QED BY <4>7, <4>8 DEF PlanInv
    <3>3. CASE readExpiry(h)
      <4>1. /\ account = "company" /\ <<"plans">> \notin disturbed
            /\ \A g \in Hooks : hook[g].at # "extend"
            /\ \A g \in Hooks : g # h => hook'[g] = hook[g]
            /\ hook'[h].base = Base(expiresAt)
            /\ UNCHANGED <<credits, lived, now, tier, expiresAt>>
        BY <3>3 DEF readExpiry, TypeOK, planVars
      <4>2. MonthsLeft' = MonthsLeft /\ Base(expiresAt)' = Base(expiresAt)
            /\ AllCredits' = AllCredits
        BY <4>1 DEF MonthsLeft, Base, AllCredits, Credits
      <4>3. lived + MonthsLeft >= Months * AllCredits
        BY <4>1 DEF PlanInv
      <4> QED BY <4>1, <4>2, <4>3 DEF PlanInv
    <3>4. CASE /\ UNCHANGED <<account, credits, balance, ledger, planVars, now, lived, disturbed>>
               /\ \A g \in Hooks : hook'[g].at = "extend" => hook'[g] = hook[g]
      <4>1. MonthsLeft' = MonthsLeft /\ Base(expiresAt)' = Base(expiresAt)
        BY <3>4 DEF MonthsLeft, Base, planVars
      <4> QED BY <2>0, <2>a, <3>4, <4>1
    <3> QED BY <2>1, <3>1, <3>2, <3>3, <3>4, MoneyStep
  <2>2. CASE downgradeExpiredSubscriptions
    <3>1. /\ account = "company" /\ <<"plans">> \notin disturbed
          /\ UNCHANGED <<credits, lived, now, hook>>
          /\ expiresAt < now /\ tier' = "STARTUP" /\ expiresAt' = 0
      BY <2>2 DEF downgradeExpiredSubscriptions, PlanOver, history
    <3>2. MonthsLeft = 0 /\ MonthsLeft' = 0 /\ Base(expiresAt)' = Base(expiresAt)
      BY <2>0, <3>1 DEF MonthsLeft, Base
    <3> QED BY <2>0, <2>a, <3>1, <3>2
  <2>3. CASE Tick
    <3>1. /\ account = "company" /\ <<"plans">> \notin disturbed
          /\ UNCHANGED <<credits, hook, tier, expiresAt>> /\ now' = now + 1
          /\ lived' = IF tier = "PAID" THEN lived + 1 ELSE lived
          /\ \A h \in Hooks : hook'[h].at # "extend"
      BY <2>3 DEF Tick, planVars
    <3>2. lived' + MonthsLeft' >= lived + MonthsLeft /\ lived' \in Nat /\ MonthsLeft' \in Nat
      BY <2>0, <3>1 DEF MonthsLeft
    <3> QED BY <2>a, <3>1, <3>2
  <2>4. CASE restart
    <3>1. /\ account = "company" /\ <<"plans">> \notin disturbed
          /\ UNCHANGED <<credits, tier, expiresAt, now, lived>>
          /\ \A h \in Hooks : hook'[h].at # "extend"
      BY <2>4 DEF restart, Idle, planVars
    <3>2. MonthsLeft' = MonthsLeft
      BY <3>1 DEF MonthsLeft
    <3> QED BY <2>0, <2>a, <3>1, <3>2
  <2>5. CASE upgrade
    BY <2>5 DEF upgrade
  <2>6. CASE \/ \E o \in Orders : createOrder(o)
             \/ \E h \in Hooks, o \in Orders, e \in Events : findTransaction(h, o, e)
             \/ \E s \in Spenders : Spending(s)
             \/ earnTokens \/ UNCHANGED vars
    <3>1. /\ account = "company" /\ <<"plans">> \notin disturbed
          /\ UNCHANGED <<credits, tier, expiresAt, now, lived>>
          /\ \A h \in Hooks : hook'[h].at = "extend" => hook'[h] = hook[h]
      BY <2>6 DEF createOrder, findTransaction, Spending, spendCheck, spendTokens, spendFails,
                  earnTokens, history, planVars, vars, TypeOK
    <3>2. MonthsLeft' = MonthsLeft /\ Base(expiresAt)' = Base(expiresAt)
      BY <3>1 DEF MonthsLeft, Base
    <3> QED BY <2>0, <2>a, <3>1, <3>2
  <2> QED BY <2>1, <2>2, <2>3, <2>4, <2>5, <2>6, Steps
<1> QED BY <1>1, <1>2, TypeCorrect, MoneyCorrect, PTL DEF Spec

\* Every month paid for was spent on a paid tier, or is still ahead.
THEOREM MonthsSafe == Spec => []NoMonthLost
<1>1. PlanInv => NoMonthLost
  BY DEF PlanInv, NoMonthLost
<1> QED BY <1>1, PlanCorrect, PTL
=============================================================================
