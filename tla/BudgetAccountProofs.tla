------------------------- MODULE BudgetAccountProofs -------------------------
(* What follows from the promise of the monthly budget, for any months,    *)
(* policies and amounts.                                                   *)
EXTENDS BudgetAccount, TLAPS

LEMMA InitOK == AccountInit => AccountTypeOK /\ WithinApprovals
  BY DEF AccountInit, AccountTypeOK, WithinApprovals, Total, Purposes

\* Both purposes have an amount in every month, and amounts add up.
LEMMA AmountsAreNumbers ==
  ASSUME AccountTypeOK, NEW m \in Months
  PROVE  /\ committed[m]["embedding"] \in Nat
         /\ committed[m]["grounded-answer"] \in Nat
         /\ Total(m) \in Nat
  BY DEF AccountTypeOK, Total, Purposes

LEMMA PolicyOK ==
  ASSUME PoliciesOK, NEW policy \in Policies
  PROVE  policy.purpose \in Purposes /\ policy.limit \in Limits
         /\ policy.limit \in Nat /\ policy.share \in Nat
  BY DEF PoliciesOK, Limits

\* An admission changes one amount of one month.
LEMMA AdmitChanges ==
  ASSUME PoliciesOK, AccountTypeOK, NEW m \in Months, NEW policy \in Policies,
         NEW amount \in Nat, Admit(m, policy, amount)
  PROVE  /\ AccountTypeOK'
         /\ limit'[m] = policy.limit
         /\ \A n \in Months \ {m} : committed'[n] = committed[n] /\ limit'[n] = limit[n]
         /\ \A p \in Purposes \ {policy.purpose} : committed'[m][p] = committed[m][p]
         /\ committed'[m][policy.purpose] <= policy.share
         /\ Total(m)' <= policy.limit
         /\ limit[m] # None => limit'[m] <= limit[m]
  <1> USE PolicyOK
  <1>1. /\ limit' = [limit EXCEPT ![m] = policy.limit]
        /\ committed' = [committed EXCEPT ![m][policy.purpose] = @ + amount]
        /\ Total(m) + amount <= policy.limit
        /\ committed[m][policy.purpose] + amount <= policy.share
        /\ limit[m] # None => policy.limit <= limit[m]
    BY DEF Admit, MayAdopt
  <1>2. committed[m] \in [Purposes -> Nat]
    BY DEF AccountTypeOK
  <1>3. /\ committed'[m] \in [Purposes -> Nat]
        /\ committed'[m][policy.purpose] = committed[m][policy.purpose] + amount
        /\ \A p \in Purposes \ {policy.purpose} : committed'[m][p] = committed[m][p]
        /\ \A n \in Months \ {m} : committed'[n] = committed[n]
    BY <1>1, <1>2 DEF AccountTypeOK
  <1>4. Total(m)' = Total(m) + amount
    BY <1>2, <1>3 DEF Total, Purposes
  <1>5. /\ limit'[m] = policy.limit
        /\ \A n \in Months \ {m} : limit'[n] = limit[n]
        /\ limit' \in [Months -> Limits \cup {None}]
    BY <1>1 DEF AccountTypeOK
  <1>6. committed' \in [Months -> [Purposes -> Nat]]
    BY <1>1, <1>2, <1>3 DEF AccountTypeOK
  <1>7. AccountTypeOK'
    BY <1>5, <1>6 DEF AccountTypeOK
  <1>8. QED
    BY <1>1, <1>3, <1>4, <1>5, <1>7

\* Every other step lowers amounts, and limits if it changes them at all.
LEMMA OthersChange ==
  ASSUME PoliciesOK, AccountTypeOK, NEW m \in Months,
         \/ \E policy \in Policies : Adopt(m, policy)
         \/ \E left \in [Purposes -> 0..Total(m)] : Return(m, left)
         \/ Forget(m)
  PROVE  /\ AccountTypeOK'
         /\ \A n \in Months, p \in Purposes : committed'[n][p] <= committed[n][p]
         /\ \A n \in Months : limit[n] # None => limit'[n] = None \/ limit'[n] <= limit[n]
  <1>0. Limits \subseteq Nat
    BY DEF PoliciesOK, Limits
  <1>n. \A n \in Months : limit[n] # None => limit[n] <= limit[n]
    <2>1. \A n \in Months : limit[n] \in Nat \cup {None}
      BY <1>0 DEF AccountTypeOK
    <2>2. \A i \in Nat : i <= i
      OBVIOUS
    <2>3. QED
      BY <2>1, <2>2
  <1>c. \A n \in Months, p \in Purposes : committed[n][p] \in Nat
    BY DEF AccountTypeOK
  <1>1. CASE \E policy \in Policies : Adopt(m, policy)
    <2>1. PICK policy \in Policies : Adopt(m, policy)
      BY <1>1
    <2>2. limit' = [limit EXCEPT ![m] = policy.limit] /\ committed' = committed
      BY <2>1 DEF Adopt
    <2>3. AccountTypeOK'
      BY <2>2, PolicyOK DEF AccountTypeOK
    <2>4. \A n \in Months : limit[n] # None => limit'[n] = None \/ limit'[n] <= limit[n]
      BY <2>1, <2>2, <1>n DEF AccountTypeOK, Adopt, MayAdopt
    <2>5. \A n \in Months, p \in Purposes : committed'[n][p] <= committed[n][p]
      BY <2>2, <1>c
    <2>6. QED
      BY <2>3, <2>4, <2>5
  <1>2. CASE \E left \in [Purposes -> 0..Total(m)] : Return(m, left)
    <2>1. PICK left \in [Purposes -> 0..Total(m)] : Return(m, left)
      BY <1>2
    <2>2. /\ limit' = limit
          /\ committed' = [committed EXCEPT ![m] = left]
          /\ \A p \in Purposes : left[p] <= committed[m][p]
      BY <2>1 DEF Return
    <2>3. left \in [Purposes -> Nat]
      BY AmountsAreNumbers
    <2>4. AccountTypeOK'
      BY <2>2, <2>3 DEF AccountTypeOK
    <2>5. \A n \in Months, p \in Purposes : committed'[n][p] <= committed[n][p]
      BY <2>2, <1>c DEF AccountTypeOK
    <2>6. QED
      BY <2>2, <2>4, <2>5, <1>n
  <1>3. CASE Forget(m)
    <2>1. limit' = [limit EXCEPT ![m] = None] /\ committed' = committed
      BY <1>3 DEF Forget
    <2>2. AccountTypeOK'
      BY <2>1 DEF AccountTypeOK
    <2>3. QED
      BY <2>1, <2>2, <1>n, <1>c DEF AccountTypeOK
  <1>4. QED
    BY <1>1, <1>2, <1>3

-----------------------------------------------------------------------------
(* Every step is one of the two kinds *)

LEMMA StepKinds ==
  ASSUME PoliciesOK, AccountNext
  PROVE  \E m \in Months :
             \/ \E policy \in Policies, amount \in Nat : Admit(m, policy, amount)
             \/ \/ \E policy \in Policies : Adopt(m, policy)
                \/ \E left \in [Purposes -> 0..Total(m)] : Return(m, left)
                \/ Forget(m)
  <1>1. ASSUME NEW policy \in Policies, NEW amount \in 0..policy.limit
        PROVE  amount \in Nat
    BY PolicyOK
  <1>2. QED
    BY <1>1 DEF AccountNext

LEMMA StepKeepsType ==
  ASSUME PoliciesOK, AccountTypeOK, [AccountNext]_accountVars
  PROVE  AccountTypeOK'
  <1>1. CASE UNCHANGED accountVars
    BY <1>1 DEF accountVars, AccountTypeOK
  <1>2. CASE AccountNext
    BY <1>2, StepKinds, AdmitChanges, OthersChange
  <1>3. QED
    BY <1>1, <1>2

\* The limits and amounts of every month are what their columns can hold.
THEOREM AccountIsTyped ==
  ASSUME PoliciesOK PROVE AccountSpec => []AccountTypeOK
  <1>1. QED
    BY InitOK, StepKeepsType, PTL DEF AccountSpec

\* An amount that has not grown is approved by the policy that approved it.
LEMMA StepKeepsApprovals ==
  ASSUME PoliciesOK, AccountTypeOK, WithinApprovals, [AccountNext]_accountVars
  PROVE  WithinApprovals'
  <1>t. AccountTypeOK'
    BY StepKeepsType
  <1>1. CASE UNCHANGED accountVars
    BY <1>1 DEF accountVars, WithinApprovals, Total
  <1>2. ASSUME NEW m \in Months, NEW policy \in Policies, NEW amount \in Nat,
               Admit(m, policy, amount)
        PROVE  WithinApprovals'
    <2>1. /\ \A n \in Months \ {m} : committed'[n] = committed[n]
          /\ \A p \in Purposes \ {policy.purpose} : committed'[m][p] = committed[m][p]
          /\ committed'[m][policy.purpose] <= policy.share
          /\ Total(m)' <= policy.limit
      BY <1>2, AdmitChanges
    <2>2. ASSUME NEW n \in Months, n # m
          PROVE  /\ Total(n)' > 0 => \E q \in Policies : Total(n)' <= q.limit
                 /\ \A p \in Purposes : committed'[n][p] > 0 =>
                        \E q \in Policies : q.purpose = p /\ committed'[n][p] <= q.share
      BY <2>1, <2>2 DEF WithinApprovals, Total
    <2>3. ASSUME NEW p \in Purposes, committed'[m][p] > 0
          PROVE  \E q \in Policies : q.purpose = p /\ committed'[m][p] <= q.share
      BY <2>1, <2>3 DEF WithinApprovals
    <2>4. QED
      BY <2>1, <2>2, <2>3 DEF WithinApprovals
  <1>3. ASSUME NEW m \in Months,
               \/ \E policy \in Policies : Adopt(m, policy)
               \/ \E left \in [Purposes -> 0..Total(m)] : Return(m, left)
               \/ Forget(m)
        PROVE  WithinApprovals'
    <2>1. \A n \in Months, p \in Purposes : committed'[n][p] <= committed[n][p]
      BY <1>3, OthersChange
    <2>2. ASSUME NEW n \in Months
          PROVE  /\ Total(n)' > 0 => \E q \in Policies : Total(n)' <= q.limit
                 /\ \A p \in Purposes : committed'[n][p] > 0 =>
                        \E q \in Policies : q.purpose = p /\ committed'[n][p] <= q.share
      <3>1. /\ Total(n) \in Nat /\ Total(n)' \in Nat
            /\ \A p \in Purposes : committed[n][p] \in Nat /\ committed'[n][p] \in Nat
        BY <1>t DEF AccountTypeOK, Total, Purposes
      <3>2. Total(n)' <= Total(n)
        <4>1. /\ committed'[n]["embedding"] <= committed[n]["embedding"]
              /\ committed'[n]["grounded-answer"] <= committed[n]["grounded-answer"]
          BY <2>1 DEF Purposes
        <4>2. QED
          BY <3>1, <4>1 DEF Total, Purposes
      <3>3. ASSUME Total(n)' > 0
            PROVE  \E q \in Policies : Total(n)' <= q.limit
        <4>1. PICK q \in Policies : Total(n) <= q.limit
          BY <3>1, <3>2, <3>3 DEF WithinApprovals
        <4>2. QED
          BY <3>1, <3>2, <4>1, PolicyOK
      <3>4. ASSUME NEW p \in Purposes, committed'[n][p] > 0
            PROVE  \E q \in Policies : q.purpose = p /\ committed'[n][p] <= q.share
        <4>1. PICK q \in Policies : q.purpose = p /\ committed[n][p] <= q.share
          BY <2>1, <3>1, <3>4 DEF WithinApprovals
        <4>2. QED
          BY <2>1, <3>1, <4>1, PolicyOK
      <3>5. QED
        BY <3>3, <3>4
    <2>3. QED
      BY <2>2 DEF WithinApprovals
  <1>4. QED
    BY <1>1, <1>2, <1>3, StepKinds

(* No month is committed beyond the largest approved limit, and no purpose *)
(* beyond the largest of its approved shares.                              *)
THEOREM StaysWithinApprovals ==
  ASSUME PoliciesOK PROVE AccountSpec => []WithinApprovals
  <1>1. AccountTypeOK /\ WithinApprovals /\ [AccountNext]_accountVars
            => AccountTypeOK' /\ WithinApprovals'
    BY StepKeepsType, StepKeepsApprovals
  <1>2. QED
    BY InitOK, <1>1, PTL DEF AccountSpec

LEMMA StepGrowsWithinLimit ==
  ASSUME PoliciesOK, AccountTypeOK, [AccountNext]_accountVars, NEW n \in Months,
         Total(n)' > Total(n)
  PROVE  limit'[n] # None /\ Total(n)' <= limit'[n]
  <1>t. AccountTypeOK'
    BY StepKeepsType
  <1>0. /\ Total(n) \in Nat /\ Total(n)' \in Nat
        /\ \A p \in Purposes : committed[n][p] \in Nat /\ committed'[n][p] \in Nat
    BY <1>t DEF AccountTypeOK, Total, Purposes
  <1>1. CASE UNCHANGED accountVars
    BY <1>0, <1>1 DEF accountVars, Total
  <1>2. ASSUME NEW m \in Months, NEW policy \in Policies, NEW amount \in Nat,
               Admit(m, policy, amount)
        PROVE  limit'[n] # None /\ Total(n)' <= limit'[n]
    <2>1. /\ n # m => committed'[n] = committed[n]
          /\ limit'[m] = policy.limit
          /\ Total(m)' <= policy.limit
      BY <1>2, AdmitChanges
    <2>2. n = m
      BY <1>0, <2>1 DEF Total
    <2>3. policy.limit # None
      BY PolicyOK DEF PoliciesOK
    <2>4. QED
      BY <2>1, <2>2, <2>3
  <1>3. ASSUME NEW m \in Months,
               \/ \E policy \in Policies : Adopt(m, policy)
               \/ \E left \in [Purposes -> 0..Total(m)] : Return(m, left)
               \/ Forget(m)
        PROVE  FALSE
    <2>1. /\ committed'[n]["embedding"] <= committed[n]["embedding"]
          /\ committed'[n]["grounded-answer"] <= committed[n]["grounded-answer"]
      BY <1>3, OthersChange DEF Purposes
    <2>2. QED
      BY <1>0, <2>1 DEF Total, Purposes
  <1>4. QED
    BY <1>1, <1>2, <1>3, StepKinds

(* Whenever the amount of a month grows, it is within the limit in force   *)
(* after the step.                                                         *)
THEOREM GrowthIsWithinLimit ==
  ASSUME PoliciesOK PROVE AccountSpec => GrowsWithinLimit
  <1>1. AccountTypeOK /\ [AccountNext]_accountVars =>
            [\A m \in Months : Total(m)' > Total(m) =>
                 limit'[m] # None /\ Total(m)' <= limit'[m]]_accountVars
    BY StepGrowsWithinLimit
  <1>2. QED
    BY <1>1, AccountIsTyped, PTL DEF AccountSpec, GrowsWithinLimit

LEMMA StepLowersLimits ==
  ASSUME PoliciesOK, AccountTypeOK, [AccountNext]_accountVars, NEW n \in Months, limit[n] # None
  PROVE  limit'[n] = None \/ limit'[n] <= limit[n]
  <1>0. limit[n] \in Nat
    BY DEF PoliciesOK, AccountTypeOK, Limits
  <1>1. CASE UNCHANGED accountVars
    BY <1>0, <1>1 DEF accountVars
  <1>2. ASSUME NEW m \in Months, NEW policy \in Policies, NEW amount \in Nat,
               Admit(m, policy, amount)
        PROVE  limit'[n] <= limit[n]
    <2>1. /\ n # m => limit'[n] = limit[n]
          /\ limit[m] # None => limit'[m] <= limit[m]
      BY <1>2, AdmitChanges
    <2>2. QED
      BY <1>0, <2>1
  <1>3. ASSUME NEW m \in Months,
               \/ \E policy \in Policies : Adopt(m, policy)
               \/ \E left \in [Purposes -> 0..Total(m)] : Return(m, left)
               \/ Forget(m)
        PROVE  limit'[n] = None \/ limit'[n] <= limit[n]
    BY <1>3, OthersChange
  <1>4. QED
    BY <1>1, <1>2, <1>3, StepKinds

\* A limit that was lowered is not raised while its budget row exists.
THEOREM LimitsOnlyFall ==
  ASSUME PoliciesOK PROVE AccountSpec => LimitNeverRises
  <1>1. AccountTypeOK /\ [AccountNext]_accountVars =>
            [\A m \in Months : limit[m] # None =>
                 limit'[m] = None \/ limit'[m] <= limit[m]]_accountVars
    BY StepLowersLimits
  <1>2. QED
    BY <1>1, AccountIsTyped, PTL DEF AccountSpec, LimitNeverRises
==============================================================================
