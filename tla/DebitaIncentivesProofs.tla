----------------------- MODULE DebitaIncentivesProofs -----------------------
(***************************************************************************)
(* For any users, principles, amounts and timestamps: claims are final,    *)
(* since an epoch that is claimed on is over and stays so, a bribe enters  *)
(* an epoch that has not begun and a match is counted in the running one;  *)
(* the usages of the users add up to the totals; so the truncated claims   *)
(* of an epoch add up to no more than its bribes, which the contract       *)
(* holds until they are claimed; and what an epoch lists is bribed in it.  *)
(***************************************************************************)
EXTENDS DebitaIncentives, FiniteSetTheorems, TLAPS

INSTANCE ProofLemmas WITH Orders <- {}, NoOrder <- 0, Capacity <- 0

(* The components of a claim and of what it is computed from.              *)
LEMMA ClaimParts ==
  ASSUME NEW u \in Users, NEW p \in Principles, NEW e \in Epochs,
         NEW t \in BribeTokens
  PROVE  /\ <<u, p, e, t>> \in Claims
         /\ <<p, e, t>> \in Bribes
         /\ <<u, p, e>> \in UserUsages
         /\ <<p, e>> \in Usages
BY DEF Claims, Bribes, UserUsages, Usages

LEMMA ClaimIsTuple ==
  ASSUME NEW c \in Claims
  PROVE  /\ c[1] \in Users /\ c[2] \in Principles
         /\ c[3] \in Epochs /\ c[4] \in BribeTokens
         /\ c = <<c[1], c[2], c[3], c[4]>>
BY DEF Claims

(* An epoch is a number, and epochs follow each other in time.             *)
LEMMA EpochMonotone ==
  ASSUME NEW s \in Times, NEW t \in Times, s <= t
  PROVE  EpochAt(s) \in Nat /\ EpochAt(t) \in Nat /\ EpochAt(s) <= EpochAt(t)
<1>. DEFINE a == s - blockDeployedContract
            b == t - blockDeployedContract
<1>1. a \in Nat /\ b \in Nat /\ a <= b
  BY IncentivesAssumption
<1>2. epochDuration \in Nat \ {0}
  BY IncentivesAssumption
<1>. HIDE DEF a, b
<1>3. a \div epochDuration \in Nat /\ b \div epochDuration \in Nat
  BY <1>1, <1>2, DivNat
<1>4. a \div epochDuration <= b \div epochDuration
  BY <1>1, <1>2, DivMonotone
<1>. QED
  BY <1>3, <1>4 DEF EpochAt, a, b

(* What is claimed does not change with anything but these.                *)
LEMMA SameAmount ==
  ASSUME NEW u, NEW p, NEW e, NEW t,
         lentIncentives'[<<p, e, t>>] = lentIncentives[<<p, e, t>>],
         borrowedIncentives'[<<p, e, t>>] = borrowedIncentives[<<p, e, t>>],
         lentAmount'[<<u, p, e>>] = lentAmount[<<u, p, e>>],
         borrowAmount'[<<u, p, e>>] = borrowAmount[<<u, p, e>>],
         totalUsed'[<<p, e>>] = totalUsed[<<p, e>>]
  PROVE  AmountToClaim(u, p, e, t)' = AmountToClaim(u, p, e, t)
BY DEF AmountToClaim, Percentage

(* A step that pays nothing, moves no clock back, and leaves alone what    *)
(* finished epochs were bribed with and used, keeps the invariant.         *)
LEMMA KeepsClaims ==
  ASSUME ClaimsInv,
         now' \in Times, now <= now',
         UNCHANGED <<claimedIncentives, received>>,
         lentIncentives' = [b \in Bribes |-> lentIncentives'[b]],
         borrowedIncentives' = [b \in Bribes |-> borrowedIncentives'[b]],
         \A u \in Users, p \in Principles, e \in Epochs, t \in BribeTokens :
           Finished(e) =>
             /\ lentIncentives'[<<p, e, t>>] = lentIncentives[<<p, e, t>>]
             /\ borrowedIncentives'[<<p, e, t>>] = borrowedIncentives[<<p, e, t>>]
             /\ lentAmount'[<<u, p, e>>] = lentAmount[<<u, p, e>>]
             /\ borrowAmount'[<<u, p, e>>] = borrowAmount[<<u, p, e>>]
             /\ totalUsed'[<<p, e>>] = totalUsed[<<p, e>>]
  PROVE  ClaimsInv'
<1>1. ASSUME NEW c \in claimedIncentives' PROVE Finished(c[3])'
  <2>1. Finished(c[3]) /\ c[3] \in Nat
    BY <1>1, ClaimIsTuple DEF ClaimsInv, Epochs
  <2>2. currentEpoch \in Nat /\ currentEpoch' \in Nat /\ currentEpoch <= currentEpoch'
    BY EpochMonotone DEF ClaimsInv, currentEpoch
  <2>. QED
    BY <2>1, <2>2 DEF Finished
<1>2. ClaimsFinal'
  <2>. SUFFICES ASSUME NEW u \in Users, NEW p \in Principles,
                       NEW e \in Epochs, NEW t \in BribeTokens
                PROVE  received'[<<u, p, e, t>>] =
                         IF <<u, p, e, t>> \in claimedIncentives'
                           THEN <<AmountToClaim(u, p, e, t)'>> ELSE <<>>
    BY DEF ClaimsFinal
  <2>1. received[<<u, p, e, t>>] =
          IF <<u, p, e, t>> \in claimedIncentives
            THEN <<AmountToClaim(u, p, e, t)>> ELSE <<>>
    BY DEF ClaimsInv, ClaimsFinal
  <2>2. CASE <<u, p, e, t>> \in claimedIncentives
    <3>1. Finished(e)
      BY <2>2 DEF ClaimsInv
    <3>2. AmountToClaim(u, p, e, t)' = AmountToClaim(u, p, e, t)
      BY <3>1, SameAmount
    <3>. QED
      BY <2>1, <2>2, <3>2
  <2>3. CASE <<u, p, e, t>> \notin claimedIncentives
    BY <2>1, <2>3
  <2>. QED
    BY <2>2, <2>3
<1>3. received' = [c \in Claims |-> received'[c]]
  BY DEF ClaimsInv
<1>. QED
  BY <1>1, <1>2, <1>3 DEF ClaimsInv

(* A claim is paid for the first time, in an epoch that is over.           *)
LEMMA ClaimKeepsClaims ==
  ASSUME ClaimsInv, NEW u \in Users, NEW p \in Principles, NEW e \in Epochs,
         NEW t \in BribeTokens, claimIncentives(u, p, e, t)
  PROVE  ClaimsInv'
<1>. DEFINE k == <<u, p, e, t>>
<1>1. /\ Finished(e)
      /\ k \notin claimedIncentives
      /\ claimedIncentives' = claimedIncentives \cup {k}
      /\ received' = [received EXCEPT ![k] = Append(@, AmountToClaim(u, p, e, t))]
      /\ UNCHANGED <<now, incentives, usage>>
  BY DEF claimIncentives
<1>2. k \in Claims
  BY ClaimParts
<1>3. \A v, q, d, s : AmountToClaim(v, q, d, s)' = AmountToClaim(v, q, d, s)
  BY <1>1, SameAmount DEF incentives, usage
<1>4. received' = [c \in Claims |-> received'[c]]
  BY <1>1 DEF ClaimsInv
<1>5. ClaimsFinal'
  <2>. SUFFICES ASSUME NEW v \in Users, NEW q \in Principles,
                       NEW d \in Epochs, NEW s \in BribeTokens
                PROVE  received'[<<v, q, d, s>>] =
                         IF <<v, q, d, s>> \in claimedIncentives'
                           THEN <<AmountToClaim(v, q, d, s)'>> ELSE <<>>
    BY DEF ClaimsFinal
  <2>1. <<v, q, d, s>> \in Claims
    BY ClaimParts
  <2>2. received[<<v, q, d, s>>] =
          IF <<v, q, d, s>> \in claimedIncentives
            THEN <<AmountToClaim(v, q, d, s)>> ELSE <<>>
    BY DEF ClaimsInv, ClaimsFinal
  <2>3. CASE <<v, q, d, s>> = k
    <3>1. received[k] = <<>>
      BY <1>1, <2>2, <2>3
    <3>2. received'[k] = Append(<<>>, AmountToClaim(u, p, e, t))
      BY <1>1, <1>2, <3>1 DEF ClaimsInv
    <3>3. received'[k] = <<AmountToClaim(u, p, e, t)>>
      BY <3>2
    <3>. QED
      BY <3>3, <2>3, <1>1, <1>3
  <2>4. CASE <<v, q, d, s>> # k
    <3>1. received'[<<v, q, d, s>>] = received[<<v, q, d, s>>]
      BY <2>1, <2>4, <1>1 DEF ClaimsInv
    <3>2. <<v, q, d, s>> \in claimedIncentives' <=> <<v, q, d, s>> \in claimedIncentives
      BY <2>4, <1>1
    <3>. QED
      BY <3>1, <3>2, <2>2, <1>3
  <2>. QED
    BY <2>3, <2>4
<1>6. \A c \in claimedIncentives' : Finished(c[3])'
  BY <1>1 DEF ClaimsInv, Finished, currentEpoch
<1>. QED
  BY <1>1, <1>2, <1>4, <1>5, <1>6 DEF ClaimsInv, incentives

(* A bribe goes into an epoch that has not begun.                          *)
LEMMA BribeKeepsClaims ==
  ASSUME ClaimsInv, NEW p \in Principles, NEW t \in BribeTokens, NEW isLend \in BOOLEAN,
         NEW amount \in BribeAmounts, NEW e \in Epochs,
         incentivizePair(p, t, isLend, amount, e)
  PROVE  ClaimsInv'
<1>1. /\ Open(e)
      /\ UNCHANGED <<now, usage, claimedIncentives, received>>
      /\ \/ /\ lentIncentives' = [lentIncentives EXCEPT ![<<p, e, t>>] = @ + amount]
            /\ UNCHANGED borrowedIncentives
         \/ /\ borrowedIncentives' = [borrowedIncentives EXCEPT ![<<p, e, t>>] = @ + amount]
            /\ UNCHANGED lentIncentives
  BY DEF incentivizePair
<1>2. /\ lentIncentives = [b \in Bribes |-> lentIncentives[b]]
      /\ borrowedIncentives = [b \in Bribes |-> borrowedIncentives[b]]
      /\ now \in Times
  BY DEF ClaimsInv
<1>3. /\ lentIncentives' = [b \in Bribes |-> lentIncentives'[b]]
      /\ borrowedIncentives' = [b \in Bribes |-> borrowedIncentives'[b]]
  BY <1>1, <1>2
<1>4. ASSUME NEW q \in Principles, NEW d \in Epochs, NEW s \in BribeTokens, Finished(d)
      PROVE  /\ lentIncentives'[<<q, d, s>>] = lentIncentives[<<q, d, s>>]
             /\ borrowedIncentives'[<<q, d, s>>] = borrowedIncentives[<<q, d, s>>]
  <2>1. currentEpoch \in Nat /\ d \in Nat /\ e \in Nat
    BY <1>2, EpochMonotone, IncentivesAssumption DEF currentEpoch, Epochs
  <2>2. d # e
    BY <1>1, <1>4, <2>1 DEF Open, Finished
  <2>3. <<q, d, s>> # <<p, e, t>> /\ <<q, d, s>> \in Bribes
    BY <2>2 DEF Bribes
  <2>. QED
    BY <2>3, <1>1, <1>2
<1>5. now' \in Times /\ now <= now'
  BY <1>1, <1>2, IncentivesAssumption
<1>. QED
  BY <1>1, <1>3, <1>4, <1>5, KeepsClaims DEF usage

(* A match is counted in the running epoch.                                *)
LEMMA MatchKeepsClaims ==
  ASSUME ClaimsInv, NEW offers, NEW c, NEW borrower, updateFunds(offers, c, borrower)
  PROVE  ClaimsInv'
<1>1. ASSUME NEW u \in Users, NEW p \in Principles, NEW e \in Epochs, Finished(e)
      PROVE  /\ lentAmount'[<<u, p, e>>] = lentAmount[<<u, p, e>>]
             /\ borrowAmount'[<<u, p, e>>] = borrowAmount[<<u, p, e>>]
             /\ totalUsed'[<<p, e>>] = totalUsed[<<p, e>>]
  <2>1. currentEpoch \in Nat /\ e \in Nat
    BY EpochMonotone, IncentivesAssumption DEF ClaimsInv, currentEpoch, Epochs
  <2>2. e # currentEpoch
    BY <1>1, <2>1 DEF Finished
  <2>3. <<u, p, e>> \in UserUsages /\ <<p, e>> \in Usages
    BY DEF UserUsages, Usages
  <2>. QED
    BY <2>2, <2>3 DEF updateFunds
<1>2. /\ UNCHANGED <<now, incentives, claimedIncentives, received>>
      /\ now' \in Times /\ now <= now'
  BY IncentivesAssumption DEF updateFunds, ClaimsInv
<1>3. /\ lentIncentives' = [b \in Bribes |-> lentIncentives'[b]]
      /\ borrowedIncentives' = [b \in Bribes |-> borrowedIncentives'[b]]
  BY <1>2 DEF ClaimsInv, incentives
<1>. QED
  BY <1>1, <1>2, <1>3, KeepsClaims DEF incentives

(* Every step keeps the invariant.                                         *)
LEMMA NextClaims ==
  ASSUME ClaimsInv, [Next]_vars PROVE ClaimsInv'
<1>1. ASSUME now' \in Times, now <= now',
             UNCHANGED <<claimedIncentives, received, incentives, usage>>
      PROVE  ClaimsInv'
  <2>1. /\ lentIncentives' = [b \in Bribes |-> lentIncentives'[b]]
        /\ borrowedIncentives' = [b \in Bribes |-> borrowedIncentives'[b]]
    BY <1>1 DEF ClaimsInv, incentives
  <2>. QED
    BY <1>1, <2>1, KeepsClaims DEF incentives, usage
<1>2. now \in Times /\ now \in Nat
  BY IncentivesAssumption DEF ClaimsInv
<1>3. CASE UNCHANGED vars
  BY <1>1, <1>2, <1>3 DEF vars
<1>4. ASSUME NEW p, NEW c, NEW whitelist, whitelListCollateral(p, c, whitelist)
      PROVE  ClaimsInv'
  BY <1>1, <1>2, <1>4 DEF whitelListCollateral
<1>5. ASSUME NEW p, deprecatePrinciple(p) PROVE ClaimsInv'
  BY <1>1, <1>2, <1>5 DEF deprecatePrinciple
<1>6. CASE Tick
  <2>1. now' \in Times /\ now <= now'
    BY <1>2, <1>6, IncentivesAssumption DEF Tick
  <2>. QED
    BY <1>1, <1>6, <2>1 DEF Tick
<1>. QED
  BY <1>3, <1>4, <1>5, <1>6, ClaimKeepsClaims, BribeKeepsClaims, MatchKeepsClaims
     DEF Next

(* Every claim is paid at most once, and what it was paid is what it is    *)
(* worth ever after: a claim never depends on when it is made.             *)
THEOREM ClaimsStayFinal == Spec => []ClaimsFinal
<1>1. Init => ClaimsInv
  BY DEF Init, ClaimsInv, ClaimsFinal, Claims
<1>2. ClaimsInv /\ [Next]_vars => ClaimsInv'
  BY NextClaims
<1>3. ClaimsInv => ClaimsFinal
  BY DEF ClaimsInv
<1>. QED
  BY <1>1, <1>2, <1>3, PTL DEF Spec

-----------------------------------------------------------------------------
(* Usage: lenders, borrowers and the total are counted alike               *)

(* The usages of one principle in one epoch.                               *)
UsersOf(p, e) == {x \in UserUsages : x[2] = p /\ x[3] = e}

LEMMA UsersOfFinite ==
  ASSUME NEW p, NEW e
  PROVE  IsFiniteSet(UsersOf(p, e)) /\ UsersOf(p, e) \subseteq UserUsages
<1>1. IsFiniteSet(Epochs)
  BY IncentivesAssumption, FS_Interval DEF Epochs
<1>2. IsFiniteSet(UserUsages)
  BY <1>1, IncentivesAssumption, TriplesFinite DEF UserUsages
<1>. QED
  BY <1>2, FS_Subset DEF UsersOf

(* What is lent in some of the offers is a natural.                        *)
LEMMA LentNat ==
  ASSUME NEW n \in Nat, NEW offers \in [1 .. n -> Offers], NEW S \in SUBSET (1 .. n)
  PROVE  IsFiniteSet(S) /\ Lent(offers, S) \in Nat
<1>. DEFINE f == [i \in S |-> offers[i].principleAmount]
<1>1. IsFiniteSet(S)
  <2>1. IsFiniteSet(1 .. n)
    BY FS_Interval, 1 \in Int, n \in Int
  <2>. QED
    BY <2>1, FS_Subset
<1>2. \A i \in S : f[i] \in Nat
  BY IncentivesAssumption DEF Offers
<1>. HIDE DEF f
<1>3. SumFunctionOnSet(f, S) \in Nat
  BY <1>1, <1>2, SumNat
<1>. QED
  BY <1>1, <1>3 DEF Lent, f

(* What is lent in offers of principle p is what their lenders lent.       *)
LEMMA LentByLenders ==
  ASSUME NEW n \in Nat, NEW offers \in [1 .. n -> Offers], NEW S \in SUBSET (1 .. n),
         NEW p \in Principles, NEW e \in Epochs,
         NEW d, \A x \in UsersOf(p, e) : d[x] = Lent(offers, {i \in S : offers[i].lender = x[1]})
  PROVE  SumFunctionOnSet(d, UsersOf(p, e)) = Lent(offers, S)
<1>. DEFINE f == [i \in S |-> offers[i].principleAmount]
            G == UsersOf(p, e)
            part == [x \in G |-> {i \in S : offers[i].lender = x[1]}]
<1>1. IsFiniteSet(S) /\ IsFiniteSet(G)
  BY LentNat, UsersOfFinite
<1>2. ASSUME NEW i \in S
      PROVE  f[i] \in Int /\ <<offers[i].lender, p, e>> \in G
  <2>1. offers[i] \in Offers
    OBVIOUS
  <2>2. \A o \in Offers : o.principleAmount \in LoanAmounts /\ o.lender \in Users
    BY DEF Offers
  <2>3. f[i] \in Int
    <3>1. f[i] = offers[i].principleAmount
      OBVIOUS
    <3>2. offers[i].principleAmount \in LoanAmounts
      BY <2>1, <2>2
    <3>3. LoanAmounts \subseteq Int
      BY IncentivesAssumption
    <3>. HIDE DEF f
    <3>. QED
      BY <3>1, <3>2, <3>3
  <2>4. <<offers[i].lender, p, e>> \in UserUsages
    BY <2>1, <2>2 DEF UserUsages
  <2>. QED
    BY <2>3, <2>4 DEF UsersOf
<1>3. ASSUME NEW x \in G
      PROVE  /\ part[x] \subseteq S
             /\ x = <<x[1], p, e>>
             /\ d[x] = SumFunctionOnSet(f, part[x])
  <2>. DEFINE T == {i \in S : offers[i].lender = x[1]}
              g == [i \in T |-> offers[i].principleAmount]
  <2>1. part[x] = T /\ T \subseteq S
    OBVIOUS
  <2>2. \A i \in T : f[i] = g[i]
    OBVIOUS
  <2>3. x = <<x[1], p, e>>
    BY DEF UsersOf, UserUsages
  <2>4. d[x] = SumFunctionOnSet(g, T)
    BY DEF Lent
  <2>5. SumFunctionOnSet(f, T) = SumFunctionOnSet(g, T)
    <3>1. IsFiniteSet(T)
      BY <1>1, <2>1, FS_Subset
    <3>. HIDE DEF f, g, T
    <3>. QED
      BY <2>2, <3>1, SumSame
  <2>. QED
    BY <2>1, <2>3, <2>4, <2>5
<1>4. \A x, y \in G : x # y => part[x] \cap part[y] = {}
  <2>. SUFFICES ASSUME NEW x \in G, NEW y \in G, NEW i \in part[x], i \in part[y]
                PROVE  x = y
    OBVIOUS
  <2>1. x[1] = y[1]
    OBVIOUS
  <2>. QED
    BY <2>1, <1>3
<1>5. \A i \in S : \E x \in G : i \in part[x]
  <2>. TAKE i \in S
  <2>. DEFINE x == <<offers[i].lender, p, e>>
  <2>1. x \in G /\ x[1] = offers[i].lender
    BY <1>2
  <2>. HIDE DEF x
  <2>2. i \in part[x]
    BY <2>1
  <2>. QED
    BY <2>1, <2>2
<1>6. SumFunctionOnSet(f, S) = SumFunctionOnSet(d, G)
  <2>. DEFINE s == [x \in G |-> SumFunctionOnSet(f, part[x])]
  <2>1. \A i \in S : f[i] \in Int
    BY <1>2
  <2>2. \A x \in G : d[x] = s[x]
    BY <1>3
  <2>3. Divides(part, G, S)
    BY <1>3, <1>4, <1>5 DEF Divides
  <2>4. \A x \in G : s[x] = SumFunctionOnSet(f, part[x])
    OBVIOUS
  <2>. HIDE DEF f, G, part, s
  <2>5. SumFunctionOnSet(f, S) = SumFunctionOnSet(s, G)
    BY <1>1, <2>1, <2>3, <2>4, SumGroups
  <2>. QED
    BY <1>1, <2>2, <2>5, SumSame
<1>. QED
  BY <1>6 DEF Lent

(* A match counts each whitelisted offer once on each side and in the      *)
(* total.                                                                  *)
LEMMA MatchUsage ==
  ASSUME UsageInv, NEW n \in 1 .. MaxOffers, NEW offers \in [1 .. n -> Offers],
         NEW c, NEW borrower \in Users, updateFunds(offers, c, borrower)
  PROVE  UsageInv'
<1>. DEFINE counted == Counted(offers, c)
            of(p) == {i \in counted : offers[i].principle = p}
            by(u, p) == {i \in {j \in counted : offers[j].lender = u} : offers[i].principle = p}
            lent == [x \in UserUsages |-> Lent(offers, by(x[1], x[2]))]
            used == [p \in Principles |-> Lent(offers, of(p))]
            e == currentEpoch
<1>1. n \in Nat /\ counted \subseteq 1 .. n
  BY IncentivesAssumption DEF Counted
<1>2. /\ e \in Epochs
      /\ lentAmount' = [x \in UserUsages |->
           IF x[3] = e THEN lentAmount[x] + lent[x] ELSE lentAmount[x]]
      /\ borrowAmount' = [x \in UserUsages |->
           IF x[1] = borrower /\ x[3] = e THEN borrowAmount[x] + used[x[2]]
           ELSE borrowAmount[x]]
      /\ totalUsed' = [x \in Usages |->
           IF x[2] = e THEN totalUsed[x] + used[x[1]] ELSE totalUsed[x]]
  BY DEF updateFunds, CountedInTotal, UserUsages, Usages
<1>3. ASSUME NEW x \in UserUsages
      PROVE  lent[x] \in Nat
  <2>1. by(x[1], x[2]) \subseteq 1 .. n
    BY <1>1
  <2>. HIDE DEF by
  <2>. QED
    BY <1>1, <2>1, LentNat
<1>4. ASSUME NEW p \in Principles
      PROVE  used[p] \in Nat
  <2>1. of(p) \subseteq 1 .. n
    BY <1>1
  <2>. HIDE DEF of
  <2>. QED
    BY <1>1, <2>1, LentNat
<1>5. ASSUME NEW p \in Principles, NEW g \in Epochs
      PROVE  SumFunctionOnSet(lent, UsersOf(p, g)) = used[p]
  <2>1. of(p) \in SUBSET (1 .. n)
    BY <1>1
  <2>2. ASSUME NEW x \in UsersOf(p, g)
        PROVE  lent[x] = Lent(offers, {i \in of(p) : offers[i].lender = x[1]})
    <3>1. x \in UserUsages /\ x[2] = p
      BY DEF UsersOf
    <3>2. by(x[1], x[2]) = {i \in of(p) : offers[i].lender = x[1]}
      BY <3>1
    <3>. QED
      BY <3>1, <3>2
  <2>. HIDE DEF of, lent
  <2>3. SumFunctionOnSet(lent, UsersOf(p, g)) = Lent(offers, of(p))
    BY <1>1, <2>1, <2>2, LentByLenders
  <2>. QED
    BY <2>3
<1>. HIDE DEF e, lent, used
<1>6. /\ lentAmount \in [UserUsages -> Nat] /\ lentAmount' \in [UserUsages -> Nat]
      /\ borrowAmount \in [UserUsages -> Nat] /\ borrowAmount' \in [UserUsages -> Nat]
      /\ totalUsed \in [Usages -> Nat] /\ totalUsed' \in [Usages -> Nat]
  BY <1>2, <1>3, <1>4 DEF UsageInv, UserUsages, Usages
<1>7. UsageAgrees'
  <2>. SUFFICES ASSUME NEW p \in Principles, NEW g \in Epochs
                PROVE  /\ SumFunctionOnSet(lentAmount', UsersOf(p, g)) = totalUsed'[<<p, g>>]
                       /\ SumFunctionOnSet(borrowAmount', UsersOf(p, g)) = totalUsed'[<<p, g>>]
    BY DEF UsageAgrees, UsersOf
  <2>1. /\ IsFiniteSet(UsersOf(p, g)) /\ UsersOf(p, g) \subseteq UserUsages
        /\ \A x \in UsersOf(p, g) : lentAmount[x] \in Int /\ borrowAmount[x] \in Int
    BY <1>6, UsersOfFinite
  <2>2. <<p, g>> \in Usages
    BY DEF Usages
  <2>3. /\ SumFunctionOnSet(lentAmount, UsersOf(p, g)) = totalUsed[<<p, g>>]
        /\ SumFunctionOnSet(borrowAmount, UsersOf(p, g)) = totalUsed[<<p, g>>]
    BY DEF UsageInv, UsageAgrees, UsersOf
  <2>4. CASE g # e
    <3>1. \A x \in UsersOf(p, g) : lentAmount'[x] = lentAmount[x] /\ borrowAmount'[x] = borrowAmount[x]
      BY <1>2, <2>1, <2>4 DEF UsersOf
    <3>2. totalUsed'[<<p, g>>] = totalUsed[<<p, g>>]
      BY <1>2, <2>2, <2>4
    <3>3. /\ SumFunctionOnSet(lentAmount', UsersOf(p, g)) = SumFunctionOnSet(lentAmount, UsersOf(p, g))
          /\ SumFunctionOnSet(borrowAmount', UsersOf(p, g)) = SumFunctionOnSet(borrowAmount, UsersOf(p, g))
      BY <2>1, <3>1, SumSame
    <3>. QED
      BY <2>3, <3>2, <3>3
  <2>5. CASE g = e
    <3>. DEFINE k == <<borrower, p, g>>
    <3>1. totalUsed'[<<p, g>>] = totalUsed[<<p, g>>] + used[p]
      BY <1>2, <2>2, <2>5
    <3>2. \A x \in UsersOf(p, g) :
            lent[x] \in Int /\ lentAmount'[x] = lentAmount[x] + lent[x]
      BY <1>2, <1>3, <2>1, <2>5 DEF UsersOf
    <3>3. SumFunctionOnSet(lentAmount', UsersOf(p, g))
            = SumFunctionOnSet(lentAmount, UsersOf(p, g)) + SumFunctionOnSet(lent, UsersOf(p, g))
      BY <2>1, <3>2, SumPlus
    <3>4. k \in UsersOf(p, g) /\ \A x \in UsersOf(p, g) : x[1] = borrower => x = k
      BY DEF UsersOf, UserUsages
    <3>5. borrowAmount'[k] = borrowAmount[k] + used[p]
      BY <1>2, <2>1, <2>5, <3>4
    <3>6. \A x \in UsersOf(p, g) \ {k} : borrowAmount'[x] = borrowAmount[x]
      BY <1>2, <2>1, <3>4
    <3>7. SumFunctionOnSet(borrowAmount', UsersOf(p, g))
            = SumFunctionOnSet(borrowAmount, UsersOf(p, g)) + used[p]
      <4>1. used[p] \in Int
        BY <1>4
      <4>. HIDE DEF k
      <4>. QED
        BY <2>1, <3>4, <3>5, <3>6, <4>1, SumChange
    <3>. QED
      BY <1>5, <2>3, <3>1, <3>3, <3>7
  <2>. QED
    BY <2>4, <2>5
<1>. QED
  BY <1>6, <1>7 DEF UsageInv

(* Nobody has used anything at first.                                      *)
LEMMA InitUsage == Init => UsageInv
<1>. SUFFICES ASSUME Init PROVE UsageInv
  OBVIOUS
<1>1. UsageAgrees
  <2>. SUFFICES ASSUME NEW p \in Principles, NEW e \in Epochs
                PROVE  /\ SumFunctionOnSet(lentAmount, UsersOf(p, e)) = totalUsed[<<p, e>>]
                       /\ SumFunctionOnSet(borrowAmount, UsersOf(p, e)) = totalUsed[<<p, e>>]
    BY DEF UsageAgrees, UsersOf
  <2>1. \A x \in UsersOf(p, e) : lentAmount[x] = 0 /\ borrowAmount[x] = 0
    BY DEF Init, UsersOf
  <2>2. totalUsed[<<p, e>>] = 0
    BY DEF Init, Usages
  <2>. QED
    BY <2>1, <2>2, UsersOfFinite, SumZero
<1>. QED
  BY <1>1 DEF Init, UsageInv

(* Only a match is counted.                                                *)
LEMMA NextUsage == UsageInv /\ [Next]_vars => UsageInv'
<1>. SUFFICES ASSUME UsageInv, [Next]_vars PROVE UsageInv'
  OBVIOUS
<1>1. ASSUME UNCHANGED usage PROVE UsageInv'
  BY <1>1 DEF usage, UsageInv, UsageAgrees
<1>2. ASSUME NEW n \in 1 .. MaxOffers, NEW offers \in [1 .. n -> Offers],
             NEW c \in Collaterals, NEW borrower \in Users, updateFunds(offers, c, borrower)
      PROVE  UsageInv'
  BY <1>2, MatchUsage
<1>3. ASSUME NEW u \in Users, NEW p \in Principles, NEW e \in Epochs, NEW t \in BribeTokens,
             claimIncentives(u, p, e, t)
      PROVE  UsageInv'
  BY <1>1, <1>3 DEF claimIncentives
<1>4. ASSUME NEW p \in Principles, NEW t \in BribeTokens, NEW isLend \in BOOLEAN,
             NEW amount \in BribeAmounts, NEW e \in Epochs, incentivizePair(p, t, isLend, amount, e)
      PROVE  UsageInv'
  BY <1>1, <1>4 DEF incentivizePair
<1>5. ASSUME NEW p \in Principles, NEW c \in Collaterals, NEW whitelist \in BOOLEAN,
             whitelListCollateral(p, c, whitelist)
      PROVE  UsageInv'
  BY <1>1, <1>5 DEF whitelListCollateral
<1>6. ASSUME NEW p \in Principles, deprecatePrinciple(p)
      PROVE  UsageInv'
  BY <1>1, <1>6 DEF deprecatePrinciple
<1>7. CASE Tick
  BY <1>1, <1>7 DEF Tick
<1>8. CASE UNCHANGED vars
  BY <1>1, <1>8 DEF vars
<1>. QED
  BY <1>2, <1>3, <1>4, <1>5, <1>6, <1>7, <1>8 DEF Next

(* Whatever order the offers come in and wherever the loop of updateFunds  *)
(* stops, lenders and borrowers used a principle by the same total.        *)
THEOREM UsageAlwaysAgrees == Spec => []UsageAgrees
<1>1. UsageInv => UsageAgrees
  BY DEF UsageInv
<1>. QED
  BY InitUsage, NextUsage, <1>1, PTL DEF Spec

-----------------------------------------------------------------------------
(* Funds: the incentives that are left cover every claim to come           *)

(* A percentage is rounded down; nobody used anything of a total of zero.  *)
LEMMA PercentageBound ==
  ASSUME NEW a \in Nat, NEW total \in Nat, a <= total
  PROVE  Percentage(a, total) \in Nat /\ total * Percentage(a, total) <= 10000 * a
<1>1. CASE a = 0
  BY <1>1 DEF Percentage
<1>2. CASE a # 0
  <2>1. Percentage(a, total) = (a * 10000) \div total
    BY <1>2 DEF Percentage
  <2>. DEFINE q == (a * 10000) \div total
  <2>2. total \in Nat \ {0} /\ a * 10000 \in Nat
    BY <1>2
  <2>3. q \in Nat /\ q * total <= a * 10000
    BY <2>2, DivNat
  <2>4. q * total = total * q
    BY <2>2, <2>3
  <2>. HIDE DEF q
  <2>. QED
    BY <2>1, <2>2, <2>3, <2>4 DEF q
<1>. QED
  BY <1>1, <1>2

(* w pays every c in C the share of the incentive that a[c] is of total.   *)
PaysShares(w, incentive, a, total, C) ==
  \A c \in C : w[c] = (incentive * Percentage(a[c], total)) \div 10000

(* The shares of an incentive, each rounded down twice, stay within it.    *)
LEMMA SharesWithin ==
  ASSUME NEW C, IsFiniteSet(C), NEW total \in Nat, NEW incentive \in Nat,
         NEW a, \A c \in C : a[c] \in Nat, SumFunctionOnSet(a, C) = total,
         NEW w, PaysShares(w, incentive, a, total, C)
  PROVE  /\ \A c \in C : w[c] \in Nat
         /\ SumFunctionOnSet(w, C) \in Nat /\ SumFunctionOnSet(w, C) <= incentive
<1>. DEFINE share == [c \in C |-> Percentage(a[c], total)]
            shares == SumFunctionOnSet(share, C)
            paid == SumFunctionOnSet(w, C)
<1>1. ASSUME NEW c \in C
      PROVE  a[c] <= total
  <2>1. total = a[c] + SumFunctionOnSet(a, C \ {c})
    BY SumRemove
  <2>2. SumFunctionOnSet(a, C \ {c}) \in Nat
    BY FS_Subset, SumNat
  <2>. QED
    BY <2>1, <2>2
<1>2. \A c \in C : share[c] \in Nat /\ total * share[c] <= 10000 * a[c]
  <2>. TAKE c \in C
  <2>. DEFINE b == a[c]
              q == Percentage(b, total)
  <2>1. b \in Nat /\ total \in Nat /\ b <= total /\ share[c] = q
    BY <1>1
  <2>. HIDE DEF b
  <2>2. q \in Nat /\ total * q <= 10000 * b
    BY ONLY <2>1, PercentageBound
  <2>. HIDE DEF q
  <2>. QED
    BY <2>1, <2>2 DEF b
<1>3. ASSUME NEW c \in C
      PROVE  w[c] \in Nat /\ 10000 * w[c] <= incentive * share[c]
  <2>1. share[c] \in Nat /\ incentive * share[c] \in Nat
    BY <1>2
  <2>. DEFINE x == incentive * share[c]
  <2>2. w[c] = x \div 10000
    BY DEF PaysShares
  <2>. HIDE DEF x
  <2>. QED
    BY <2>1, <2>2 DEF x
<1>4. shares \in Nat /\ paid \in Nat
  BY <1>2, <1>3, SumNat
<1>5. shares <= 10000
  <2>1. CASE total = 0
    <3>1. \A c \in C : share[c] = 0
      BY <1>1, <2>1 DEF Percentage
    <3>2. shares = 0
      BY <3>1, SumZero
    <3>. QED
      BY <3>2
  <2>2. CASE total # 0
    <3>1. Outweighs(10000, a, total, share, C)
      BY <1>2 DEF Outweighs
    <3>2. total \in Int /\ 10000 \in Int
      OBVIOUS
    <3>3. total * shares <= 10000 * SumFunctionOnSet(a, C)
      BY <3>1, <3>2, SumWeighted
    <3>. HIDE DEF shares, share
    <3>. QED
      BY <1>4, <2>2, <3>3
  <2>. QED
    BY <2>1, <2>2
<1>6. 10000 * paid <= incentive * shares
  <2>1. Outweighs(incentive, share, 10000, w, C)
    BY <1>2, <1>3 DEF Outweighs
  <2>2. incentive \in Int /\ 10000 \in Int
    OBVIOUS
  <2>. QED
    BY <2>1, <2>2, SumWeighted
<1>. HIDE DEF shares, paid
<1>7. incentive * shares <= incentive * 10000
  BY <1>4, <1>5, MulMonotone
<1>8. incentive * shares \in Nat
  BY <1>4
<1>9. paid <= incentive
  <2>. DEFINE z == incentive * shares
  <2>1. 10000 * paid <= z /\ z <= incentive * 10000 /\ z \in Nat
    BY <1>6, <1>7, <1>8
  <2>. HIDE DEF z
  <2>. QED
    BY <1>4, <2>1
<1>. QED
  BY <1>3, <1>4, <1>9 DEF paid

(* The claims on one bribe, and those in one token.                        *)
ClaimsOn(b) == {c \in Claims : c[2] = b[1] /\ c[3] = b[2] /\ c[4] = b[3]}
ClaimsIn(t) == {c \in Claims : c[4] = t}

LEMMA ClaimsFinite ==
  /\ IsFiniteSet(Bribes) /\ IsFiniteSet(Claims)
  /\ \A b : IsFiniteSet(ClaimsOn(b))
  /\ \A t : IsFiniteSet(ClaimsIn(t))
<1>1. IsFiniteSet(Epochs)
  BY IncentivesAssumption, FS_Interval DEF Epochs
<1>2. IsFiniteSet(Bribes)
  BY <1>1, IncentivesAssumption, TriplesFinite DEF Bribes
<1>3. IsFiniteSet(Claims)
  BY <1>1, IncentivesAssumption, QuadruplesFinite DEF Claims
<1>4. ASSUME NEW b PROVE IsFiniteSet(ClaimsOn(b))
  BY <1>3, FS_Subset DEF ClaimsOn
<1>5. ASSUME NEW t PROVE IsFiniteSet(ClaimsIn(t))
  BY <1>3, FS_Subset DEF ClaimsIn
<1>. QED
  BY <1>2, <1>3, <1>4, <1>5

(* What an incentive pays to one side, the lenders or the borrowers.       *)
LEMMA SidePays ==
  ASSUME NEW b \in Bribes, NEW amount \in [UserUsages -> Nat], NEW total \in Nat,
         SumFunctionOnSet(amount, UsersOf(b[1], b[2])) = total, NEW incentive \in Nat,
         NEW a, \A c \in ClaimsOn(b) : a[c] = amount[<<c[1], c[2], c[3]>>],
         NEW w, PaysShares(w, incentive, a, total, ClaimsOn(b))
  PROVE  /\ \A c \in ClaimsOn(b) : w[c] \in Nat
         /\ SumFunctionOnSet(w, ClaimsOn(b)) \in Nat
         /\ SumFunctionOnSet(w, ClaimsOn(b)) <= incentive
<1>. DEFINE U == UsersOf(b[1], b[2])
            C == ClaimsOn(b)
            h == [x \in U |-> <<x[1], x[2], x[3], b[3]>>]
            user(c) == <<c[1], c[2], c[3]>>
<1>1. IsFiniteSet(U) /\ U \subseteq UserUsages /\ IsFiniteSet(C)
  BY UsersOfFinite, ClaimsFinite
<1>2. ASSUME NEW x \in U
      PROVE  h[x] \in C /\ user(h[x]) = x
  BY DEF UsersOf, ClaimsOn, UserUsages, Claims, Bribes
<1>3. ASSUME NEW c \in C
      PROVE  user(c) \in U /\ h[user(c)] = c
  <2>1. user(c) \in U
    BY DEF UsersOf, ClaimsOn, UserUsages, Claims
  <2>2. c = <<c[1], c[2], c[3], c[4]>> /\ c[4] = b[3]
    BY ClaimIsTuple DEF ClaimsOn
  <2>. QED
    BY <2>1, <2>2
<1>4. \A c \in C : a[c] = amount[user(c)]
  OBVIOUS
<1>. HIDE DEF U, C, h, user
<1>5. Renames(h, U, C)
  <2>1. ASSUME NEW x \in U, NEW y \in U, h[x] = h[y] PROVE x = y
    BY <1>2, <2>1
  <2>2. ASSUME NEW c \in C PROVE \E x \in U : h[x] = c
    BY <1>3
  <2>. QED
    BY <1>2, <2>1, <2>2 DEF Renames
<1>6. \A x \in U : amount[x] \in Int /\ a[h[x]] = amount[x]
  BY <1>1, <1>2, <1>4
<1>7. \A c \in C : a[c] \in Nat
  BY <1>1, <1>3, <1>4
<1>8. SumFunctionOnSet(a, C) = SumFunctionOnSet(amount, U)
  BY ONLY <1>1, <1>5, <1>6, SumRenamed
<1>9. SumFunctionOnSet(a, C) = total /\ total \in Nat /\ incentive \in Nat
  BY <1>8 DEF U
<1>10. PaysShares(w, incentive, a, total, C)
  BY DEF C
<1>11. /\ \A c \in C : w[c] \in Nat
       /\ SumFunctionOnSet(w, C) \in Nat /\ SumFunctionOnSet(w, C) <= incentive
  BY ONLY <1>1, <1>7, <1>9, <1>10, SharesWithin
<1>. QED
  BY <1>11 DEF C

(* The claims on a bribe, together, are worth no more than the bribe.      *)
LEMMA BribePays ==
  ASSUME UsageInv, lentIncentives \in [Bribes -> Nat],
         borrowedIncentives \in [Bribes -> Nat], NEW b \in Bribes
  PROVE  /\ \A c \in ClaimsOn(b) : Worth[c] \in Nat
         /\ SumFunctionOnSet(Worth, ClaimsOn(b)) \in Nat
         /\ SumFunctionOnSet(Worth, ClaimsOn(b)) <= lentIncentives[b] + borrowedIncentives[b]
<1>. DEFINE C == ClaimsOn(b)
            total == totalUsed[<<b[1], b[2]>>]
            lends == [c \in C |-> lentAmount[<<c[1], c[2], c[3]>>]]
            borrows == [c \in C |-> borrowAmount[<<c[1], c[2], c[3]>>]]
            part(incentive, amount) == (incentive * Percentage(amount, total)) \div 10000
            toLenders == [c \in C |-> part(lentIncentives[b], lends[c])]
            toBorrowers == [c \in C |-> part(borrowedIncentives[b], borrows[c])]
<1>1. /\ b = <<b[1], b[2], b[3]>> /\ b[1] \in Principles /\ b[2] \in Epochs
      /\ <<b[1], b[2]>> \in Usages
  BY DEF Bribes, Usages
<1>2. /\ lentAmount \in [UserUsages -> Nat] /\ borrowAmount \in [UserUsages -> Nat]
      /\ total \in Nat /\ lentIncentives[b] \in Nat /\ borrowedIncentives[b] \in Nat
      /\ SumFunctionOnSet(lentAmount, UsersOf(b[1], b[2])) = total
      /\ SumFunctionOnSet(borrowAmount, UsersOf(b[1], b[2])) = total
  BY <1>1 DEF UsageInv, UsageAgrees, UsersOf
<1>3. ASSUME NEW c \in C
      PROVE  Worth[c] = toLenders[c] + toBorrowers[c]
  <2>1. /\ c \in Claims /\ <<c[2], c[3], c[4]>> = b /\ <<c[2], c[3]>> = <<b[1], b[2]>>
    BY <1>1 DEF ClaimsOn
  <2>2. Worth[c] = AmountToClaim(c[1], c[2], c[3], c[4])
    BY <2>1 DEF Worth
  <2>. QED
    BY <2>1, <2>2 DEF AmountToClaim
<1>4. /\ \A c \in C : lends[c] = lentAmount[<<c[1], c[2], c[3]>>]
      /\ \A c \in C : borrows[c] = borrowAmount[<<c[1], c[2], c[3]>>]
      /\ PaysShares(toLenders, lentIncentives[b], lends, total, C)
      /\ PaysShares(toBorrowers, borrowedIncentives[b], borrows, total, C)
  BY DEF PaysShares
<1>5. b \in Bribes /\ C = ClaimsOn(b)
  OBVIOUS
<1>. HIDE DEF lends, borrows, toLenders, toBorrowers, total, C
<1>6. /\ \A c \in C : toLenders[c] \in Nat
      /\ SumFunctionOnSet(toLenders, C) \in Nat
      /\ SumFunctionOnSet(toLenders, C) <= lentIncentives[b]
  BY ONLY <1>2, <1>4, <1>5, SidePays
<1>7. /\ \A c \in C : toBorrowers[c] \in Nat
      /\ SumFunctionOnSet(toBorrowers, C) \in Nat
      /\ SumFunctionOnSet(toBorrowers, C) <= borrowedIncentives[b]
  BY ONLY <1>2, <1>4, <1>5, SidePays
<1>8. \A c \in C : toLenders[c] \in Int /\ toBorrowers[c] \in Int
  BY <1>6, <1>7
<1>9. IsFiniteSet(C)
  BY ClaimsFinite DEF C
<1>10. SumFunctionOnSet(Worth, C) = SumFunctionOnSet(toLenders, C) + SumFunctionOnSet(toBorrowers, C)
  BY ONLY <1>3, <1>8, <1>9, SumPlus
<1>11. /\ \A c \in C : Worth[c] \in Nat
       /\ SumFunctionOnSet(Worth, C) \in Nat
       /\ SumFunctionOnSet(Worth, C) <= lentIncentives[b] + borrowedIncentives[b]
  BY <1>2, <1>3, <1>6, <1>7, <1>10
<1>. QED
  BY <1>11 DEF C

(* The claims in a token, together, are worth no more than its bribes.     *)
LEMMA TokenPays ==
  ASSUME UsageInv, lentIncentives \in [Bribes -> Nat],
         borrowedIncentives \in [Bribes -> Nat], NEW t \in BribeTokens
  PROVE  /\ \A c \in ClaimsIn(t) : Worth[c] \in Nat
         /\ SumFunctionOnSet(Worth, ClaimsIn(t)) <= Bribed(t)
<1>. DEFINE B == {b \in Bribes : b[3] = t}
            C == ClaimsIn(t)
            part == [b \in B |-> ClaimsOn(b)]
            paid == [b \in B |-> SumFunctionOnSet(Worth, ClaimsOn(b))]
            bribe(c) == <<c[2], c[3], c[4]>>
<1>1. IsFiniteSet(B) /\ IsFiniteSet(C)
  BY ClaimsFinite, FS_Subset
<1>2. ASSUME NEW c \in C
      PROVE  bribe(c) \in B /\ c \in ClaimsOn(bribe(c))
  BY DEF ClaimsIn, ClaimsOn, Claims, Bribes
<1>3. ASSUME NEW b \in B, NEW c \in ClaimsOn(b)
      PROVE  c \in C /\ b = bribe(c)
  BY DEF ClaimsIn, ClaimsOn, Claims, Bribes
<1>4. ASSUME NEW b \in B
      PROVE  /\ \A c \in ClaimsOn(b) : Worth[c] \in Nat
             /\ paid[b] \in Nat /\ Pot[b] \in Nat /\ paid[b] <= Pot[b]
  <2>1. b \in Bribes /\ Pot[b] = lentIncentives[b] + borrowedIncentives[b]
    BY DEF Pot
  <2>2. lentIncentives[b] \in Nat /\ borrowedIncentives[b] \in Nat
    BY <2>1
  <2>3. paid[b] = SumFunctionOnSet(Worth, ClaimsOn(b))
    OBVIOUS
  <2>. QED
    BY <2>1, <2>2, <2>3, BribePays
<1>5. /\ \A b \in B : part[b] = ClaimsOn(b)
      /\ \A b \in B : paid[b] = SumFunctionOnSet(Worth, part[b])
  OBVIOUS
<1>. HIDE DEF B, C, part, paid, bribe
<1>6. \A c \in C : Worth[c] \in Nat
  BY <1>2, <1>4
<1>7. Divides(part, B, C)
  <2>1. \A b \in B : part[b] \subseteq C
    BY <1>3, <1>5
  <2>2. ASSUME NEW a \in B, NEW b \in B, a # b
        PROVE  part[a] \cap part[b] = {}
    BY <1>3, <1>5, <2>2
  <2>3. \A c \in C : \E b \in B : c \in part[b]
    BY <1>2, <1>5
  <2>. QED
    BY <2>1, <2>2, <2>3 DEF Divides
<1>8. \A c \in C : Worth[c] \in Int
  BY <1>6
<1>9. SumFunctionOnSet(Worth, C) = SumFunctionOnSet(paid, B)
  BY ONLY <1>1, <1>5, <1>7, <1>8, SumGroups
<1>10. \A b \in B : paid[b] \in Int /\ Pot[b] \in Int /\ paid[b] <= Pot[b]
  BY <1>4
<1>11. SumFunctionOnSet(paid, B) <= SumFunctionOnSet(Pot, B)
  BY ONLY <1>1, <1>10, SumMonotone
<1>. QED
  BY <1>6, <1>9, <1>11 DEF Bribed, B, C

(* What came in and was not claimed pays every claim to come.              *)
LEMMA FundsCover ==
  ASSUME UsageInv, FundsInv, claimedIncentives \subseteq Claims
  PROVE  IncentivesCovered
<1>. SUFFICES ASSUME NEW t \in BribeTokens
              PROVE  balance[t] >= SumFunctionOnSet(
                       [c \in {k \in Claims : k[4] = t /\ k \notin claimedIncentives} |->
                          AmountToClaim(c[1], c[2], c[3], c[4])],
                       {k \in Claims : k[4] = t /\ k \notin claimedIncentives})
  BY DEF IncentivesCovered
<1>. DEFINE open == {k \in Claims : k[4] = t /\ k \notin claimedIncentives}
            due == [c \in open |-> AmountToClaim(c[1], c[2], c[3], c[4])]
            C == ClaimsIn(t)
            claimed == {c \in claimedIncentives : c[4] = t}
<1>1. /\ lentIncentives \in [Bribes -> Nat] /\ borrowedIncentives \in [Bribes -> Nat]
      /\ balance[t] \in Nat
      /\ balance[t] + SumFunctionOnSet(Worth, claimed) = Bribed(t)
  BY DEF FundsInv, ClaimedOf
<1>2. /\ \A c \in C : Worth[c] \in Nat
      /\ SumFunctionOnSet(Worth, C) <= Bribed(t)
  BY <1>1, TokenPays
<1>3. /\ claimed \subseteq C /\ open \subseteq C
      /\ claimed \cup open = C /\ claimed \cap open = {}
  BY DEF ClaimsIn
<1>4. IsFiniteSet(claimed) /\ IsFiniteSet(open) /\ \A c \in open : due[c] = Worth[c]
  BY <1>3, ClaimsFinite, FS_Subset DEF Worth
<1>. HIDE DEF open, due, C, claimed
<1>5. SumFunctionOnSet(due, open) = SumFunctionOnSet(Worth, open)
  BY ONLY <1>4, SumSame
<1>6. SumFunctionOnSet(Worth, claimed) \in Nat /\ SumFunctionOnSet(Worth, open) \in Nat
  BY <1>2, <1>3, <1>4, SumNat
<1>7. SumFunctionOnSet(Worth, C) = SumFunctionOnSet(Worth, claimed) + SumFunctionOnSet(Worth, open)
  <2>1. \A c \in claimed \cup open : Worth[c] \in Int
    BY <1>2, <1>3
  <2>2. SumFunctionOnSet(Worth, claimed \cup open)
          = SumFunctionOnSet(Worth, claimed) + SumFunctionOnSet(Worth, open)
    BY <1>3, <1>4, <2>1, SumDisjoint
  <2>. QED
    BY <1>3, <2>2
<1>8. balance[t] >= SumFunctionOnSet(due, open)
  BY <1>1, <1>2, <1>5, <1>6, <1>7
<1>. QED
  BY <1>8 DEF open, due

(* A claim moves its worth from what is held to what was claimed.          *)
LEMMA ClaimKeepsFunds ==
  ASSUME UsageInv, FundsInv, ClaimsInv, NEW u \in Users, NEW p \in Principles,
         NEW e \in Epochs, NEW t \in BribeTokens, claimIncentives(u, p, e, t)
  PROVE  FundsInv'
<1>. DEFINE k == <<u, p, e, t>>
            amount == AmountToClaim(u, p, e, t)
            of(s) == {c \in claimedIncentives : c[4] = s}
<1>1. /\ k \notin claimedIncentives /\ claimedIncentives' = claimedIncentives \cup {k}
      /\ balance[t] >= amount /\ balance' = [balance EXCEPT ![t] = @ - amount]
      /\ UNCHANGED <<lentIncentives, borrowedIncentives, usage>>
  BY DEF claimIncentives, incentives
<1>2. /\ lentIncentives \in [Bribes -> Nat] /\ borrowedIncentives \in [Bribes -> Nat]
      /\ balance \in [BribeTokens -> Nat]
      /\ claimedIncentives \subseteq Claims
  BY DEF FundsInv, ClaimsInv
<1>3. k \in Claims /\ k[4] = t
  BY ClaimParts
<1>4. \A c \in Claims : Worth[c] \in Nat
  <2>. TAKE c \in Claims
  <2>1. c[4] \in BribeTokens /\ c \in ClaimsIn(c[4])
    BY ClaimIsTuple DEF ClaimsIn
  <2>. QED
    BY <1>2, <2>1, TokenPays
<1>5. Worth[k] = amount
  BY <1>3 DEF Worth
<1>6. amount \in Nat
  <2>. HIDE DEF k, amount
  <2>. QED
    BY <1>3, <1>4, <1>5
<1>7. Worth' = Worth /\ \A s : Bribed(s)' = Bribed(s)
  BY <1>1, SameAmount DEF Worth, Bribed, Pot, usage
<1>. HIDE DEF amount
<1>8. balance' \in [BribeTokens -> Nat] /\ balance'[t] = balance[t] - amount
  BY <1>1, <1>2, <1>6
<1>9. ASSUME NEW s \in BribeTokens
      PROVE  balance'[s] + ClaimedOf(s)' = Bribed(s)'
  <2>1. balance[s] + ClaimedOf(s) = Bribed(s) /\ balance[s] \in Nat
    BY <1>2 DEF FundsInv
  <2>2. ClaimedOf(s)' = SumFunctionOnSet(Worth, {c \in claimedIncentives' : c[4] = s})
    BY <1>7 DEF ClaimedOf
  <2>3. /\ IsFiniteSet(of(s)) /\ of(s) \subseteq Claims
        /\ k \notin of(s) /\ \A c \in of(s) : Worth[c] \in Nat
    BY <1>1, <1>2, <1>4, ClaimsFinite, FS_Subset
  <2>4. CASE s = t
    <3>1. {c \in claimedIncentives' : c[4] = s} = of(s) \cup {k}
      BY <1>1, <1>3, <2>4
    <3>2. \A c \in of(s) \cup {k} : Worth[c] \in Int
      BY <1>5, <1>6, <2>3
    <3>. HIDE DEF of, k
    <3>3. SumFunctionOnSet(Worth, of(s) \cup {k}) = Worth[k] + SumFunctionOnSet(Worth, of(s))
      BY ONLY <2>3, <3>2, SumAdd
    <3>4. ClaimedOf(s) = SumFunctionOnSet(Worth, of(s))
      BY DEF ClaimedOf, of
    <3>5. ClaimedOf(s)' = amount + ClaimedOf(s)
      BY <1>5, <2>2, <3>1, <3>3, <3>4
    <3>6. ClaimedOf(s) \in Nat
      BY <2>3, <3>4, SumNat
    <3>. QED
      BY <1>6, <1>7, <1>8, <2>1, <2>4, <3>5, <3>6
  <2>5. CASE s # t
    <3>1. {c \in claimedIncentives' : c[4] = s} = {c \in claimedIncentives : c[4] = s}
      BY <1>1, <1>3, <2>5
    <3>2. ClaimedOf(s)' = ClaimedOf(s)
      BY <2>2, <3>1 DEF ClaimedOf
    <3>3. balance'[s] = balance[s]
      BY <1>1, <1>2, <2>5
    <3>. QED
      BY <1>7, <2>1, <3>2, <3>3
  <2>. QED
    BY <2>4, <2>5
<1>. QED
  BY <1>1, <1>2, <1>8, <1>9 DEF FundsInv

(* What was claimed stays what it is while nothing is claimed.             *)
LEMMA ClaimedStays ==
  ASSUME ClaimsInv, ClaimsInv', UNCHANGED <<claimedIncentives, received>>, NEW t
  PROVE  ClaimedOf(t)' = ClaimedOf(t)
<1>. DEFINE S == {c \in claimedIncentives : c[4] = t}
<1>1. S \subseteq Claims /\ IsFiniteSet(S)
  BY ClaimsFinite, FS_Subset DEF ClaimsInv
<1>2. ASSUME NEW c \in S
      PROVE  Worth'[c] = Worth[c]
  <2>1. c \in Claims /\ c \in claimedIncentives /\ c \in claimedIncentives'
    BY <1>1
  <2>2. PICK u \in Users, p \in Principles, e \in Epochs, s \in BribeTokens :
          c = <<u, p, e, s>>
    BY <2>1 DEF Claims
  <2>3. received[<<u, p, e, s>>] = <<AmountToClaim(u, p, e, s)>>
    BY <2>1, <2>2 DEF ClaimsInv, ClaimsFinal
  <2>4. received'[<<u, p, e, s>>] = <<AmountToClaim(u, p, e, s)'>>
    BY <2>1, <2>2 DEF ClaimsInv, ClaimsFinal
  <2>5. AmountToClaim(u, p, e, s)' = AmountToClaim(u, p, e, s)
    BY <2>3, <2>4
  <2>6. Worth[c] = AmountToClaim(u, p, e, s) /\ Worth'[c] = AmountToClaim(u, p, e, s)'
    BY <2>1, <2>2 DEF Worth
  <2>. QED
    BY <2>5, <2>6
<1>3. SumFunctionOnSet(Worth', S) = SumFunctionOnSet(Worth, S)
  <2>. HIDE DEF S
  <2>. QED
    BY <1>1, <1>2, SumSame
<1>. QED
  BY <1>3 DEF ClaimedOf

(* A bribe adds to what is held what it adds to what came in.              *)
LEMMA BribeKeepsFunds ==
  ASSUME UsageInv, FundsInv, ClaimsInv, ClaimsInv', NEW p \in Principles, NEW t \in BribeTokens,
         NEW isLend \in BOOLEAN, NEW amount \in BribeAmounts, NEW e \in Epochs,
         incentivizePair(p, t, isLend, amount, e)
  PROVE  FundsInv'
<1>. DEFINE b == <<p, e, t>>
<1>1. /\ UNCHANGED <<claimedIncentives, received>>
      /\ balance' = [balance EXCEPT ![t] = @ + amount]
      /\ \/ /\ lentIncentives' = [lentIncentives EXCEPT ![b] = @ + amount]
            /\ UNCHANGED borrowedIncentives
         \/ /\ borrowedIncentives' = [borrowedIncentives EXCEPT ![b] = @ + amount]
            /\ UNCHANGED lentIncentives
  BY DEF incentivizePair
<1>2. /\ lentIncentives \in [Bribes -> Nat] /\ borrowedIncentives \in [Bribes -> Nat]
      /\ balance \in [BribeTokens -> Nat] /\ amount \in Nat /\ b \in Bribes /\ b[3] = t
  BY IncentivesAssumption DEF FundsInv, Bribes
<1>. HIDE DEF b
<1>3. /\ lentIncentives' \in [Bribes -> Nat] /\ borrowedIncentives' \in [Bribes -> Nat]
      /\ balance' \in [BribeTokens -> Nat]
  BY <1>1, <1>2
<1>4. /\ Pot[b] \in Int /\ Pot'[b] = Pot[b] + amount
      /\ \A x \in Bribes : Pot[x] \in Int
      /\ \A x \in Bribes \ {b} : Pot'[x] = Pot[x]
  <2>1. ASSUME NEW x \in Bribes
        PROVE  /\ Pot[x] = lentIncentives[x] + borrowedIncentives[x]
               /\ Pot'[x] = lentIncentives'[x] + borrowedIncentives'[x]
               /\ lentIncentives[x] \in Nat /\ borrowedIncentives[x] \in Nat
    BY <1>2 DEF Pot
  <2>2. Pot'[b] = Pot[b] + amount
    BY <1>1, <1>2, <2>1
  <2>3. \A x \in Bribes \ {b} : Pot'[x] = Pot[x]
    BY <1>1, <1>2, <2>1
  <2>. QED
    BY <1>2, <2>1, <2>2, <2>3
<1>5. ASSUME NEW s \in BribeTokens
      PROVE  balance'[s] + ClaimedOf(s)' = Bribed(s)'
  <2>. DEFINE B == {x \in Bribes : x[3] = s}
  <2>1. balance[s] + ClaimedOf(s) = Bribed(s) /\ balance[s] \in Nat
    BY <1>2 DEF FundsInv
  <2>2. ClaimedOf(s)' = ClaimedOf(s)
    BY <1>1, ClaimedStays
  <2>3. IsFiniteSet(B) /\ B \subseteq Bribes
    BY ClaimsFinite, FS_Subset
  <2>4. Bribed(s) = SumFunctionOnSet(Pot, B) /\ Bribed(s)' = SumFunctionOnSet(Pot', B)
    BY DEF Bribed
  <2>5. ClaimedOf(s) \in Int
    <3>. DEFINE S == {c \in claimedIncentives : c[4] = s}
    <3>1. S \subseteq ClaimsIn(s) /\ IsFiniteSet(S)
      BY ClaimsFinite, FS_Subset DEF ClaimsIn, ClaimsInv
    <3>2. \A c \in ClaimsIn(s) : Worth[c] \in Nat
      BY <1>2, TokenPays
    <3>. HIDE DEF S
    <3>3. SumFunctionOnSet(Worth, S) \in Nat
      BY <3>1, <3>2, SumNat
    <3>. QED
      BY <3>3 DEF ClaimedOf, S
  <2>6. CASE s = t
    <3>1. b \in B
      BY <1>2, <2>6
    <3>. HIDE DEF B
    <3>2. SumFunctionOnSet(Pot', B) = SumFunctionOnSet(Pot, B) + amount
      BY <1>2, <1>4, <2>3, <3>1, SumChange
    <3>. QED
      BY <1>1, <1>2, <2>1, <2>2, <2>4, <2>5, <2>6, <3>2
  <2>7. CASE s # t
    <3>1. \A x \in B : Pot'[x] = Pot[x]
      BY <1>2, <1>4, <2>7
    <3>. HIDE DEF B
    <3>2. SumFunctionOnSet(Pot', B) = SumFunctionOnSet(Pot, B)
      BY <2>3, <3>1, SumSame
    <3>. QED
      BY <1>1, <1>2, <2>1, <2>2, <2>4, <2>7, <3>2
  <2>. QED
    BY <2>6, <2>7
<1>. QED
  BY <1>3, <1>5 DEF FundsInv

(* What is held changes with a claim and with a bribe only.                *)
LEMMA NextFunds ==
  ASSUME UsageInv, FundsInv, ClaimsInv, ClaimsInv', [Next]_vars
  PROVE  FundsInv'
<1>1. ASSUME UNCHANGED <<incentives, claimedIncentives, received, balance>>
      PROVE  FundsInv'
  <2>1. \A t \in BribeTokens : ClaimedOf(t)' = ClaimedOf(t)
    BY <1>1, ClaimedStays
  <2>2. \A t \in BribeTokens : Bribed(t)' = Bribed(t)
    BY <1>1 DEF Bribed, Pot, incentives
  <2>. QED
    BY <1>1, <2>1, <2>2 DEF FundsInv, incentives
<1>2. ASSUME NEW u \in Users, NEW p \in Principles, NEW e \in Epochs, NEW t \in BribeTokens,
             claimIncentives(u, p, e, t)
      PROVE  FundsInv'
  BY <1>2, ClaimKeepsFunds
<1>3. ASSUME NEW p \in Principles, NEW t \in BribeTokens, NEW isLend \in BOOLEAN,
             NEW amount \in BribeAmounts, NEW e \in Epochs, incentivizePair(p, t, isLend, amount, e)
      PROVE  FundsInv'
  BY <1>3, BribeKeepsFunds
<1>4. ASSUME NEW offers, NEW c, NEW borrower, updateFunds(offers, c, borrower)
      PROVE  FundsInv'
  BY <1>1, <1>4 DEF updateFunds
<1>5. ASSUME NEW p, NEW c, NEW whitelist, whitelListCollateral(p, c, whitelist)
      PROVE  FundsInv'
  BY <1>1, <1>5 DEF whitelListCollateral
<1>6. ASSUME NEW p, deprecatePrinciple(p)
      PROVE  FundsInv'
  BY <1>1, <1>6 DEF deprecatePrinciple
<1>7. CASE Tick
  BY <1>1, <1>7 DEF Tick
<1>8. CASE UNCHANGED vars
  BY <1>1, <1>8 DEF vars
<1>. QED
  BY <1>2, <1>3, <1>4, <1>5, <1>6, <1>7, <1>8 DEF Next

(* Nothing came in, nothing was claimed.                                   *)
LEMMA InitFunds == Init => FundsInv
<1>. SUFFICES ASSUME Init PROVE FundsInv
  OBVIOUS
<1>1. ASSUME NEW t \in BribeTokens
      PROVE  balance[t] + ClaimedOf(t) = Bribed(t)
  <2>. DEFINE S == {c \in claimedIncentives : c[4] = t}
              B == {b \in Bribes : b[3] = t}
  <2>1. S = {} /\ balance[t] = 0
    BY DEF Init
  <2>2. IsFiniteSet(B) /\ \A b \in B : Pot[b] = 0
    BY ClaimsFinite, FS_Subset DEF Init, Pot
  <2>. HIDE DEF S, B
  <2>3. SumFunctionOnSet(Worth, S) = 0
    BY <2>1, SumEmpty
  <2>4. SumFunctionOnSet(Pot, B) = 0
    BY <2>2, SumZero
  <2>. QED
    BY <2>1, <2>3, <2>4 DEF ClaimedOf, Bribed, S, B
<1>. QED
  BY <1>1 DEF Init, FundsInv

(* The contract can pay every claim that is still to be made, of every     *)
(* user in every epoch, from what it holds in that token.                  *)
THEOREM IncentivesAlwaysCovered == Spec => []IncentivesCovered
<1>. DEFINE All == UsageInv /\ FundsInv /\ ClaimsInv
<1>1. Init => All
  <2>1. Init => ClaimsInv
    BY DEF Init, ClaimsInv, ClaimsFinal, Claims
  <2>. QED
    BY <2>1, InitUsage, InitFunds
<1>2. All /\ [Next]_vars => All'
  BY NextUsage, NextFunds, NextClaims
<1>3. All => IncentivesCovered
  BY FundsCover DEF ClaimsInv
<1>. QED
  BY <1>1, <1>2, <1>3, PTL DEF Spec

-----------------------------------------------------------------------------
(* The list of bribes                                                      *)

(* A bribe of p lists p, unless it is listed; the bribe is listed under p, *)
(* unless its token is listed, whatever principle it is listed under.      *)
LEMMA BribeKeepsList ==
  ASSUME ListInv, NEW p \in Principles, NEW t \in BribeTokens, NEW isLend \in BOOLEAN,
         NEW amount \in BribeAmounts, NEW e \in Epochs,
         incentivizePair(p, t, isLend, amount, e)
  PROVE  ListInv'
<1>. DEFINE b == <<p, e, t>>
            Bribes2(q, d, s) == lentIncentives[<<q, d, s>>] + borrowedIncentives[<<q, d, s>>] > 0
            list(d) == epochIndexToPrinciple[d]
<1>1. /\ IndexPrinciple(p, e) /\ IndexBribe(p, e, t) /\ amount > 0
      /\ \/ /\ lentIncentives' = [lentIncentives EXCEPT ![b] = @ + amount]
            /\ UNCHANGED borrowedIncentives
         \/ /\ borrowedIncentives' = [borrowedIncentives EXCEPT ![b] = @ + amount]
            /\ UNCHANGED lentIncentives
  BY DEF incentivizePair
<1>2. /\ lentIncentives \in [Bribes -> Nat] /\ borrowedIncentives \in [Bribes -> Nat]
      /\ amount \in Nat /\ b \in Bribes
      /\ epochIndexToPrinciple \in [Epochs -> Seq(Principles)]
      /\ specificBribe \in [Epochs \X Principles \X {0, 1} -> BribeTokens \cup {NoToken}]
  BY IncentivesAssumption DEF ListInv, Bribes
<1>3. lentIncentives' \in [Bribes -> Nat] /\ borrowedIncentives' \in [Bribes -> Nat]
  <2>1. /\ lentIncentives \in [Bribes -> Nat] /\ borrowedIncentives \in [Bribes -> Nat]
        /\ amount \in Nat /\ b \in Bribes
    BY <1>2
  <2>2. \/ /\ lentIncentives' = [lentIncentives EXCEPT ![b] = @ + amount]
           /\ UNCHANGED borrowedIncentives
        \/ /\ borrowedIncentives' = [borrowedIncentives EXCEPT ![b] = @ + amount]
           /\ UNCHANGED lentIncentives
    BY <1>1
  <2>. HIDE DEF b
  <2>. QED
    BY <2>1, <2>2
<1>4. ASSUME NEW q \in Principles, NEW d \in Epochs, NEW s \in BribeTokens
      PROVE  Bribes2(q, d, s)' <=> Bribes2(q, d, s) \/ <<q, d, s>> = b
  <2>. DEFINE x == <<q, d, s>>
  <2>1. /\ lentIncentives[x] \in Nat /\ borrowedIncentives[x] \in Nat
        /\ lentIncentives[b] \in Nat /\ borrowedIncentives[b] \in Nat
    BY <1>2 DEF Bribes
  <2>2. CASE x = b
    <3>1. \/ /\ lentIncentives'[x] = lentIncentives[b] + amount
             /\ borrowedIncentives'[x] = borrowedIncentives[b]
          \/ /\ lentIncentives'[x] = lentIncentives[b]
             /\ borrowedIncentives'[x] = borrowedIncentives[b] + amount
      BY <1>1, <1>2, <2>2
    <3>. HIDE DEF x, b
    <3>2. lentIncentives'[x] + borrowedIncentives'[x] > 0
      BY <1>1, <1>2, <2>1, <3>1
    <3>. QED
      BY <2>2, <3>2 DEF x
  <2>3. CASE x # b
    <3>1. x \in Bribes
      BY DEF Bribes
    <3>. HIDE DEF x, b
    <3>2. lentIncentives'[x] = lentIncentives[x] /\ borrowedIncentives'[x] = borrowedIncentives[x]
      BY <1>1, <1>2, <2>3, <3>1
    <3>. QED
      BY <2>3, <3>2 DEF x
  <2>. QED
    BY <2>2, <2>3
<1>5. epochIndexToPrinciple' \in [Epochs -> Seq(Principles)]
  BY <1>1, <1>2 DEF IndexPrinciple
<1>6. specificBribe' \in [Epochs \X Principles \X {0, 1} -> BribeTokens \cup {NoToken}]
  BY <1>1, <1>2 DEF IndexBribe
<1>7. ASSUME NEW d \in Epochs, NEW q \in Principles, NEW i \in {0, 1}, NEW s \in BribeTokens,
             specificBribe'[<<d, q, i>>] = s
      PROVE  Bribes2(q, d, s)'
  <2>1. specificBribe[<<d, q, i>>] = s => Bribes2(q, d, s)
    BY DEF ListInv
  <2>2. \/ specificBribe'[<<d, q, i>>] = specificBribe[<<d, q, i>>]
        \/ d = e /\ q = p /\ s = t
    BY <1>1, <1>2, <1>7 DEF IndexBribe
  <2>. HIDE DEF Bribes2
  <2>. QED
    BY <1>4, <1>7, <2>1, <2>2
<1>8. ASSUME NEW d \in Epochs
      PROVE  /\ IsInjective(list(d)')
             /\ \A q \in Principles :
                  Contains(list(d)', q) <=> Contains(list(d), q) \/ (q = p /\ d = e)
  <2>1. list(d) \in Seq(Principles) /\ IsInjective(list(d))
    BY <1>2 DEF ListInv, ListedTruthfully
  <2>2. CASE d # e \/ Contains(list(d), p)
    <3>1. list(d)' = list(d)
      BY <1>1, <1>2, <2>2 DEF IndexPrinciple
    <3>. QED
      BY <2>1, <2>2, <3>1
  <2>3. CASE d = e /\ ~Contains(list(d), p)
    <3>1. list(d)' = Append(list(d), p)
      BY <1>1, <1>2, <2>3 DEF IndexPrinciple
    <3>. DEFINE l == list(d)
    <3>2. /\ l \in Seq(Principles) /\ IsInjective(l) /\ ~Contains(l, p)
      BY <2>1, <2>3
    <3>. HIDE DEF l
    <3>3. IsInjective(Append(l, p))
      BY <3>2 DEF IsInjective, Contains
    <3>4. \A q \in Principles : Contains(Append(l, p), q) <=> Contains(l, q) \/ q = p
      BY <3>2 DEF Contains
    <3>. QED
      BY <2>3, <3>1, <3>3, <3>4 DEF l
  <2>. QED
    BY <2>2, <2>3
<1>9. ListedTruthfully'
  <2>. SUFFICES ASSUME NEW d \in Epochs
                PROVE  /\ IsInjective(list(d)')
                       /\ \A q \in Principles :
                            Contains(list(d)', q) <=> \E s \in BribeTokens : Bribes2(q, d, s)'
                       /\ \A q \in Principles, s \in BribeTokens, i \in 0 .. 1 :
                            specificBribe'[<<d, q, i>>] = s => Bribes2(q, d, s)'
    BY DEF ListedTruthfully
  <2>1. \A q \in Principles : Contains(list(d), q) <=> \E s \in BribeTokens : Bribes2(q, d, s)
    BY DEF ListInv, ListedTruthfully
  <2>2. \A q \in Principles, s \in BribeTokens, i \in 0 .. 1 :
          specificBribe'[<<d, q, i>>] = s => Bribes2(q, d, s)'
    <3>1. 0 .. 1 = {0, 1}
      OBVIOUS
    <3>. HIDE DEF Bribes2
    <3>. QED
      BY <1>7, <3>1
  <2>3. ASSUME NEW q \in Principles
        PROVE  Contains(list(d)', q) <=> \E s \in BribeTokens : Bribes2(q, d, s)'
    <3>1. \A s \in BribeTokens : Bribes2(q, d, s)' <=> Bribes2(q, d, s) \/ (q = p /\ d = e /\ s = t)
      BY <1>4
    <3>2. Contains(list(d)', q) <=> Contains(list(d), q) \/ (q = p /\ d = e)
      BY <1>8
    <3>3. Contains(list(d), q) <=> \E s \in BribeTokens : Bribes2(q, d, s)
      BY <2>1
    <3>. HIDE DEF Bribes2, list
    <3>. QED
      BY <3>1, <3>2, <3>3
  <2>. QED
    BY <1>8, <2>2, <2>3
<1>. QED
  BY <1>3, <1>5, <1>6, <1>7, <1>9 DEF ListInv

(* Only a bribe changes what is listed.                                    *)
LEMMA NextList == ListInv /\ [Next]_vars => ListInv'
<1>. SUFFICES ASSUME ListInv, [Next]_vars PROVE ListInv'
  OBVIOUS
<1>1. ASSUME UNCHANGED <<incentives, listing>> PROVE ListInv'
  BY <1>1 DEF ListInv, ListedTruthfully, bribeCount, incentives, listing
<1>2. ASSUME NEW p \in Principles, NEW t \in BribeTokens, NEW isLend \in BOOLEAN,
             NEW amount \in BribeAmounts, NEW e \in Epochs, incentivizePair(p, t, isLend, amount, e)
      PROVE  ListInv'
  BY <1>2, BribeKeepsList
<1>3. ASSUME NEW u, NEW p, NEW e, NEW t, claimIncentives(u, p, e, t)
      PROVE  ListInv'
  BY <1>1, <1>3 DEF claimIncentives
<1>4. ASSUME NEW offers, NEW c, NEW borrower, updateFunds(offers, c, borrower)
      PROVE  ListInv'
  BY <1>1, <1>4 DEF updateFunds
<1>5. ASSUME NEW p, NEW c, NEW whitelist, whitelListCollateral(p, c, whitelist)
      PROVE  ListInv'
  BY <1>1, <1>5 DEF whitelListCollateral
<1>6. ASSUME NEW p, deprecatePrinciple(p)
      PROVE  ListInv'
  BY <1>1, <1>6 DEF deprecatePrinciple
<1>7. CASE Tick
  BY <1>1, <1>7 DEF Tick
<1>8. CASE UNCHANGED vars
  BY <1>1, <1>8 DEF vars
<1>. QED
  BY <1>2, <1>3, <1>4, <1>5, <1>6, <1>7, <1>8 DEF Next

(* The lists name the bribed principles of an epoch, each once, and under  *)
(* each of them nothing but bribes of its own.                             *)
THEOREM AlwaysListedTruthfully == Spec => []ListedTruthfully
<1>1. Init => ListInv
  <2>. SUFFICES ASSUME Init PROVE ListInv
    OBVIOUS
  <2>1. \A e \in Epochs, p \in Principles, i \in {0, 1}, t \in BribeTokens :
          specificBribe[<<e, p, i>>] # t
    BY IncentivesAssumption DEF Init
  <2>2. \A e \in Epochs, p \in Principles, t \in BribeTokens :
          lentIncentives[<<p, e, t>>] = 0 /\ borrowedIncentives[<<p, e, t>>] = 0
    BY DEF Init, Bribes
  <2>3. \A e \in Epochs, p \in Principles :
          ~Contains(epochIndexToPrinciple[e], p)
    BY DEF Init, Contains
  <2>4. \A e \in Epochs, p \in Principles, t \in BribeTokens :
          ~(lentIncentives[<<p, e, t>>] + borrowedIncentives[<<p, e, t>>] > 0)
    <3>. TAKE e \in Epochs, p \in Principles, t \in BribeTokens
    <3>. DEFINE x == <<p, e, t>>
    <3>1. lentIncentives[x] = 0 /\ borrowedIncentives[x] = 0
      BY <2>2
    <3>. HIDE DEF x
    <3>2. ~(lentIncentives[x] + borrowedIncentives[x] > 0)
      BY <3>1
    <3>. QED
      BY <3>2 DEF x
  <2>5. \A e \in Epochs : IsInjective(epochIndexToPrinciple[e])
    BY DEF Init, IsInjective
  <2>6. 0 .. 1 = {0, 1}
    OBVIOUS
  <2>7. ListedTruthfully
    BY <2>1, <2>3, <2>4, <2>5, <2>6, Zenon DEF ListedTruthfully
  <2>. QED
    BY <2>1, <2>7 DEF ListInv, Init
<1>2. ListInv => ListedTruthfully
  BY DEF ListInv
<1>. QED
  BY <1>1, <1>2, NextList, PTL DEF Spec
=============================================================================
