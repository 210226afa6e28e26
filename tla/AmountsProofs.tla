---------------------------- MODULE AmountsProofs ----------------------------
(***************************************************************************)
(* Proofs about Amounts, for integers and columns of any width, any number *)
(* of products and request lines of any length.                            *)
(*                                                                         *)
(* Nothing is claimed of what a wrapped number is worth.  The invariant    *)
(* says what has been merged, charged and stored while the amounts fit:    *)
(* what is done and what is left add up to what the client asked for       *)
(* (MergedExactly, ChargedExactly), and since both parts are natural       *)
(* numbers neither of them can leave the range.                            *)
(***************************************************************************)
EXTENDS Amounts, SumProofs

\* A line of the request.
Line == [product : Products, quantity : Asked]

\* The quantity each line of s asks for of p.
Parts(s, p) == [i \in DOMAIN s |-> IF s[i].product = p THEN s[i].quantity ELSE 0]

\* What the products that are not checked yet will cost.
CostsLeft == [p \in Products |-> IF p \in checked THEN 0 ELSE price[p] * asked[p]]

AmountsTypeOK ==
    /\ request \in Seq(Line)
    /\ asked \in [Products -> Nat]
    /\ price \in [Products -> Nat]
    /\ stock \in [Products -> Nat]
    /\ quantities \in [Products -> Int]
    /\ checked \subseteq Products
    /\ totalAmount \in Int
    /\ placed \in [Products -> Nat]
    /\ stage \in {"merge", "check", "insert", "placed", "refused"}

\* What has been merged of a product and what is left make up what was asked
\* for, so neither part can leave the range while the whole is in it.
MergedExactly ==
    \A p \in Products :
        asked[p] <= MaxInt =>
            /\ quantities[p] >= 0
            /\ quantities[p] + SumOver(Parts(request, p)) = asked[p]

\* What ExactWhenItFits supposes: each quantity and the cost fit 64 bits.
Fits == (\A p \in Products : asked[p] <= MaxInt) /\ TrueCost <= MaxInt

\* The same of the cost of the products, checked or still to be checked.
ChargedExactly ==
    Fits => totalAmount >= 0 /\ totalAmount + SumOver(CostsLeft) = TrueCost

\* Lines are stored last, with the merged quantities.
PlacedAsMerged ==
    /\ stage \in {"merge", "check"} => \A p \in Products : placed[p] = 0
    /\ \A p \in Products : placed[p] # 0 => p \in InRequest /\ placed[p] = quantities[p]

AmountsInv ==
    /\ AmountsTypeOK
    /\ stage \in {"check", "insert", "placed"} => request = <<>>
    /\ stage \in {"insert", "placed"} => checked = InRequest
    /\ stage = "placed" => \A p \in InRequest : placed[p] # 0
    /\ MergedExactly
    /\ ChargedExactly
    /\ PlacedAsMerged

-----------------------------------------------------------------------------
(* Sums.                                                                   *)

\* The sum of Amounts is the one SumProofs is about.
LEMMA TotalIsSum == \A f : Total(f) = SumOver(f)
  BY DEF Total, SumOver

\* The parts of p can be summed.
LEMMA PartsType ==
    ASSUME NEW s \in Seq(Line), NEW p
    PROVE  Parts(s, p) \in [1..Len(s) -> Nat] /\ IsFiniteSet(1..Len(s))
<1>1. Len(s) \in Nat /\ DOMAIN s = 1..Len(s)
  OBVIOUS
<1>2. \A i \in 1..Len(s) : s[i] \in Line
  OBVIOUS
<1>3. \A i \in 1..Len(s) : s[i].quantity \in Nat
  <2>1. \A a \in Asked : a \in Nat
    BY WidthAssumption
  <2> QED
    BY <1>2, <2>1 DEF Line
<1>4. IsFiniteSet(1..Len(s))
  BY <1>1, FS_Interval
<1> QED
  BY <1>1, <1>3, <1>4 DEF Parts

\* g has the values of f but for the first, which is 0.
IsRestOf(g, f, n) ==
    /\ f \in [1..n -> Nat] /\ g \in [1..(n - 1) -> Nat]
    /\ f[1] = 0
    /\ \A i \in 2..n : g[i - 1] = f[i]

\* Shifting the values of a sequence leaves their sum as it is.
LEMMA SumShifted ==
    ASSUME NEW n \in Nat \ {0}, NEW f, NEW g, IsRestOf(g, f, n)
    PROVE  SumOver(f) = SumOver(g)
<1> DEFINE S == 1..n
           T == 1..(n - 1)
           D == 2..n
           m == [x \in D |-> x - 1]
<1>1. D \in SUBSET S /\ m \in [D -> T]
  OBVIOUS
<1>2. \A x, y \in D : x # y => m[x] # m[y]
  OBVIOUS
<1>3. \A x \in D : g[m[x]] = f[x]
  BY DEF IsRestOf
<1>4. \A x \in S \ D : f[x] = 0
  BY DEF IsRestOf
<1>5. \A y \in T : (\A x \in D : y # m[x]) => g[y] = 0
  <2>1. \A y \in T : y + 1 \in D /\ m[y + 1] = y
    OBVIOUS
  <2> QED
    BY <2>1
<1>6. f \in [S -> Nat] /\ g \in [T -> Nat]
  BY DEF IsRestOf
<1>7. IsFiniteSet(S) /\ IsFiniteSet(T)
  <2>1. 1 \in Int /\ n \in Int /\ n - 1 \in Int
    OBVIOUS
  <2> QED
    BY <2>1, FS_Interval
<1> HIDE DEF D, m, S, T
<1> QED
  BY <1>1, <1>2, <1>3, <1>4, <1>5, <1>6, <1>7, SumReindexed

\* What the first line asks for and what the others do add up.
LEMMA HeadAndTail ==
    ASSUME NEW s \in Seq(Line), s # <<>>, NEW p
    PROVE  /\ Head(s) \in Line /\ Tail(s) \in Seq(Line)
           /\ SumOver(Parts(Tail(s), p)) \in Nat
           /\ SumOver(Parts(s, p)) =
                 (IF Head(s).product = p THEN Head(s).quantity ELSE 0)
                     + SumOver(Parts(Tail(s), p))
<1> DEFINE n == Len(s)
           f == Parts(s, p)
           g == Parts(Tail(s), p)
           rest == [i \in 1..n |-> IF i = 1 THEN 0 ELSE f[i]]
<1>1. n \in Nat \ {0} /\ Head(s) = s[1] /\ Head(s) \in Line /\ Tail(s) \in Seq(Line)
      /\ Len(Tail(s)) = n - 1 /\ \A i \in 2..n : Tail(s)[i - 1] = s[i]
  OBVIOUS
<1>2. /\ f \in [1..n -> Nat] /\ IsFiniteSet(1..n)
      /\ g \in [1..(n - 1) -> Nat] /\ IsFiniteSet(1..(n - 1))
  BY <1>1, PartsType
<1>3. rest \in [1..n -> Nat] /\ rest[1] = 0 /\ \A i \in (1..n) \ {1} : f[i] = rest[i]
  BY <1>1, <1>2
<1>4. f[1] = IF Head(s).product = p THEN Head(s).quantity ELSE 0
  BY <1>1 DEF Parts
<1>5. IsRestOf(g, rest, n)
  <2>1. ASSUME NEW i \in 2..n PROVE g[i - 1] = rest[i]
    <3>1. i - 1 \in DOMAIN Tail(s) /\ i \in DOMAIN s /\ Tail(s)[i - 1] = s[i] /\ i # 1
      BY <1>1
    <3>2. i \in 1..n
      BY <1>1
    <3> QED
      BY <3>1, <3>2 DEF Parts
  <2> QED
    BY <1>2, <1>3, <2>1 DEF IsRestOf
<1> HIDE DEF f, g, rest, n
<1>6. SumOver(rest) = SumOver(g)
  BY <1>1, <1>5, SumShifted
<1>7. 1 \in 1..n
  BY <1>1
<1>8. SumOver(rest) + f[1] = SumOver(f) + rest[1]
  <2> DEFINE S == 1..n
  <2>1. /\ f \in [S -> Nat] /\ rest \in [S -> Nat] /\ IsFiniteSet(S)
        /\ 1 \in S /\ \A i \in S \ {1} : f[i] = rest[i]
    BY <1>2, <1>3, <1>7
  <2> HIDE DEF S
  <2> QED
    BY <2>1, SumOfChange
<1>9. SumOver(f) \in Nat /\ SumOver(g) \in Nat /\ f[1] \in Nat
  BY <1>2, <1>7, SumInNat
<1>10. SumOver(f) = f[1] + SumOver(g)
  BY <1>3, <1>6, <1>8, <1>9
<1> QED
  BY <1>1, <1>4, <1>9, <1>10 DEF f, g

\* With no lines left nothing is left to merge.
LEMMA NoPartsLeft == \A p : SumOver(Parts(<<>>, p)) = 0
<1> TAKE p
<1>1. <<>> \in Seq(Line) /\ Len(<<>>) = 0
  OBVIOUS
<1>2. Parts(<<>>, p) \in [1..0 -> Nat] /\ IsFiniteSet(1..0)
  BY <1>1, PartsType
<1> QED
  BY <1>2, SumOfZeros

\* A number that fits is left as it is, any other comes to fit.
LEMMA WrapFits ==
    /\ \A n \in 0..MaxInt : Wrap(n) = n
    /\ \A n \in Int : Wrap(n) \in Int
<1> DEFINE B == MaxInt + 1
<1>1. B \in Nat \ {0}
  BY WidthAssumption
<1>2. \A n \in 0..MaxInt : n \in 0..(B - 1)
  BY WidthAssumption
<1>3. \A n \in Int : Wrap(n) = ((n + B) % (2 * B)) - B
  BY WidthAssumption DEF Wrap
<1> HIDE DEF B
<1>4. \A n \in 0..(B - 1) : ((n + B) % (2 * B)) - B = n
  BY <1>1
<1>5. \A n \in Int : ((n + B) % (2 * B)) - B \in Int
  BY <1>1
<1> QED
  BY <1>2, <1>3, <1>4, <1>5, WidthAssumption

\* What is left to charge, and all there is to charge, can be summed.
LEMMA CostsType ==
    ASSUME AmountsTypeOK
    PROVE  /\ CostsLeft \in [Products -> Nat]
           /\ SumOver(CostsLeft) \in Nat
           /\ TrueCost \in Nat
<1> DEFINE costs == [p \in Products |-> price[p] * asked[p]]
<1>1. \A p \in Products : price[p] \in Nat /\ asked[p] \in Nat
  BY DEF AmountsTypeOK
<1>2. \A a, b \in Nat : a * b \in Nat
  OBVIOUS
<1>3. costs \in [Products -> Nat] /\ CostsLeft \in [Products -> Nat]
  BY <1>1, <1>2 DEF CostsLeft
<1>4. TrueCost = SumOver(costs)
  BY TotalIsSum DEF TrueCost
<1> HIDE DEF costs
<1> QED
  BY <1>3, <1>4, SumInNat, WidthAssumption

-----------------------------------------------------------------------------
(* The invariant.                                                          *)

\* Nothing is merged, charged or stored at the start.
LEMMA InitAmounts == AmountsInit => AmountsInv
<1> SUFFICES ASSUME AmountsInit PROVE AmountsInv
  OBVIOUS
<1>1. request \in Seq(Line)
  <2>1. PICK n \in 1..MaxLines : request \in [1..n -> Line]
    BY DEF AmountsInit, Requests, Line
  <2>2. n \in Nat
    BY <2>1, WidthAssumption
  <2> QED
    BY <2>1, <2>2
<1>2. \A p \in Products : asked[p] = SumOver(Parts(request, p))
  BY TotalIsSum DEF AmountsInit, Parts
<1>3. \A p \in Products : SumOver(Parts(request, p)) \in Nat
  BY <1>1, PartsType, SumInNat
<1>4. asked \in [Products -> Nat]
  BY <1>2, <1>3 DEF AmountsInit
<1>5. AmountsTypeOK
  <2>1. (\A n \in Prices : n \in Nat) /\ (\A n \in Stocks : n \in Nat)
    BY WidthAssumption
  <2> QED
    BY <1>1, <1>4, <2>1 DEF AmountsInit, AmountsTypeOK
<1>6. MergedExactly
  BY <1>2, <1>3 DEF MergedExactly, AmountsInit
<1>7. ChargedExactly
  <2>1. CostsLeft = [p \in Products |-> price[p] * asked[p]]
    BY DEF CostsLeft, AmountsInit
  <2>2. SumOver(CostsLeft) = TrueCost
    BY <2>1, TotalIsSum DEF TrueCost
  <2> QED
    BY <1>5, <2>2, CostsType DEF ChargedExactly, AmountsInit
<1> QED
  BY <1>5, <1>6, <1>7 DEF AmountsInv, PlacedAsMerged, AmountsInit

\* quantities[item.ProductID] += item.Quantity
LEMMA MergeKeeps ==
    ASSUME AmountsInv, Merge
    PROVE  AmountsInv'
<1> DEFINE h == Head(request)
<1>1. AmountsTypeOK /\ stage = "merge" /\ request # <<>> /\ request' = Tail(request)
      /\ UNCHANGED <<asked, price, stock, checked, totalAmount, placed, stage>>
  BY DEF AmountsInv, Merge
<1>2. h \in Line /\ Tail(request) \in Seq(Line)
  BY <1>1, HeadAndTail DEF AmountsTypeOK
<1>3. h.product \in Products /\ h.quantity \in Nat
  <2>1. \A a \in Asked : a \in Nat
    BY WidthAssumption
  <2> QED
    BY <1>2, <2>1 DEF Line
<1>4. quantities' = [quantities EXCEPT ![h.product] = Wrap(@ + h.quantity)]
  BY DEF Merge
<1>5. quantities' \in [Products -> Int]
  <2>1. quantities[h.product] + h.quantity \in Int
    BY <1>1, <1>3 DEF AmountsTypeOK
  <2> QED
    BY <1>1, <1>4, <2>1, WrapFits DEF AmountsTypeOK
<1>6. AmountsTypeOK'
  BY <1>1, <1>2, <1>5 DEF AmountsTypeOK
<1>7. ASSUME NEW p \in Products, asked[p] <= MaxInt
      PROVE  /\ quantities'[p] >= 0
             /\ quantities'[p] + SumOver(Parts(request', p)) = asked[p]
  <2> DEFINE left == SumOver(Parts(Tail(request), p))
             now  == IF h.product = p THEN h.quantity ELSE 0
  <2>1. left \in Nat /\ SumOver(Parts(request, p)) = now + left
    BY <1>1, HeadAndTail DEF AmountsTypeOK
  <2>2. now \in Nat /\ quantities[p] \in Int /\ asked[p] \in Nat
    BY <1>1, <1>3 DEF AmountsTypeOK
  <2>3. quantities[p] >= 0 /\ quantities[p] + (now + left) = asked[p]
    BY <1>7, <2>1 DEF AmountsInv, MergedExactly
  <2>4. quantities[p] + now \in 0..MaxInt
    <3> HIDE DEF left, now
    <3> QED
      BY <1>7, <2>1, <2>2, <2>3, WidthAssumption
  <2>5. quantities'[p] = quantities[p] + now
    <3>1. CASE h.product = p
      BY <1>1, <1>3, <1>4, <2>4, <3>1, WrapFits DEF AmountsTypeOK
    <3>2. CASE h.product # p
      BY <1>1, <1>3, <1>4, <2>2, <3>2 DEF AmountsTypeOK
    <3> QED
      BY <3>1, <3>2
  <2> HIDE DEF left, now
  <2>6. quantities'[p] >= 0 /\ quantities'[p] + left = asked[p]
    BY <2>1, <2>2, <2>3, <2>4, <2>5
  <2> QED
    BY <1>1, <2>6 DEF left
<1>8. MergedExactly'
  BY <1>1, <1>7 DEF MergedExactly
<1>9. ChargedExactly'
  <2>1. ChargedExactly
    BY DEF AmountsInv
  <2>2. TrueCost' = TrueCost /\ CostsLeft' = CostsLeft
    BY <1>1 DEF TrueCost, CostsLeft
  <2> QED
    BY <1>1, <2>1, <2>2 DEF ChargedExactly, Fits
<1>10. PlacedAsMerged'
  BY <1>1 DEF AmountsInv, PlacedAsMerged
<1> QED
  BY <1>1, <1>6, <1>8, <1>9, <1>10 DEF AmountsInv

\* The step to the stock check, to the INSERTs, and every refusal before an
\* INSERT change the stage only.
LEMMA StageKeeps ==
    ASSUME AmountsInv, Merged \/ InsufficientStock \/ Checked \/ Inserted
    PROVE  AmountsInv'
<1>1. /\ AmountsTypeOK /\ MergedExactly /\ ChargedExactly /\ PlacedAsMerged
      /\ UNCHANGED <<request, asked, price, stock, quantities, checked, totalAmount, placed>>
  BY DEF AmountsInv, Merged, InsufficientStock, Checked, Inserted
<1>2. stage' \in {"check", "insert", "placed", "refused"}
  BY DEF Merged, InsufficientStock, Checked, Inserted
<1>3. AmountsTypeOK'
  BY <1>1, <1>2 DEF AmountsTypeOK
<1>4. MergedExactly'
  BY <1>1 DEF MergedExactly
<1>5. ChargedExactly'
  <2>1. TrueCost' = TrueCost /\ CostsLeft' = CostsLeft
    BY <1>1 DEF TrueCost, CostsLeft
  <2> QED
    BY <1>1, <2>1 DEF ChargedExactly, Fits
<1>6. InRequest' = InRequest
  BY <1>1 DEF InRequest
<1>7. PlacedAsMerged'
  <2>1. stage' = "check" => stage = "merge"
    BY DEF Merged, InsufficientStock, Checked, Inserted
  <2> QED
    BY <1>1, <1>2, <1>6, <2>1 DEF PlacedAsMerged
<1>8. /\ stage' \in {"check", "insert", "placed"} => request' = <<>>
      /\ stage' \in {"insert", "placed"} => checked' = InRequest
      /\ stage' = "placed" => \A p \in InRequest : placed'[p] # 0
  BY <1>1 DEF AmountsInv, Merged, InsufficientStock, Checked, Inserted
<1> QED
  BY <1>3, <1>4, <1>5, <1>6, <1>7, <1>8 DEF AmountsInv

\* totalAmount += Price * int64(quantity): if the cost fits so does every
\* part of it.
LEMMA CheckKeeps ==
    ASSUME AmountsInv, NEW p \in Products, Check(p)
    PROVE  AmountsInv'
<1> DEFINE cost == price[p] * quantities[p]
<1>1. /\ AmountsTypeOK /\ MergedExactly /\ ChargedExactly /\ PlacedAsMerged
      /\ stage = "check" /\ request = <<>> /\ p \notin checked
      /\ totalAmount' = Wrap(totalAmount + Wrap(cost))
      /\ checked' = checked \cup {p}
      /\ UNCHANGED <<request, asked, price, stock, quantities, placed, stage>>
  BY DEF AmountsInv, Check
<1>2. totalAmount' \in Int
  <2>1. price[p] \in Int /\ quantities[p] \in Int /\ totalAmount \in Int
    BY <1>1 DEF AmountsTypeOK
  <2>2. \A a, b \in Int : a * b \in Int /\ a + b \in Int
    OBVIOUS
  <2> QED
    BY <1>1, <2>1, <2>2, WrapFits
<1>3. AmountsTypeOK'
  BY <1>1, <1>2 DEF AmountsTypeOK
<1>4. MergedExactly'
  BY <1>1 DEF MergedExactly
<1>5. ChargedExactly'
  <2>1. TrueCost' = TrueCost /\ Fits' = Fits
    BY <1>1 DEF TrueCost, Fits
  <2>2. SUFFICES ASSUME Fits
                 PROVE  totalAmount' >= 0 /\ totalAmount' + SumOver(CostsLeft)' = TrueCost
    BY <2>1 DEF ChargedExactly
  <2>3. quantities[p] = asked[p]
    <3>1. SumOver(Parts(request, p)) = 0
      BY <1>1, NoPartsLeft
    <3>2. quantities[p] \in Int /\ quantities[p] + SumOver(Parts(request, p)) = asked[p]
      BY <1>1, <2>2 DEF MergedExactly, Fits, AmountsTypeOK
    <3> QED
      BY <3>1, <3>2
  <2>4. CostsLeft \in [Products -> Nat] /\ SumOver(CostsLeft) \in Nat /\ TrueCost \in Nat
    BY <1>1, CostsType
  <2>5. /\ CostsLeft[p] = cost /\ CostsLeft'[p] = 0
        /\ \A q \in Products \ {p} : CostsLeft'[q] = CostsLeft[q]
        /\ CostsLeft' \in [Products -> Nat]
    <3>1. /\ CostsLeft[p] = cost /\ CostsLeft'[p] = 0
          /\ \A q \in Products \ {p} : CostsLeft'[q] = CostsLeft[q]
      BY <1>1, <2>3 DEF CostsLeft
    <3>2. \A q \in Products : CostsLeft'[q] \in Nat
      BY <2>4, <3>1
    <3>3. CostsLeft' = [q \in Products |-> CostsLeft'[q]]
      BY DEF CostsLeft
    <3> QED
      BY <3>1, <3>2, <3>3
  <2>6. SumOver(CostsLeft)' = SumOver(CostsLeft') /\ SumOver(CostsLeft') \in Nat
    BY <2>5, SumInNat, WidthAssumption
  <2>7. SumOver(CostsLeft') + CostsLeft[p] = SumOver(CostsLeft) + CostsLeft'[p]
    BY <2>4, <2>5, SumOfChange, WidthAssumption
  <2>8. cost \in Nat /\ SumOver(CostsLeft) = cost + SumOver(CostsLeft')
    <3>1. cost \in Nat
      BY <2>4, <2>5
    <3> HIDE DEF cost
    <3> QED
      BY <2>4, <2>5, <2>6, <2>7, <3>1
  <2>9. totalAmount \in Nat /\ totalAmount + SumOver(CostsLeft) = TrueCost /\ TrueCost <= MaxInt
    BY <1>1, <2>2 DEF ChargedExactly, Fits, AmountsTypeOK
  <2> HIDE DEF cost
  <2>10. cost \in 0..MaxInt /\ totalAmount + cost \in 0..MaxInt
    BY <2>4, <2>6, <2>8, <2>9, WidthAssumption
  <2>11. totalAmount' = totalAmount + cost
    BY <1>1, <2>10, WrapFits
  <2> QED
    BY <2>4, <2>6, <2>8, <2>9, <2>11
<1>6. PlacedAsMerged' /\ InRequest' = InRequest
  BY <1>1 DEF PlacedAsMerged, InRequest
<1> QED
  BY <1>1, <1>3, <1>4, <1>5, <1>6 DEF AmountsInv

\* A line is stored as it was merged, and only if the CHECKs of the tables
\* allow it.
LEMMA InsertKeeps ==
    ASSUME AmountsInv, NEW p \in Products, Insert(p)
    PROVE  AmountsInv'
<1>1. /\ AmountsTypeOK /\ MergedExactly /\ ChargedExactly /\ PlacedAsMerged
      /\ stage = "insert" /\ request = <<>> /\ checked = InRequest
      /\ p \in InRequest /\ RowAllowed(p)
      /\ placed' = [placed EXCEPT ![p] = quantities[p]]
      /\ stock' = [stock EXCEPT ![p] = @ - quantities[p]]
      /\ UNCHANGED <<request, asked, price, quantities, checked, totalAmount, stage>>
  BY DEF AmountsInv, Insert
<1>2. /\ quantities[p] \in Nat \ {0} /\ stock[p] \in Nat
      /\ stock[p] - quantities[p] \in Nat
  BY <1>1 DEF AmountsTypeOK, RowAllowed
<1>3. AmountsTypeOK'
  BY <1>1, <1>2 DEF AmountsTypeOK
<1>4. MergedExactly'
  BY <1>1 DEF MergedExactly
<1>5. ChargedExactly'
  <2>1. TrueCost' = TrueCost /\ CostsLeft' = CostsLeft
    BY <1>1 DEF TrueCost, CostsLeft
  <2> QED
    BY <1>1, <2>1 DEF ChargedExactly, Fits
<1>6. InRequest' = InRequest
  BY <1>1 DEF InRequest
<1>7. PlacedAsMerged'
  BY <1>1, <1>2, <1>6 DEF PlacedAsMerged, AmountsTypeOK
<1> QED
  BY <1>1, <1>3, <1>4, <1>5, <1>6, <1>7 DEF AmountsInv

\* The rollback gives back what the lines so far had taken.
LEMMA InsertFailsKeeps ==
    ASSUME AmountsInv, InsertFails
    PROVE  AmountsInv'
<1>1. /\ AmountsTypeOK /\ MergedExactly /\ ChargedExactly
      /\ stage' = "refused"
      /\ stock' = [p \in Products |-> stock[p] + placed[p]]
      /\ placed' = [p \in Products |-> 0]
      /\ UNCHANGED <<request, asked, price, quantities, checked, totalAmount>>
  BY DEF AmountsInv, InsertFails
<1>2. AmountsTypeOK'
  BY <1>1 DEF AmountsTypeOK
<1>3. MergedExactly' /\ PlacedAsMerged'
  BY <1>1 DEF MergedExactly, PlacedAsMerged
<1>4. ChargedExactly'
  <2>1. TrueCost' = TrueCost /\ CostsLeft' = CostsLeft
    BY <1>1 DEF TrueCost, CostsLeft
  <2> QED
    BY <1>1, <2>1 DEF ChargedExactly, Fits
<1> QED
  BY <1>1, <1>2, <1>3, <1>4 DEF AmountsInv

\* Every step keeps the invariant, a stuttering step included.
LEMMA NextAmounts == AmountsInv /\ [AmountsNext]_amountVars => AmountsInv'
<1> SUFFICES ASSUME AmountsInv, [AmountsNext]_amountVars PROVE AmountsInv'
  OBVIOUS
<1>1. CASE AmountsNext
  BY <1>1, MergeKeeps, StageKeeps, CheckKeeps, InsertKeeps, InsertFailsKeeps DEF AmountsNext
<1>2. CASE UNCHANGED amountVars
  <2>1. TrueCost' = TrueCost /\ CostsLeft' = CostsLeft /\ InRequest' = InRequest
    BY <1>2 DEF TrueCost, CostsLeft, InRequest, amountVars
  <2> QED
    BY <1>2, <2>1 DEF AmountsInv, AmountsTypeOK, MergedExactly, ChargedExactly, Fits,
       PlacedAsMerged, amountVars
<1> QED
  BY <1>1, <1>2

\* The inductive invariant of Amounts.
THEOREM AmountsHold == AmountsSpec => []AmountsInv
  BY InitAmounts, NextAmounts, PTL DEF AmountsSpec

-----------------------------------------------------------------------------
(* What follows.                                                           *)

\* StoredLinesAreLegal: a line that is stored is of at least one unit that
\* was in stock, whatever the merged quantities have wrapped to.
THEOREM LegalLinesOnly == AmountsSpec => []StoredLinesAreLegal
<1>1. AmountsInv => StoredLinesAreLegal
  <2> SUFFICES ASSUME AmountsInv PROVE StoredLinesAreLegal
    OBVIOUS
  <2>1. \A p \in Products : placed[p] \in Nat /\ stock[p] \in Nat
    BY DEF AmountsInv, AmountsTypeOK
  <2>2. ASSUME stage = "placed", NEW p \in InRequest PROVE placed[p] > 0
    <3>1. placed[p] # 0 /\ p \in Products
      BY <2>2 DEF AmountsInv, InRequest
    <3> QED
      BY <2>1, <3>1
  <2>3. \A p \in Products : placed[p] >= 0 /\ stock[p] >= 0
    BY <2>1
  <2> QED
    BY <2>2, <2>3 DEF StoredLinesAreLegal
<1> QED
  BY <1>1, AmountsHold, PTL

\* ExactWhenItFits: an order whose quantities and cost fit an int64 is stored
\* as it was asked for, at what it costs; no sum or product on the way wraps.
THEOREM FittingOrdersAreExact == AmountsSpec => []ExactWhenItFits
<1>1. AmountsInv => ExactWhenItFits
  <2> SUFFICES ASSUME AmountsInv, stage = "placed", Fits
               PROVE  placed = asked /\ totalAmount = TrueCost
    BY DEF ExactWhenItFits, Fits
  <2>1. /\ AmountsTypeOK /\ MergedExactly /\ ChargedExactly /\ PlacedAsMerged
        /\ request = <<>> /\ checked = InRequest
        /\ \A p \in InRequest : placed[p] # 0
    BY DEF AmountsInv
  <2>2. ASSUME NEW p \in Products PROVE placed[p] = asked[p] /\ CostsLeft[p] = 0
    <3>1. asked[p] \in Nat /\ quantities[p] \in Int /\ price[p] \in Nat
      BY <2>1 DEF AmountsTypeOK
    <3>2. SumOver(Parts(request, p)) = 0
      BY <2>1, NoPartsLeft
    <3>3. quantities[p] = asked[p]
      BY <2>1, <3>1, <3>2 DEF MergedExactly, Fits
    <3>4. CASE p \in InRequest
      BY <2>1, <3>3, <3>4 DEF PlacedAsMerged, CostsLeft
    <3>5. CASE p \notin InRequest
      <4>1. asked[p] = 0
        BY <3>1, <3>5 DEF InRequest
      <4>2. price[p] * 0 = 0
        BY <3>1
      <4> QED
        BY <2>1, <3>5, <4>1, <4>2 DEF PlacedAsMerged, CostsLeft
    <3> QED
      BY <3>4, <3>5
  <2>3. placed = asked
    BY <2>1, <2>2 DEF AmountsTypeOK
  <2>4. SumOver(CostsLeft) = 0
    BY <2>1, <2>2, CostsType, SumOfZeros, WidthAssumption
  <2>5. totalAmount \in Int /\ TrueCost \in Nat
    BY <2>1, CostsType DEF AmountsTypeOK
  <2> QED
    BY <2>1, <2>3, <2>4, <2>5 DEF ChargedExactly
<1> QED
  BY <1>1, AmountsHold, PTL

=============================================================================
