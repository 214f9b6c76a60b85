--------------------------- MODULE Paging_proofs ----------------------------
(***************************************************************************)
(* Proofs about Paging, for any number of walks over one request, listings *)
(* of any length and pages of any size.                                    *)
(*                                                                         *)
(* The argument: a walk's copy of the request asks for the page its cursor *)
(* names, so what it has yielded is all the pages before that one and the  *)
(* part of it that is no longer in hand (WalkInv).  What lies before a     *)
(* page is a prefix of the listing by induction on the number of the page, *)
(* from the least-number principle for sets of naturals.                   *)
(***************************************************************************)
EXTENDS Paging, SequenceTheorems, WellFoundedInduction, TLAPS

-----------------------------------------------------------------------------
(* Induction, as a fact about sets of naturals.                            *)

Less == {ss \in Nat \X Nat : ss[1] < ss[2]}

\* Every set of naturals that is not empty has a least element.
LEMMA LeastNatural ==
  ASSUME NEW T, T \subseteq Nat, T # {}
  PROVE  \E n \in T : \A m \in T : n <= m
<1>1. IsWellFoundedOn(Less, Nat)
  BY NatLessThanWellFounded DEF OpToRel, Less
<1>2. PICK n \in T : \A m \in T : <<m, n>> \notin Less
  BY <1>1, WFMin
<1>3. ASSUME NEW m \in T PROVE n <= m
  <2>1. m \in Nat /\ n \in Nat
    OBVIOUS
  <2>2. <<m, n>>[1] = m /\ <<m, n>>[2] = n /\ <<m, n>> \in Nat \X Nat
    BY <2>1
  <2>3. ~ (m < n)
    BY <1>2, <2>2 DEF Less
  <2>4. QED
    BY <2>1, <2>3
<1>4. QED
  BY <1>3

\* A set of naturals that contains 0 and the successor of each member is Nat.
LEMMA NaturalsBySet ==
  ASSUME NEW T, T \subseteq Nat, 0 \in T, \A n \in T : n + 1 \in T
  PROVE  T = Nat
<1>1. SUFFICES ASSUME Nat \ T # {} PROVE FALSE
  OBVIOUS
<1>2. PICK n \in Nat \ T : \A m \in Nat \ T : n <= m
  BY <1>1, LeastNatural
<1>3. n - 1 \in Nat /\ n - 1 \notin Nat \ T
  BY <1>2
<1>4. QED
  BY <1>3, <1>2

-----------------------------------------------------------------------------
(* The listing as a concatenation of pages.                                *)

\* The pages of l up to each, put together: what FlattenSeq computes with.
Joined(l) ==
  LET join[i \in 1..Len(l)] == IF i = 1 THEN l[i] ELSE join[i-1] \o l[i]
  IN  join

Before(l, i) == IF i = 1 THEN <<>> ELSE Joined(l)[i-1]

Joins(l, f, n) == \A i \in 1..n : f[i] = IF i = 1 THEN l[i] ELSE f[i-1] \o l[i]

\* The recursion that joins pages has a solution, however many there are.
LEMMA JoinExists ==
  ASSUME NEW l \in Seq(Seq(Item))
  PROVE  \E f \in [1..Len(l) -> Seq(Item)] : Joins(l, f, Len(l))
<1> DEFINE T == {n \in Nat : n <= Len(l) => \E f \in [1..n -> Seq(Item)] : Joins(l, f, n)}
<1>1. 0 \in T
  <2>1. [i \in 1..0 |-> <<>>] \in [1..0 -> Seq(Item)]
    OBVIOUS
  <2>2. Joins(l, [i \in 1..0 |-> <<>>], 0)
    BY DEF Joins
  <2>3. QED
    BY <2>1, <2>2
<1>2. ASSUME NEW n \in T PROVE n + 1 \in T
  <2> SUFFICES ASSUME n + 1 <= Len(l)
               PROVE  \E f \in [1..n+1 -> Seq(Item)] : Joins(l, f, n+1)
    OBVIOUS
  <2>1. PICK f \in [1..n -> Seq(Item)] : Joins(l, f, n)
    OBVIOUS
  <2>2. l[n+1] \in Seq(Item) /\ (n # 0 => f[n] \in Seq(Item))
    OBVIOUS
  <2> DEFINE g == [i \in 1..n+1 |->
                     IF i <= n THEN f[i] ELSE IF i = 1 THEN l[i] ELSE f[n] \o l[i]]
  <2>3. n # 0 => f[n] \o l[n+1] \in Seq(Item)
    BY <2>2
  <2>4. g \in [1..n+1 -> Seq(Item)]
    BY <2>2, <2>3
  <2>5. ASSUME NEW i \in 1..n+1
        PROVE  g[i] = IF i = 1 THEN l[i] ELSE g[i-1] \o l[i]
    <3>1. CASE i <= n
      <4>1. g[i] = f[i] /\ (i # 1 => g[i-1] = f[i-1])
        BY <3>1
      <4>2. i \in 1..n
        BY <3>1
      <4> HIDE DEF T, g
      <4>3. f[i] = IF i = 1 THEN l[i] ELSE f[i-1] \o l[i]
        BY <2>1, <4>2 DEF Joins
      <4>4. QED
        BY <4>1, <4>3
    <3>2. CASE i = n + 1
      BY <3>2
    <3>3. QED
      BY <3>1, <3>2
  <2> HIDE DEF g
  <2>7. Joins(l, g, n+1)
    BY <2>5 DEF Joins
  <2>8. QED
    BY <2>4, <2>7
<1>3. T = Nat
  BY <1>1, <1>2, NaturalsBySet
<1>4. QED
  BY <1>3

\* Joined is that solution, and FlattenSeq its last value.
LEMMA JoinedJoins ==
  ASSUME NEW l \in Seq(Seq(Item))
  PROVE  DOMAIN Joined(l) = 1..Len(l) /\ Joins(l, Joined(l), Len(l))
<1> DEFINE Solves(f) == f = [i \in 1..Len(l) |-> IF i = 1 THEN l[i] ELSE f[i-1] \o l[i]]
<1>1. PICK f \in [1..Len(l) -> Seq(Item)] : Joins(l, f, Len(l))
  BY JoinExists
<1>2. f = [i \in 1..Len(l) |-> IF i = 1 THEN l[i] ELSE f[i-1] \o l[i]]
  BY <1>1 DEF Joins
<1>3. Joined(l) = [i \in 1..Len(l) |-> IF i = 1 THEN l[i] ELSE Joined(l)[i-1] \o l[i]]
  BY <1>2 DEF Joined
<1>4. QED
  BY <1>3 DEF Joins

LEMMA FlattenIsJoined ==
  ASSUME NEW l, Len(l) # 0
  PROVE  FlattenSeq(l) = Joined(l)[Len(l)]
  BY DEF FlattenSeq, Joined

\* What has been joined is a sequence of items.
LEMMA JoinedType ==
  ASSUME NEW l \in Seq(Seq(Item)), NEW i \in 1..Len(l)
  PROVE  Joined(l)[i] \in Seq(Item)
<1> DEFINE T == {n \in Nat : n + 1 <= Len(l) => Joined(l)[n+1] \in Seq(Item)}
<1>0. Len(l) \in Nat /\ \A k \in 1..Len(l) : l[k] \in Seq(Item)
  OBVIOUS
<1>1. 0 \in T
  BY <1>0, JoinedJoins DEF Joins
<1>2. ASSUME NEW n \in T PROVE n + 1 \in T
  <2> SUFFICES ASSUME n + 2 <= Len(l) PROVE Joined(l)[n+2] \in Seq(Item)
    OBVIOUS
  <2>1. Joined(l)[n+2] = Joined(l)[n+1] \o l[n+2]
    <3>1. n + 2 \in 1..Len(l) /\ n + 2 # 1 /\ (n + 2) - 1 = n + 1
      BY <1>0
    <3>2. QED
      BY <3>1, JoinedJoins DEF Joins
  <2>2. Joined(l)[n+1] \in Seq(Item) /\ l[n+2] \in Seq(Item)
    OBVIOUS
  <2>3. QED
    BY <2>1, <2>2
<1>3. T = Nat
  <2> HIDE DEF T
  <2>1. T \subseteq Nat
    BY DEF T
  <2>2. QED
    BY <1>1, <1>2, <2>1, NaturalsBySet
<1>4. i - 1 \in Nat /\ (i - 1) + 1 = i /\ i <= Len(l)
  OBVIOUS
<1>5. i - 1 \in T
  BY <1>3, <1>4
<1>6. QED
  BY <1>4, <1>5

\* Being a prefix, element by element.
LEMMA PrefixElements ==
  ASSUME NEW S, NEW s \in Seq(S), NEW t \in Seq(S)
  PROVE  IsPrefix(s, t) <=> Len(s) <= Len(t) /\ \A i \in 1..Len(s) : s[i] = t[i]
  BY DEF IsPrefix

LEMMA PrefixTransitive ==
  ASSUME NEW S, NEW s \in Seq(S), NEW t \in Seq(S), NEW u \in Seq(S),
         IsPrefix(s, t), IsPrefix(t, u)
  PROVE  IsPrefix(s, u)
<1>1. Len(s) <= Len(t) /\ Len(t) <= Len(u) /\ Len(s) \in Nat /\ Len(t) \in Nat /\ Len(u) \in Nat
  BY PrefixElements
<1>2. \A i \in 1..Len(s) : i \in 1..Len(t) /\ s[i] = t[i]
  BY <1>1, PrefixElements
<1>3. \A i \in 1..Len(t) : t[i] = u[i]
  BY PrefixElements
<1>4. QED
  BY <1>1, <1>2, <1>3, PrefixElements

LEMMA PrefixOfConcat ==
  ASSUME NEW S, NEW s \in Seq(S), NEW t \in Seq(S)
  PROVE  IsPrefix(s, s \o t)
<1>1. s \o t \in Seq(S) /\ Len(s) <= Len(s \o t) /\ \A i \in 1..Len(s) : (s \o t)[i] = s[i]
  OBVIOUS
<1>2. QED
  BY <1>1, PrefixElements

\* The pages up to one are a prefix of the pages up to any later one.
LEMMA JoinedGrows ==
  ASSUME NEW l \in Seq(Seq(Item)), NEW i \in 1..Len(l)
  PROVE  IsPrefix(Joined(l)[i], Joined(l)[Len(l)])
<1> DEFINE T == {n \in Nat : i + n <= Len(l) => IsPrefix(Joined(l)[i], Joined(l)[i+n])}
<1>1. 0 \in T
  BY JoinedType, PrefixElements
<1>2. ASSUME NEW n \in T PROVE n + 1 \in T
  <2> SUFFICES ASSUME i + n + 1 <= Len(l) PROVE IsPrefix(Joined(l)[i], Joined(l)[i+n+1])
    OBVIOUS
  <2> DEFINE s == Joined(l)[i]
             t == Joined(l)[i+n]
             u == Joined(l)[i+n+1]
  <2>1. s \in Seq(Item) /\ t \in Seq(Item) /\ u \in Seq(Item) /\ l[i+n+1] \in Seq(Item)
    BY JoinedType
  <2>2. u = t \o l[i+n+1]
    <3>1. /\ i + n + 1 \in 1..Len(l) /\ i + n + 1 # 1 /\ (i + n + 1) - 1 = i + n
      OBVIOUS
    <3>2. QED
      BY <3>1, JoinedJoins DEF Joins
  <2>3. IsPrefix(s, t)
    OBVIOUS
  <2> HIDE DEF s, t, u
  <2>4. IsPrefix(t, u)
    BY <2>1, <2>2, PrefixOfConcat
  <2>5. IsPrefix(s, u)
    BY <2>1, <2>3, <2>4, PrefixTransitive
  <2>6. QED
    BY <2>5 DEF s, u
<1>3. T = Nat
  BY <1>1, <1>2, NaturalsBySet
<1>4. Len(l) - i \in Nat /\ i + (Len(l) - i) = Len(l)
  OBVIOUS
<1>5. Len(l) - i \in T
  BY <1>3, <1>4
<1>6. QED
  BY <1>4, <1>5
\* A page and what lies before it: together they make what lies before the next
\* page, or the whole listing.
LEMMA PagesOfListing ==
  ASSUME NEW l \in Seq(Seq(Item)), l # <<>>, NEW i \in 1..Len(l)
  PROVE  /\ l[i] \in Seq(Item) /\ Before(l, i) \in Seq(Item) /\ FlattenSeq(l) \in Seq(Item)
         /\ i < Len(l) => Before(l, i + 1) = Before(l, i) \o l[i]
         /\ i = Len(l) => FlattenSeq(l) = Before(l, i) \o l[i]
         /\ IsPrefix(Before(l, i) \o l[i], FlattenSeq(l))
<1>1. Len(l) \in Nat /\ Len(l) # 0 /\ l[i] \in Seq(Item)
  OBVIOUS
<1>2. Before(l, i) \in Seq(Item)
  <2>1. CASE i = 1
    BY <2>1 DEF Before
  <2>2. CASE i # 1
    <3>1. i - 1 \in 1..Len(l)
      BY <2>2
    <3>2. QED
      BY <2>2, <3>1, JoinedType DEF Before
  <2>3. QED
    BY <2>1, <2>2
<1>3. Joined(l)[i] = Before(l, i) \o l[i]
  <2>1. Joined(l)[i] = IF i = 1 THEN l[i] ELSE Joined(l)[i-1] \o l[i]
    BY JoinedJoins DEF Joins
  <2>2. CASE i = 1
    <3>1. Before(l, i) = <<>> /\ Joined(l)[i] = l[i]
      BY <2>1, <2>2 DEF Before
    <3>2. QED
      BY <1>1, <3>1, ConcatEmptySeq
  <2>3. CASE i # 1
    BY <2>1, <2>3 DEF Before
  <2>4. QED
    BY <2>2, <2>3
<1>4. FlattenSeq(l) = Joined(l)[Len(l)] /\ FlattenSeq(l) \in Seq(Item)
  <2>1. Len(l) \in 1..Len(l)
    BY <1>1
  <2>2. QED
    BY <1>1, <2>1, FlattenIsJoined, JoinedType
<1>5. i < Len(l) => Before(l, i + 1) = Joined(l)[i]
  BY DEF Before
<1>6. IsPrefix(Joined(l)[i], FlattenSeq(l))
  BY <1>4, JoinedGrows
<1>7. QED
  BY <1>1, <1>2, <1>3, <1>4, <1>5, <1>6

\* Taking one item off the rest of a page and giving it to the consumer.
LEMMA OneItem ==
  ASSUME NEW S, NEW b \in Seq(S), NEW page \in Seq(S), NEW k \in 0..Len(page),
         SubSeq(page, k + 1, Len(page)) # <<>>
  PROVE  /\ k + 1 \in 0..Len(page)
         /\ Tail(SubSeq(page, k + 1, Len(page))) = SubSeq(page, k + 2, Len(page))
         /\ Append(b \o SubSeq(page, 1, k), Head(SubSeq(page, k + 1, Len(page))))
              = b \o SubSeq(page, 1, k + 1)
<1>1. k + 1 \in 1..Len(page)
  BY SubSeqEmpty
<1>2. /\ Head(SubSeq(page, k + 1, Len(page))) = page[k + 1]
      /\ Tail(SubSeq(page, k + 1, Len(page))) = SubSeq(page, k + 2, Len(page))
  <2>1. Len(page) \in (k + 1)..Len(page) /\ (k + 1) + 1 = k + 2
    BY <1>1
  <2>2. QED
    BY <1>1, <2>1, HeadTailOfSubSeq
<1>3. Append(b \o SubSeq(page, 1, k), page[k + 1]) = b \o SubSeq(page, 1, k + 1)
  <2>1. SubSeq(page, 1, k) \in Seq(S) /\ SubSeq(page, 1, k + 1) \in Seq(S) /\ page[k + 1] \in S
    BY <1>1
  <2>2. Len(SubSeq(page, 1, k)) = k /\ Len(SubSeq(page, 1, k + 1)) = k + 1
    BY <1>1
  <2>3. \A j \in 1..k : SubSeq(page, 1, k)[j] = page[j]
    BY <1>1
  <2>4. \A j \in 1..k+1 : SubSeq(page, 1, k + 1)[j] = page[j]
    BY <1>1
  <2> DEFINE x == Append(b \o SubSeq(page, 1, k), page[k + 1])
             y == b \o SubSeq(page, 1, k + 1)
  <2>5. x \in Seq(S) /\ y \in Seq(S) /\ Len(x) = Len(b) + k + 1 /\ Len(y) = Len(b) + k + 1
    BY <2>1, <2>2
  <2>6. ASSUME NEW j \in 1..Len(x) PROVE x[j] = y[j]
    BY <2>1, <2>2, <2>3, <2>4, <2>5
  <2> HIDE DEF x, y
  <2>7. x = y
    BY <2>5, <2>6, SeqEqual
  <2>8. QED
    BY <2>7 DEF x, y
<1>4. k + 1 \in 0..Len(page)
  BY <1>1
<1>5. QED
  BY <1>2, <1>3, <1>4, Zenon

\* What has been yielded of a page is a prefix of it, what is left a suffix, and
\* when nothing is left all of it has been yielded.
LEMMA PartOfPage ==
  ASSUME NEW S, NEW b \in Seq(S), NEW page \in Seq(S), NEW k \in 0..Len(page)
  PROVE  /\ SubSeq(page, 1, k) \in Seq(S) /\ SubSeq(page, k + 1, Len(page)) \in Seq(S)
         /\ IsPrefix(b \o SubSeq(page, 1, k), b \o page)
         /\ IsSuffix(SubSeq(page, k + 1, Len(page)), page)
         /\ SubSeq(page, k + 1, Len(page)) = <<>> => b \o SubSeq(page, 1, k) = b \o page
<1> DEFINE done == SubSeq(page, 1, k)
           left == SubSeq(page, k + 1, Len(page))
<1>1. done \in Seq(S) /\ left \in Seq(S) /\ Len(done) = k /\ Len(left) = Len(page) - k
  OBVIOUS
<1>2. /\ \A j \in 1..k : done[j] = page[j]
      /\ \A j \in 1..Len(page)-k : left[j] = page[k + j]
  OBVIOUS
<1> HIDE DEF done, left
<1>3. IsPrefix(b \o done, b \o page)
  <2>1. b \o done \in Seq(S) /\ b \o page \in Seq(S) /\ Len(b \o done) <= Len(b \o page)
    BY <1>1
  <2>2. \A j \in 1..Len(b \o done) : (b \o done)[j] = (b \o page)[j]
    BY <1>1, <1>2
  <2>3. QED
    BY <2>1, <2>2, PrefixElements
<1>4. IsSuffix(left, page)
  <2>1. /\ Reverse(left) \in Seq(S) /\ Len(Reverse(left)) = Len(page) - k
        /\ \A j \in 1..Len(page)-k : Reverse(left)[j] = left[(Len(page) - k) - j + 1]
    BY <1>1 DEF Reverse
  <2>2. /\ Reverse(page) \in Seq(S) /\ Len(Reverse(page)) = Len(page)
        /\ \A j \in 1..Len(page) : Reverse(page)[j] = page[Len(page) - j + 1]
    BY DEF Reverse
  <2>3. ASSUME NEW j \in 1..Len(page)-k PROVE Reverse(left)[j] = Reverse(page)[j]
    <3>1. (Len(page) - k) - j + 1 \in 1..Len(page)-k /\ j \in 1..Len(page)
      OBVIOUS
    <3>2. k + ((Len(page) - k) - j + 1) = Len(page) - j + 1
      OBVIOUS
    <3>3. left[(Len(page) - k) - j + 1] = page[k + ((Len(page) - k) - j + 1)]
      BY <1>2, <3>1
    <3>4. QED
      BY <2>1, <2>2, <3>1, <3>2, <3>3
  <2>4. Len(Reverse(left)) <= Len(Reverse(page))
    BY <2>1, <2>2
  <2>5. QED
    BY <2>1, <2>2, <2>3, <2>4, PrefixElements DEF IsSuffix
<1>5. left = <<>> => done = page
  <2>1. left = <<>> => k = Len(page)
    BY <1>1
  <2>2. k = Len(page) => done = page
    BY <1>1, <1>2, SeqEqual
  <2>3. QED
    BY <2>1, <2>2
<1>6. QED
  BY <1>1, <1>3, <1>4, <1>5 DEF done, left
-----------------------------------------------------------------------------
(* The inductive invariant.                                                *)

\* The k first items of the page its cursor names have been yielded, after all
\* the pages before it, and the others are in hand.
InHand(w, k) ==
  /\ items[w] = SubSeq(listing[token[w]], k + 1, Len(listing[token[w]]))
  /\ yielded[w] = Before(listing, token[w]) \o SubSeq(listing[token[w]], 1, k)

\* Where a walk is, against what it has yielded.
WalkInv(w) ==
  /\ pc[w] = "sent" => pageToken[w] = token[w]
  /\ pc[w] \in {"fetch", "sent", "failed"} => items[w] = <<>>
  /\ pc[w] \in {"fetch", "sent"} => yielded[w] = Before(listing, token[w])
  /\ pc[w] = "failed" => yielded[w] = Append(Before(listing, token[w]), Zero)
  /\ pc[w] \in {"yield", "broken", "over"} =>
       /\ next[w] = NextPage(token[w])
       /\ \E k \in 0..Len(listing[token[w]]) : InHand(w, k)
  /\ pc[w] = "over" => items[w] = <<>> /\ next[w] = NoToken

Types ==
  /\ listing \in Listings
  /\ pageToken \in [Walk \cup {Given} -> 1..Len(listing)]
  /\ pc \in [Walk -> Label] /\ token \in [Walk -> 1..Len(listing)]
  /\ next \in [Walk -> 0..Len(listing)]
  /\ items \in [Walk -> Seq(Item)] /\ yielded \in [Walk -> Seq(Item \cup {Zero})]

IInv == Types /\ \A w \in Walk : WalkInv(w)

\* A step of one walk changes nothing of another, although both set out from the
\* same request: each sets the page token of its own copy.
LEMMA OthersUntouched ==
  ASSUME IInv, NEW w \in Walk, Step(w), NEW v \in Walk, v # w
  PROVE  WalkInv(v)'
<1>1. /\ listing' = listing /\ pageToken'[v] = pageToken[v]
      /\ pc'[v] = pc[v] /\ token'[v] = token[v] /\ items'[v] = items[v]
      /\ next'[v] = next[v] /\ yielded'[v] = yielded[v]
  BY DEF IInv, Types, Step, SetPage, Fetch, FetchFails, Yield, Advance, End, Goto, clonePage
<1>2. WalkInv(v)
  BY DEF IInv
<1>3. QED
  BY <1>1, <1>2 DEF WalkInv, InHand, NextPage

\* What a listing is, for the steps below.
LEMMA ListingFacts ==
  ASSUME Types
  PROVE  /\ listing \in Seq(Seq(Item)) /\ listing # <<>> /\ Len(listing) \in Nat \ {0}
         /\ DOMAIN listing = 1..Len(listing)
  BY ListingsAssumption DEF Types

\* The page a walk is on, and what lies before it.
LEMMA CursorFacts ==
  ASSUME Types, NEW w \in Walk
  PROVE  /\ token[w] \in 1..Len(listing) /\ Len(listing) \in Nat
         /\ listing[token[w]] \in Seq(Item) /\ Len(listing[token[w]]) \in Nat
         /\ Before(listing, token[w]) \in Seq(Item) /\ All \in Seq(Item)
         /\ Before(listing, token[w]) \o listing[token[w]] \in Seq(Item)
         /\ IsPrefix(Before(listing, token[w]) \o listing[token[w]], All)
<1> DEFINE i == token[w]
<1>1. i \in 1..Len(listing)
  BY DEF Types
<1>2. listing \in Seq(Seq(Item)) /\ listing # <<>> /\ Len(listing) \in Nat
  BY ListingFacts
<1> HIDE DEF i
<1>3. /\ listing[i] \in Seq(Item) /\ Before(listing, i) \in Seq(Item)
      /\ FlattenSeq(listing) \in Seq(Item)
      /\ IsPrefix(Before(listing, i) \o listing[i], FlattenSeq(listing))
  BY <1>1, <1>2, PagesOfListing
<1>4. Len(listing[i]) \in Nat /\ Before(listing, i) \o listing[i] \in Seq(Item)
  BY <1>3
<1>5. QED
  BY <1>1, <1>2, <1>3, <1>4 DEF i, All

\* Asking for a page: the copy, and not the request given, carries the cursor.
LEMMA SetPageStep ==
  ASSUME IInv, NEW w \in Walk, SetPage(w)
  PROVE  Types' /\ WalkInv(w)'
<1>1. Types'
  BY DEF IInv, Types, SetPage, Goto, clonePage, Label
<1>2. WalkInv(w)'
  BY DEF IInv, Types, WalkInv, SetPage, Goto, clonePage
<1>3. QED
  BY <1>1, <1>2

\* A page arrives: none of it has been yielded.
LEMMA FetchStep ==
  ASSUME IInv, NEW w \in Walk, Fetch(w)
  PROVE  Types' /\ WalkInv(w)'
<1> DEFINE i    == token[w]
           page == listing[i]
<1>1. i \in 1..Len(listing) /\ page \in Seq(Item) /\ Before(listing, i) \in Seq(Item)
  BY CursorFacts DEF IInv
<1>2. pageToken[w] = i /\ yielded[w] = Before(listing, i)
  BY DEF IInv, WalkInv, Fetch
<1>3. NextPage(i) \in 0..Len(listing)
  BY <1>1, ListingFacts DEF IInv, NextPage, NoToken
<1>4. /\ items' = [items EXCEPT ![w] = page] /\ next' = [next EXCEPT ![w] = NextPage(i)]
      /\ pc' = [pc EXCEPT ![w] = "yield"] /\ UNCHANGED <<listing, pageToken, token, yielded>>
  BY <1>2 DEF Fetch, Goto, clonePage
<1>5. Types'
  BY <1>1, <1>3, <1>4 DEF IInv, Types, Label
<1>6. items'[w] = page /\ next'[w] = NextPage(i) /\ pc'[w] = "yield" /\ token'[w] = i
  BY <1>4 DEF IInv, Types
<1>7. page = SubSeq(page, 0 + 1, Len(page)) /\ SubSeq(page, 1, 0) = <<>>
  BY <1>1, SubSeqFull, SubSeqEmpty
<1>8. Before(listing, i) \o SubSeq(page, 1, 0) = Before(listing, i)
  BY <1>1, <1>7, ConcatEmptySeq
<1>9. InHand(w, 0)' /\ 0 \in 0..Len(page)
  BY <1>1, <1>2, <1>4, <1>6, <1>7, <1>8 DEF InHand
<1>10. WalkInv(w)'
  BY <1>4, <1>6, <1>9 DEF WalkInv, NextPage
<1>11. QED
  BY <1>5, <1>10

\* A fetch fails: the error comes after the pages before, and nothing after it.
LEMMA FetchFailsStep ==
  ASSUME IInv, NEW w \in Walk, FetchFails(w)
  PROVE  Types' /\ WalkInv(w)'
<1>1. yielded[w] = Before(listing, token[w]) /\ items[w] = <<>>
  BY DEF IInv, WalkInv, FetchFails
<1>2. Append(yielded[w], Zero) \in Seq(Item \cup {Zero})
  BY DEF IInv, Types
<1>3. Types'
  BY <1>2 DEF IInv, Types, FetchFails, Goto, Label
<1>4. WalkInv(w)'
  BY <1>1 DEF IInv, Types, WalkInv, FetchFails, Goto
<1>5. QED
  BY <1>3, <1>4

\* An item is yielded: the one next in its page.
LEMMA YieldStep ==
  ASSUME IInv, NEW w \in Walk, Yield(w)
  PROVE  Types' /\ WalkInv(w)'
<1> DEFINE i    == token[w]
           page == listing[i]
<1>1. i \in 1..Len(listing) /\ page \in Seq(Item) /\ Before(listing, i) \in Seq(Item)
  BY CursorFacts DEF IInv
<1>2. PICK k \in 0..Len(page) : InHand(w, k)
  BY DEF IInv, WalkInv, Yield
<1>3. items[w] \in Seq(Item) /\ items[w] # <<>> /\ yielded[w] \in Seq(Item \cup {Zero})
  BY DEF IInv, Types, Yield
<1>4. Tail(items[w]) \in Seq(Item) /\ Append(yielded[w], Head(items[w])) \in Seq(Item \cup {Zero})
  BY <1>3, HeadTailProperties
<1>5. /\ items' = [items EXCEPT ![w] = Tail(items[w])]
      /\ yielded' = [yielded EXCEPT ![w] = Append(yielded[w], Head(items[w]))]
      /\ \E l \in {"yield", "broken"} : pc' = [pc EXCEPT ![w] = l]
      /\ UNCHANGED <<listing, pageToken, token, next>>
  BY DEF Yield, Goto
<1>6. Types'
  BY <1>4, <1>5 DEF IInv, Types, Label
<1>7. /\ k + 1 \in 0..Len(page)
      /\ Tail(items[w]) = SubSeq(page, (k + 1) + 1, Len(page))
      /\ Append(yielded[w], Head(items[w])) = Before(listing, i) \o SubSeq(page, 1, k + 1)
  <2>1. /\ items[w] = SubSeq(page, k + 1, Len(page)) /\ k \in 0..Len(page)
        /\ yielded[w] = Before(listing, i) \o SubSeq(page, 1, k)
    BY <1>2 DEF InHand
  <2> HIDE DEF i, page
  <2>2. SubSeq(page, k + 1, Len(page)) # <<>>
    BY <1>3, <2>1
  <2>3. /\ k + 1 \in 0..Len(page)
        /\ Tail(SubSeq(page, k + 1, Len(page))) = SubSeq(page, k + 2, Len(page))
        /\ Append(Before(listing, i) \o SubSeq(page, 1, k), Head(SubSeq(page, k + 1, Len(page))))
             = Before(listing, i) \o SubSeq(page, 1, k + 1)
    <3>1. page \in Seq(Item) /\ Before(listing, i) \in Seq(Item) /\ k \in 0..Len(page)
      BY <1>1, <2>1
    <3>2. QED
      BY <3>1, <2>2, OneItem
  <2>4. (k + 1) + 1 = k + 2
    BY <2>1
  <2>5. QED
    BY <2>1, <2>3, <2>4, Zenon
<1>8. InHand(w, k + 1)'
  BY <1>5, <1>7 DEF IInv, Types, InHand
<1>9. next[w] = NextPage(i)
  BY DEF IInv, WalkInv, Yield
<1>10. pc'[w] \in {"yield", "broken"} /\ token'[w] = i /\ listing' = listing /\ next'[w] = next[w]
  BY <1>5 DEF IInv, Types
<1>11. WalkInv(w)'
  BY <1>7, <1>8, <1>9, <1>10 DEF WalkInv, NextPage
<1>12. QED
  BY <1>6, <1>11

\* Nothing of the page is in hand: all of it has been yielded.
LEMMA PageIsDone ==
  ASSUME IInv, NEW w \in Walk, pc[w] \in {"yield", "broken", "over"}, items[w] = <<>>
  PROVE  yielded[w] = Before(listing, token[w]) \o listing[token[w]]
<1>1. PICK k \in 0..Len(listing[token[w]]) : InHand(w, k)
  BY DEF IInv, WalkInv
<1>2. listing[token[w]] \in Seq(Item) /\ Before(listing, token[w]) \in Seq(Item)
  BY CursorFacts DEF IInv
<1>3. QED
  BY <1>1, <1>2, PartOfPage DEF InHand

\* The cursor moves to the next page when nothing of this one is left.
LEMMA AdvanceStep ==
  ASSUME IInv, NEW w \in Walk, Advance(w)
  PROVE  Types' /\ WalkInv(w)'
<1>1. pc[w] = "yield" /\ items[w] = <<>> /\ next[w] # NoToken /\ next[w] = NextPage(token[w])
  BY DEF IInv, WalkInv, Advance, EndsHere
<1>2. token[w] \in 1..Len(listing) /\ token[w] < Len(listing) /\ next[w] = token[w] + 1
  BY <1>1 DEF IInv, Types, NextPage
<1>3. yielded[w] = Before(listing, next[w])
  <2>1. listing \in Seq(Seq(Item)) /\ listing # <<>>
    BY ListingFacts DEF IInv
  <2>2. Before(listing, token[w] + 1) = Before(listing, token[w]) \o listing[token[w]]
    BY <1>2, <2>1, PagesOfListing
  <2>3. QED
    BY <1>1, <1>2, <2>2, PageIsDone
<1>4. Types'
  <2>1. next[w] \in 1..Len(listing)
    BY <1>2, ListingFacts DEF IInv
  <2>2. QED
    BY <2>1 DEF IInv, Types, Advance, Goto, Label
<1>5. WalkInv(w)'
  BY <1>1, <1>3 DEF IInv, Types, WalkInv, Advance, Goto
<1>6. QED
  BY <1>4, <1>5

\* The walk ends.
LEMMA EndStep ==
  ASSUME IInv, NEW w \in Walk, End(w)
  PROVE  Types' /\ WalkInv(w)'
<1>1. pc[w] = "yield" /\ items[w] = <<>> /\ next[w] = NoToken
  BY DEF End, EndsHere
<1>2. Types'
  BY DEF IInv, Types, End, Goto, Label
<1>3. WalkInv(w)'
  BY <1>1 DEF IInv, Types, WalkInv, InHand, NextPage, End, Goto
<1>4. QED
  BY <1>2, <1>3

\* The invariant holds of every reachable state.
THEOREM Inductive == Spec => []IInv
<1>1. Init => IInv
  <2> SUFFICES ASSUME Init PROVE IInv
    OBVIOUS
  <2>1. listing \in Seq(Seq(Item)) /\ listing # <<>> /\ 1 \in 1..Len(listing)
    BY ListingsAssumption DEF Init
  <2>2. Types
    BY <2>1 DEF Init, Types, First, NoToken, Label
  <2>3. ASSUME NEW w \in Walk PROVE WalkInv(w)
    BY DEF Init, WalkInv, Before, First
  <2>4. QED
    BY <2>2, <2>3 DEF IInv
<1>2. IInv /\ [Next]_vars => IInv'
  <2> SUFFICES ASSUME IInv, [Next]_vars PROVE IInv'
    OBVIOUS
  <2>1. ASSUME NEW w \in Walk, Step(w) PROVE IInv'
    <3>1. Types' /\ WalkInv(w)'
      BY <2>1, SetPageStep, FetchStep, FetchFailsStep, YieldStep, AdvanceStep, EndStep DEF Step
    <3>2. ASSUME NEW v \in Walk PROVE WalkInv(v)'
      BY <2>1, <3>1, OthersUntouched
    <3>3. QED
      BY <3>1, <3>2 DEF IInv
  <2>2. CASE UNCHANGED vars
    BY <2>2 DEF vars, IInv, Types, WalkInv, InHand, NextPage
  <2>3. QED
    BY <2>1, <2>2 DEF Next
<1>3. QED
  BY <1>1, <1>2, PTL DEF Spec
-----------------------------------------------------------------------------
(* What the walks promise.                                                 *)

\* Cursors name pages of the listing, and what a walk has in hand is the end of the
\* page its cursor names.
THEOREM TypeCorrect == Spec => []TypeOK
<1>1. IInv => TypeOK
  <2> SUFFICES ASSUME IInv PROVE TypeOK
    OBVIOUS
  <2>1. DOMAIN listing = 1..Len(listing) /\ Len(listing) \in Nat
    BY ListingFacts DEF IInv
  <2>2. ASSUME NEW w \in Walk PROVE IsSuffix(items[w], listing[token[w]]) \/ items[w] = <<>>
    <3>1. CASE pc[w] \in {"fetch", "sent", "failed"}
      BY <3>1 DEF IInv, WalkInv
    <3>2. CASE pc[w] \in {"yield", "broken", "over"}
      <4>1. PICK k \in 0..Len(listing[token[w]]) : InHand(w, k)
        BY <3>2 DEF IInv, WalkInv
      <4>2. listing[token[w]] \in Seq(Item) /\ Before(listing, token[w]) \in Seq(Item)
        BY CursorFacts DEF IInv
      <4>3. QED
        BY <4>1, <4>2, PartOfPage DEF InHand
    <3>3. QED
      BY <3>1, <3>2 DEF IInv, Types, Label
  <2>3. next \in [Walk -> DOMAIN listing \cup {NoToken}]
    BY <2>1 DEF IInv, Types, NoToken
  <2>4. QED
    BY <2>1, <2>2, <2>3 DEF IInv, Types, TypeOK
<1>2. QED
  BY <1>1, Inductive, PTL

\* What a walk has yielded, apart from an error at the end, is a prefix of the
\* listing.
LEMMA PrefixYielded ==
  ASSUME IInv, NEW w \in Walk
  PROVE  /\ pc[w] # "failed" => IsPrefix(yielded[w], All)
         /\ pc[w] = "failed" => Last(yielded[w]) = Zero /\ IsPrefix(Front(yielded[w]), All)
<1> DEFINE i    == token[w]
           page == listing[i]
           b    == Before(listing, i)
<1>1. /\ page \in Seq(Item) /\ b \in Seq(Item) /\ All \in Seq(Item)
      /\ b \o page \in Seq(Item) /\ IsPrefix(b \o page, All)
  BY CursorFacts DEF IInv
<1>2. IsPrefix(b, All)
  BY <1>1, PrefixOfConcat, PrefixTransitive
<1>3. CASE pc[w] \in {"fetch", "sent"}
  BY <1>2, <1>3 DEF IInv, WalkInv
<1>4. CASE pc[w] \in {"yield", "broken", "over"}
  <2>1. PICK k \in 0..Len(page) : yielded[w] = b \o SubSeq(page, 1, k)
    BY <1>4 DEF IInv, WalkInv, InHand
  <2>2. SubSeq(page, 1, k) \in Seq(Item) /\ IsPrefix(b \o SubSeq(page, 1, k), b \o page)
    BY <1>1, PartOfPage
  <2>3. b \o SubSeq(page, 1, k) \in Seq(Item)
    BY <1>1, <2>2
  <2>4. IsPrefix(b \o SubSeq(page, 1, k), All)
    BY <1>1, <2>2, <2>3, PrefixTransitive
  <2>5. QED
    BY <1>4, <2>1, <2>4
<1>5. CASE pc[w] = "failed"
  <2>1. yielded[w] = Append(b, Zero)
    BY <1>5 DEF IInv, WalkInv
  <2>2. b \in Seq(Item \cup {Zero})
    BY <1>1, SeqMonotonic
  <2>3. Last(Append(b, Zero)) = Zero
    BY <2>2 DEF Last
  <2>4. Front(Append(b, Zero)) = b
    BY <2>2 DEF Front
  <2>5. QED
    BY <1>2, <1>5, <2>1, <2>3, <2>4
<1>6. QED
  BY <1>3, <1>4, <1>5 DEF IInv, Types, Label

\* Every walk yields the listing in order, without gaps or repeats, whatever the
\* sizes of its pages and whoever else walks; all of it unless the consumer broke out
\* or a fetch failed, and an error only as the last thing.
THEOREM ListingIsYielded == Spec => []YieldsTheListing
<1>1. IInv => YieldsTheListing
  <2> SUFFICES ASSUME IInv, NEW w \in Walk
               PROVE  /\ IF pc[w] = "failed"
                           THEN Last(yielded[w]) = Zero /\ IsPrefix(Front(yielded[w]), All)
                           ELSE IsPrefix(yielded[w], All)
                      /\ pc[w] = "over" => yielded[w] = All
    BY DEF YieldsTheListing
  <2>1. ASSUME pc[w] = "over" PROVE yielded[w] = All
    <3>1. items[w] = <<>> /\ NextPage(token[w]) = NoToken
      BY <2>1 DEF IInv, WalkInv
    <3>2. token[w] \in 1..Len(listing) /\ token[w] = Len(listing)
      <4>1. token[w] \in 1..Len(listing) /\ Len(listing) \in Nat
        BY ListingFacts DEF IInv, Types
      <4>2. ~ (token[w] < Len(listing))
        BY <3>1, <4>1 DEF NextPage, NoToken
      <4>3. QED
        BY <4>1, <4>2
    <3>3. yielded[w] = Before(listing, token[w]) \o listing[token[w]]
      BY <2>1, <3>1, PageIsDone
    <3>4. QED
      <4>1. listing \in Seq(Seq(Item)) /\ listing # <<>>
        BY ListingFacts DEF IInv
      <4>2. FlattenSeq(listing) = Before(listing, token[w]) \o listing[token[w]]
        BY <3>2, <4>1, PagesOfListing
      <4>3. QED
        BY <3>3, <4>2 DEF All
  <2>2. QED
    BY <2>1, PrefixYielded
<1>2. QED
  BY <1>1, Inductive, PTL
-----------------------------------------------------------------------------
(* Why a walk ends, if it goes on: what is left of it only shrinks.        *)

\* What is left of a walk on the page its cursor names: to ask for it, to fetch it,
\* to yield its items and to leave it.
Rank(w) == CASE pc[w] = "fetch" -> Len(listing[token[w]]) + 3
             [] pc[w] = "sent"  -> Len(listing[token[w]]) + 2
             [] pc[w] = "yield" -> Len(items[w]) + 1
             [] OTHER           -> 0

\* A walk goes on to a later page of the listing, or has less left of this one.
Advances(w) ==
  \/ token[w] < token'[w] /\ token'[w] <= Len(listing)
  \/ token'[w] = token[w] /\ Rank(w) \in Nat /\ Rank(w)' \in Nat /\ Rank(w)' < Rank(w)

\* Nothing that Rank reads of a walk changes.
Waits(w) == UNCHANGED <<pc[w], token[w], items[w]>>

LEMMA AdvancesStep ==
  ASSUME IInv, NEW w \in Walk, Step(w)
  PROVE  Advances(w) /\ listing' = listing /\ \A v \in Walk \ {w} : Waits(v)
<1> DEFINE page == listing[token[w]]
<1>1. /\ token[w] \in 1..Len(listing) /\ Len(listing) \in Nat /\ page \in Seq(Item)
      /\ Len(page) \in Nat
  BY CursorFacts DEF IInv
<1>0. items[w] \in Seq(Item) /\ Len(items[w]) \in Nat
  BY DEF IInv, Types
<1>2. listing' = listing /\ \A v \in Walk \ {w} : Waits(v)
  BY DEF IInv, Types, Step, SetPage, Fetch, FetchFails, Yield, Advance, End, Goto, Waits
<1>3. CASE SetPage(w)
  <2>1. pc[w] = "fetch" /\ pc'[w] = "sent" /\ token'[w] = token[w]
    BY <1>3 DEF SetPage, Goto, IInv, Types
  <2>2. QED
    BY <1>0, <1>1, <1>2, <2>1 DEF Advances, Rank
<1>4. CASE Fetch(w)
  <2>1. pc[w] = "sent" /\ pc'[w] = "yield" /\ token'[w] = token[w] /\ items'[w] = page
    BY <1>4 DEF Fetch, Goto, clonePage, IInv, Types, WalkInv
  <2>2. QED
    BY <1>0, <1>1, <1>2, <2>1 DEF Advances, Rank
<1>5. CASE FetchFails(w)
  <2>1. pc[w] = "sent" /\ pc'[w] = "failed" /\ token'[w] = token[w]
    BY <1>5 DEF FetchFails, Goto, IInv, Types
  <2>2. QED
    BY <1>0, <1>1, <1>2, <2>1 DEF Advances, Rank
<1>6. CASE Yield(w)
  <2>1. /\ pc[w] = "yield" /\ pc'[w] \in {"yield", "broken"} /\ token'[w] = token[w]
        /\ items[w] # <<>> /\ items'[w] = Tail(items[w])
    BY <1>6 DEF Yield, Goto, IInv, Types
  <2>2. Len(items'[w]) = Len(items[w]) - 1 /\ Len(items[w]) # 0
    BY <1>0, <2>1
  <2>3. QED
    BY <1>0, <1>1, <1>2, <2>1, <2>2 DEF Advances, Rank
<1>7. CASE Advance(w)
  <2>1. token'[w] = next[w] /\ next[w] # NoToken /\ next[w] = NextPage(token[w])
    BY <1>7 DEF Advance, EndsHere, IInv, Types, WalkInv
  <2>2. QED
    BY <1>1, <1>2, <2>1 DEF NextPage, Advances
<1>8. CASE End(w)
  <2>1. pc[w] = "yield" /\ pc'[w] = "over" /\ token'[w] = token[w]
    BY <1>8 DEF End, Goto, IInv, Types
  <2>2. QED
    BY <1>0, <1>1, <1>2, <2>1 DEF Advances, Rank
<1>9. QED
  BY <1>3, <1>4, <1>5, <1>6, <1>7, <1>8 DEF Step

\* Every step takes one walk forward, through finitely many pages of finitely many
\* items each, and leaves the others where they are: no walk goes round in circles.
THEOREM WalksOnlyAdvance ==
  Spec => [][\E w \in Walk : /\ Advances(w) /\ listing' = listing
                             /\ \A v \in Walk \ {w} : Waits(v)]_vars
<1>1. IInv /\ [Next]_vars =>
        [\E w \in Walk : /\ Advances(w) /\ listing' = listing
                         /\ \A v \in Walk \ {w} : Waits(v)]_vars
  BY AdvancesStep DEF Next
<1>2. QED
  BY <1>1, Inductive, PTL DEF Spec
=============================================================================
