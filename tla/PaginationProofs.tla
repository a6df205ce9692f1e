-------------------------- MODULE PaginationProofs --------------------------
(* What a listing reports, for every list, page size and number of changes.    *)
EXTENDS Pagination, FiniteSetTheorems, TLAPS

-----------------------------------------------------------------------------
(* Positions in a sorted list.                                                 *)

Below(S, n) == Cardinality({m \in S : m < n})

\* A position is a number, and later names have greater ones.
LEMMA BelowOrder ==
    ASSUME NEW S \in SUBSET Int, IsFiniteSet(S), NEW m \in Int, NEW n \in Int, m < n
    PROVE  /\ Below(S, m) \in Nat /\ Below(S, n) \in Nat
           /\ Below(S, m) <= Below(S, n)
           /\ m \in S => Below(S, m) < Below(S, n)
  <1> DEFINE A == {x \in S : x < m}
             B == {x \in S : x < n}
  <1>1. A \subseteq B /\ A \subseteq S /\ B \subseteq S
    <2>1. ASSUME NEW x \in S, x < m PROVE x < n
      BY <2>1
    <2>2. QED
      BY <2>1
  <1>2. IsFiniteSet(A) /\ IsFiniteSet(B)
    BY <1>1, FS_Subset
  <1>3. Cardinality(A) \in Nat /\ Cardinality(B) \in Nat /\ Cardinality(A) <= Cardinality(B)
    BY <1>1, <1>2, FS_Subset, FS_CardinalityType
  <1>4. ASSUME m \in S PROVE Cardinality(A) < Cardinality(B)
    <2>1. A # B
      BY <1>4
    <2>2. Cardinality(A) # Cardinality(B)
      BY <1>1, <1>2, <2>1, FS_Subset
    <2>3. QED
      BY <1>3, <2>2
  <1>5. QED
    BY <1>3, <1>4 DEF Below

\* A name more in the list moves the names after it by one, and no other.
LEMMA BelowAdd ==
    ASSUME NEW S \in SUBSET Int, IsFiniteSet(S), NEW c \in Int, c \notin S, NEW n \in Int
    PROVE  /\ Below(S, n) \in Nat
           /\ Below(S \union {c}, n) = IF c < n THEN Below(S, n) + 1 ELSE Below(S, n)
  <1> DEFINE A == {x \in S : x < n}
  <1>1. IsFiniteSet(A) /\ c \notin A
    BY FS_Subset
  <1>2. Cardinality(A) \in Nat
    BY <1>1, FS_CardinalityType
  <1>3. CASE c < n
    <2>1. {x \in S \union {c} : x < n} = A \union {c}
      BY <1>3
    <2>2. Cardinality(A \union {c}) = Cardinality(A) + 1
      BY <1>1, FS_AddElement
    <2>3. QED
      BY <1>2, <1>3, <2>1, <2>2 DEF Below
  <1>4. CASE ~(c < n)
    <2>1. {x \in S \union {c} : x < n} = A
      BY <1>4
    <2>2. QED
      BY <1>2, <1>4, <2>1 DEF Below
  <1>5. QED
    BY <1>3, <1>4

\* The list is a finite set of integers.
LEMMA PresentFinite ==
    ASSUME PaginationAssumption, TypeOK
    PROVE  present \in SUBSET Int /\ IsFiniteSet(present) /\ Names \subseteq Int
  BY FS_Subset DEF PaginationAssumption, TypeOK

\* Every name of the list has a position of its own in it.
LEMMA RankInList ==
    ASSUME PaginationAssumption, TypeOK, NEW n \in Names
    PROVE  /\ Rank(n) \in Nat /\ Length \in Nat
           /\ n \in present => Rank(n) < Length
           /\ \A m \in present : n \in present /\ Rank(m) = Rank(n) => m = n
  <1>1. IsFiniteSet(present) /\ present \in SUBSET Int /\ n \in Int
    BY PresentFinite
  <1>2. Rank(n) \in Nat /\ Length \in Nat
    <2>1. n < n + 1 /\ n + 1 \in Int
      BY <1>1
    <2>2. QED
      BY <1>1, <2>1, BelowOrder, FS_CardinalityType DEF Rank, Below, Length
  <1>3. ASSUME n \in present PROVE Rank(n) < Length
    <2>1. IsFiniteSet(present \ {n}) /\ Cardinality(present \ {n}) = Length - 1
      BY <1>1, <1>3, FS_RemoveElement DEF Length
    <2>2. {m \in present : m < n} \subseteq present \ {n}
      BY <1>1
    <2>3. Rank(n) <= Length - 1
      BY <2>1, <2>2, FS_Subset DEF Rank
    <2>4. QED
      BY <1>2, <2>3
  <1>4. ASSUME NEW m \in present, n \in present, Rank(m) = Rank(n) PROVE m = n
    <2>1. m \in Int /\ Below(present, m) = Below(present, n)
      BY <1>1, <1>4 DEF Rank, Below
    <2>2. ~(m < n) /\ ~(n < m)
      BY <1>1, <1>4, <2>1, BelowOrder
    <2>3. QED
      BY <1>1, <2>1, <2>2
  <1>5. QED
    BY <1>2, <1>3, <1>4

\* A page that is served begins at a position of the list or at its end, and the token
\* it gives leads past it (paginate).
LEMMA PageBounds ==
    ASSUME PaginationAssumption, TypeOK, ~Rejected(token), NEW size \in PageSizes
    PROVE  /\ Length \in Nat /\ Index(token) \in Nat /\ Start(token) \in Nat
           /\ Start(token) <= Index(token)
           /\ Start(token) < Index(token) => Start(token) = Length
           /\ End(token, size) \in Nat /\ Start(token) < End(token, size)
           /\ NextToken(token, size) # NoToken =>
                 NextToken(token, size) = End(token, size)
           /\ NextToken(token, size) = NoToken => End(token, size) >= Length
           /\ NextToken(token, size) \in Int \union {NoToken} /\ NextToken(token, size) # Malformed
  <1>1. Length \in Nat
    BY FS_Subset, FS_CardinalityType DEF PaginationAssumption, TypeOK, Length
  <1>2. Index(token) \in Nat
    BY DEF PaginationAssumption, TypeOK, Rejected, Index
  <1>3. Size(size) \in Nat /\ Size(size) > 0
    BY DEF PaginationAssumption, Size
  <1>4. Start(token) \in Nat /\ Start(token) <= Index(token)
        /\ (Start(token) < Index(token) => Start(token) = Length)
    BY <1>1, <1>2 DEF Start
  <1>5. End(token, size) \in Nat /\ Start(token) < End(token, size)
    BY <1>3, <1>4 DEF End
  <1>6. QED
    BY <1>1, <1>2, <1>4, <1>5 DEF NextToken, PaginationAssumption

\* A token that is not rejected is a position.
LEMMA IndexType ==
    ASSUME PaginationAssumption, TypeOK, ~Rejected(token)
    PROVE  Index(token) \in Nat
  BY DEF PaginationAssumption, TypeOK, Rejected, Index

\* A set that gains one element at most.
LEMMA GrowsByOne ==
    ASSUME NEW S, IsFiniteSet(S), NEW x, NEW T \in SUBSET (S \union {x})
    PROVE  /\ Cardinality(S) \in Nat /\ Cardinality(T) \in Nat
           /\ Cardinality(T) <= Cardinality(S) + 1
  <1>1. IsFiniteSet(S \union {x}) /\ Cardinality(S) \in Nat
        /\ Cardinality(S \union {x}) <= Cardinality(S) + 1
    <2>1. Cardinality(S) \in Nat
      BY FS_CardinalityType
    <2>2. IsFiniteSet(S \union {x})
      BY FS_AddElement
    <2>3. Cardinality(S \union {x}) = IF x \in S THEN Cardinality(S) ELSE Cardinality(S) + 1
      BY FS_AddElement
    <2>4. QED
      BY <2>1, <2>2, <2>3
  <1>2. IsFiniteSet(T) /\ Cardinality(T) <= Cardinality(S \union {x})
    BY <1>1, FS_Subset
  <1>3. Cardinality(T) \in Nat /\ Cardinality(S \union {x}) \in Nat
    BY <1>1, <1>2, FS_CardinalityType
  <1>4. QED
    BY <1>1, <1>2, <1>3

-----------------------------------------------------------------------------
(* The inductive invariant: what a removal or a creation moves over the token. *)

\* Nothing has been reported before the first page, nor with a token that is refused.
Fresh == phase = "idle" \/ Rejected(token) => \A n \in Names : seen[n] = 0

\* The names that were there all the time and that the client will not be given, if
\* nothing changes any more: they lie before its token.
Missed == {n \in since : seen[n] = 0 /\ (phase = "paging" => Rank(n) < Index(token))}

\* The names the client has been given twice, or will be: they lie behind its token.
Again ==
    {n \in Names :
        \/ seen[n] > 1
        \/ phase = "paging" /\ n \in present /\ seen[n] > 0 /\ Rank(n) >= Index(token)}

MissedBounded ==
    from = NoToken /\ phase \in {"paging", "done"} =>
        ~Rejected(token) /\ Cardinality(Missed) <= removed

AgainBounded == Cardinality(Again) <= inserted

IInv == TypeOK /\ Fresh /\ MissedBounded /\ AgainBounded

\* Both sets are finite, and so are sets with one element more.
LEMMA DriftFinite ==
    ASSUME PaginationAssumption, TypeOK
    PROVE  /\ IsFiniteSet(Missed) /\ Cardinality(Missed) \in Nat
           /\ IsFiniteSet(Again) /\ Cardinality(Again) \in Nat
  <1>1. Missed \subseteq Names /\ Again \subseteq Names
    BY DEF TypeOK, Missed, Again
  <1>2. IsFiniteSet(Missed) /\ IsFiniteSet(Again)
    BY <1>1, FS_Subset DEF PaginationAssumption
  <1>3. QED
    BY <1>2, FS_CardinalityType

\* A step that adds nothing to the two sets.
LEMMA DriftSame ==
    ASSUME PaginationAssumption, IInv, TypeOK', Fresh',
           removed' \in Int, removed' >= removed, inserted' \in Int, inserted' >= inserted,
           from' = NoToken /\ phase' \in {"paging", "done"} =>
              /\ from = NoToken /\ phase \in {"paging", "done"}
              /\ ~Rejected(token)' /\ Missed' \subseteq Missed,
           Again' \subseteq Again
    PROVE  IInv'
  <1>1. removed \in Int /\ inserted \in Int
    BY DEF IInv, TypeOK
  <1>2. IsFiniteSet(Missed) /\ IsFiniteSet(Again)
        /\ Cardinality(Missed) \in Nat /\ Cardinality(Again) \in Nat
    BY DriftFinite DEF IInv
  <1>3. /\ Cardinality(Again') \in Nat /\ Cardinality(Again') <= Cardinality(Again)
    BY <1>2, FS_Subset, FS_CardinalityType
  <1>4. AgainBounded'
    BY <1>1, <1>2, <1>3 DEF IInv, AgainBounded
  <1>5. MissedBounded'
    <2> SUFFICES ASSUME from' = NoToken, phase' \in {"paging", "done"}
                 PROVE  Cardinality(Missed') <= removed'
      BY DEF MissedBounded
    <2>1. Missed' \subseteq Missed /\ Cardinality(Missed) <= removed
      BY DEF IInv, MissedBounded
    <2>2. Cardinality(Missed') \in Nat /\ Cardinality(Missed') <= Cardinality(Missed)
      BY <1>2, <2>1, FS_Subset, FS_CardinalityType
    <2>3. QED
      BY <1>1, <1>2, <2>1, <2>2
  <1>6. QED
    BY <1>4, <1>5 DEF IInv

\* The invariant holds at the start.
LEMMA InitEstablishes == PaginationAssumption /\ Init => IInv
  <1> SUFFICES ASSUME PaginationAssumption, Init PROVE IInv
    OBVIOUS
  <1>1. TypeOK
    BY DEF Init, TypeOK
  <1>2. Fresh /\ MissedBounded
    BY DEF Init, Fresh, MissedBounded
  <1>3. Again = {}
    BY DEF Init, Again
  <1>4. AgainBounded
    BY <1>3, FS_EmptySet DEF AgainBounded, Init
  <1>5. QED
    BY <1>1, <1>2, <1>4 DEF IInv

\* A client begins: nothing lies before the first name (a listing's first request).
LEMMA BeginPreserves ==
    ASSUME PaginationAssumption, IInv, NEW t \in Tokens, Begin(t)
    PROVE  IInv'
  <1>1. TypeOK'
    BY DEF PaginationAssumption, IInv, TypeOK, Begin
  <1>2. \A n \in Names : seen'[n] = 0
    BY DEF IInv, Fresh, Begin
  <1>3. Fresh'
    BY <1>2 DEF Fresh
  <1>4. Again' = {} /\ inserted' \in Nat
    <2>1. \A n \in Names : ~(seen'[n] > 0) /\ ~(seen'[n] > 1)
      BY <1>2
    <2>2. QED
      BY <1>1, <2>1 DEF Again, TypeOK
  <1>5. AgainBounded'
    BY <1>4, FS_EmptySet DEF AgainBounded
  <1>6. MissedBounded'
    <2> SUFFICES ASSUME from' = NoToken
                 PROVE  ~Rejected(token)' /\ Cardinality(Missed') <= removed'
      BY DEF MissedBounded
    <2>1. token' = NoToken /\ phase' = "paging" /\ present' = present
      BY DEF Begin
    <2>2. ~Rejected(token)' /\ Index(token)' = 0
      BY <2>1 DEF Rejected, Index, PaginationAssumption
    <2>3. \A n \in since' : ~(Rank(n)' < 0)
      <3> SUFFICES ASSUME NEW n \in since' PROVE ~(Rank(n)' < 0)
        OBVIOUS
      <3>1. n \in Names /\ Rank(n)' = Rank(n)
        BY <1>1, <2>1 DEF TypeOK, Rank
      <3>2. QED
        BY <3>1, RankInList DEF IInv
    <2>4. Missed' = {}
      BY <2>1, <2>2, <2>3 DEF Missed
    <2>5. QED
      BY <1>1, <2>2, <2>4, FS_EmptySet DEF TypeOK
  <1>7. QED
    BY <1>1, <1>3, <1>5, <1>6 DEF IInv

\* A page is served (paginate, ListTasks, ListQueues): what lies in it is given to the
\* client, what lies before it is not, and the next token leads past it.
LEMMA ListPagePreserves ==
    ASSUME PaginationAssumption, IInv, NEW size \in PageSizes, ListPage(size)
    PROVE  IInv'
  <1> USE DEF IInv
  <1>1. /\ phase = "paging" /\ ~Rejected(token)
        /\ token' = NextToken(token, size)
        /\ phase' = IF token' = NoToken THEN "done" ELSE "paging"
        /\ present' = present /\ since' = since /\ from' = from
        /\ removed' = removed /\ inserted' = inserted
        /\ \A n \in Names : seen'[n] = IF n \in Page(token, size) THEN seen[n] + 1 ELSE seen[n]
    BY DEF ListPage
  <1>2. TypeOK'
    <2>1. token' \in Int \union {NoToken, Malformed}
      BY <1>1, PageBounds
    <2>2. seen' \in [Names -> Nat]
      BY DEF ListPage, TypeOK
    <2>3. QED
      BY <1>1, <2>1, <2>2 DEF ListPage, TypeOK
  <1>3. ASSUME NEW n \in Names
        PROVE  /\ Rank(n) \in Nat /\ seen[n] \in Nat
               /\ n \in present => Rank(n) < Length
               /\ Rank(n)' = Rank(n)
               /\ n \in Page(token, size) <=>
                     n \in present /\ Start(token) <= Rank(n) /\ Rank(n) < End(token, size)
    BY <1>1, RankInList DEF Rank, Page, TypeOK
  <1>4. Index(token)' = IF token' = NoToken THEN 0 ELSE End(token, size)
    BY <1>1, PageBounds DEF Index
  <1>5. ~Rejected(token)'
    BY <1>1, PageBounds DEF Rejected, PaginationAssumption
  <1>6. Fresh'
    BY <1>1, <1>5 DEF Fresh
  <1>7. Missed' \subseteq Missed
    <2> SUFFICES ASSUME NEW n \in since, seen'[n] = 0,
                        phase' = "paging" => Rank(n)' < Index(token)'
                 PROVE  seen[n] = 0 /\ Rank(n) < Index(token)
      BY <1>1 DEF Missed
    <2>1. n \in present /\ n \in Names
      BY DEF TypeOK
    <2>2. n \notin Page(token, size) /\ seen[n] = 0
      BY <1>1, <1>3, <2>1
    <2>3. Rank(n) < End(token, size)
      BY <1>1, <1>3, <1>4, <2>1, PageBounds
    <2>4. Rank(n) < Start(token)
      BY <1>1, <1>3, <2>1, <2>2, <2>3, PageBounds
    <2>5. QED
      BY <1>1, <1>3, <2>1, <2>2, <2>4, PageBounds
  <1>8. Again' \subseteq Again
    <2> SUFFICES ASSUME NEW n \in Names, n \in Again' PROVE n \in Again
      BY DEF Again
    <2>1. ASSUME n \in present, seen[n] > 0, Start(token) <= Rank(n) PROVE n \in Again
      <3>1. Rank(n) >= Index(token)
        BY <1>1, <1>3, <2>1, PageBounds
      <3>2. QED
        BY <1>1, <2>1, <3>1 DEF Again
    <2>2. CASE seen'[n] > 1
      <3>1. CASE n \in Page(token, size)
        BY <1>1, <1>3, <2>1, <2>2, <3>1
      <3>2. CASE n \notin Page(token, size)
        BY <1>1, <2>2, <3>2 DEF Again
      <3>3. QED
        BY <3>1, <3>2
    <2>3. CASE ~(seen'[n] > 1)
      <3>1. /\ phase' = "paging" /\ n \in present /\ seen'[n] > 0
            /\ Rank(n) >= Index(token)'
        BY <1>1, <1>3, <2>3 DEF Again
      <3>2. Rank(n) >= End(token, size) /\ n \notin Page(token, size)
        BY <1>1, <1>3, <1>4, <3>1, PageBounds
      <3>3. seen[n] > 0 /\ Start(token) <= Rank(n)
        BY <1>1, <1>3, <3>1, <3>2, PageBounds
      <3>4. QED
        BY <2>1, <3>1, <3>3
    <2>4. QED
      BY <2>2, <2>3
  <1>9. /\ removed' \in Int /\ removed' >= removed
        /\ inserted' \in Int /\ inserted' >= inserted
    BY <1>1 DEF TypeOK
  <1>10. QED
    BY <1>1, <1>2, <1>5, <1>6, <1>7, <1>8, <1>9, DriftSame

\* A name is created (CreateTask, CreateQueue): the names after it move back by one, so
\* one of them at most moves over the token; and if the new one lies behind the token,
\* none does.
LEMMA CreatePreserves ==
    ASSUME PaginationAssumption, IInv, NEW c \in Names, Create(c)
    PROVE  IInv'
  <1> USE DEF IInv
  <1>1. /\ phase = "paging" /\ c \notin present /\ present' = present \union {c}
        /\ inserted' = inserted + 1 /\ removed' = removed /\ phase' = phase
        /\ token' = token /\ from' = from /\ seen' = seen /\ since' = since
    BY DEF Create
  <1>2. TypeOK'
    BY DEF TypeOK, Create
  <1>3. Fresh'
    BY <1>1 DEF Fresh, Rejected
  <1>4. Rejected(token)' = Rejected(token) /\ Index(token)' = Index(token)
    BY <1>1 DEF Rejected, Index
  <1>5. ASSUME NEW n \in Names
        PROVE  /\ Rank(n) \in Nat /\ n \in Int /\ c \in Int
               /\ Rank(n)' = IF c < n THEN Rank(n) + 1 ELSE Rank(n)
               /\ c < n => Rank(c) <= Rank(n)
    <2>1. Rank(n) = Below(present, n) /\ Rank(n)' = Below(present', n)
          /\ Rank(c) = Below(present, c)
      BY DEF Rank, Below
    <2>2. n \in Int /\ c \in Int
      BY PresentFinite
    <2>3. QED
      BY <1>1, <2>1, <2>2, PresentFinite, BelowAdd, BelowOrder
  <1>6. IsFiniteSet(Missed) /\ IsFiniteSet(Again)
        /\ Cardinality(Missed) \in Nat /\ Cardinality(Again) \in Nat
        /\ removed \in Nat /\ inserted \in Nat
    BY DriftFinite DEF TypeOK
  <1>7. MissedBounded'
    <2> SUFFICES ASSUME from = NoToken
                 PROVE  ~Rejected(token) /\ Cardinality(Missed') <= removed
      BY <1>1, <1>4 DEF MissedBounded
    <2>1. ~Rejected(token) /\ Cardinality(Missed) <= removed
      BY <1>1 DEF MissedBounded
    <2>2. Index(token) \in Nat
      BY <2>1, IndexType
    <2>3. Missed' \subseteq Missed
      <3> SUFFICES ASSUME NEW n \in since, seen[n] = 0, Rank(n)' < Index(token)
                   PROVE  Rank(n) < Index(token)
        BY <1>1, <1>4 DEF Missed
      <3>1. n \in Names
        BY DEF TypeOK
      <3>2. QED
        BY <1>5, <2>2, <3>1
    <2>4. Cardinality(Missed') \in Nat /\ Cardinality(Missed') <= Cardinality(Missed)
      BY <1>6, <2>3, FS_Subset, FS_CardinalityType
    <2>5. QED
      BY <1>6, <2>1, <2>4
  <1>8. \E x : Again' \subseteq Again \union {x}
    <2>1. CASE Rejected(token)
      <3>1. \A n \in Names : ~(seen'[n] > 0) /\ ~(seen'[n] > 1)
        BY <1>1, <2>1 DEF Fresh
      <3>2. Again' \subseteq Again \union {c}
        BY <3>1 DEF Again
      <3>3. QED
        BY <3>2
    <2>2. CASE ~Rejected(token)
      <3>0. Index(token) \in Nat
        BY <2>2, IndexType
      <3>1. ASSUME NEW n \in Again', n \notin Again, n # c
            PROVE  n \in present /\ c < n /\ Rank(n) = Index(token) - 1
        <4>1. /\ n \in Names /\ n \in present /\ seen[n] > 0 /\ ~(seen[n] > 1)
              /\ Rank(n)' >= Index(token) /\ ~(Rank(n) >= Index(token))
          BY <1>1, <1>4, <3>1 DEF Again
        <4>2. QED
          BY <1>5, <3>0, <4>1
      <3>2. CASE \E x \in Again' : x \notin Again /\ x # c
        <4>1. PICK x \in Again' : x \notin Again /\ x # c
          BY <3>2
        <4>2. x \in present /\ c < x /\ Rank(x) = Index(token) - 1
          BY <3>1, <4>1
        <4>3. ASSUME NEW n \in Again', n \notin Again, n # c PROVE n = x
          <5>1. n \in present /\ Rank(n) = Rank(x)
            BY <3>1, <4>2, <4>3
          <5>2. n \in Names /\ x \in Names
            BY <4>2, <5>1 DEF TypeOK
          <5>3. QED
            BY <4>2, <5>1, <5>2, RankInList
        <4>4. c \in Again' => c \in Again
          <5>1. Rank(c)' = Rank(c) /\ Rank(c) \in Nat
            BY <1>5
          <5>2. x \in Names
            BY <4>2 DEF TypeOK
          <5>3. Rank(c) <= Rank(x) /\ Rank(x) \in Nat
            BY <1>5, <4>2, <5>2
          <5>4. ~(Rank(c)' >= Index(token))
            BY <3>0, <4>2, <5>1, <5>3
          <5>5. QED
            BY <1>1, <1>4, <5>4 DEF Again
        <4>5. Again' \subseteq Again \union {x}
          BY <4>3, <4>4
        <4>6. QED
          BY <4>5
      <3>3. CASE ~\E x \in Again' : x \notin Again /\ x # c
        <4>1. Again' \subseteq Again \union {c}
          BY <3>3
        <4>2. QED
          BY <4>1
      <3>4. QED
        BY <3>2, <3>3
    <2>3. QED
      BY <2>1, <2>2
  <1>9. AgainBounded'
    <2>1. PICK x : Again' \subseteq Again \union {x}
      BY <1>8
    <2>2. Cardinality(Again') \in Nat /\ Cardinality(Again') <= Cardinality(Again) + 1
      BY <1>6, <2>1, GrowsByOne
    <2>3. QED
      BY <1>1, <1>6, <2>2 DEF AgainBounded
  <1>10. QED
    BY <1>2, <1>3, <1>7, <1>9

\* A name is removed (DeleteTask, complete, DeleteQueue): the names after it move to the
\* front by one, so one of them at most moves over the token.
LEMMA RemovePreserves ==
    ASSUME PaginationAssumption, IInv, NEW c \in Names, Remove(c)
    PROVE  IInv'
  <1> USE DEF IInv
  <1>1. /\ phase = "paging" /\ c \in present /\ present' = present \ {c}
        /\ removed' = removed + 1 /\ inserted' = inserted /\ phase' = phase
        /\ token' = token /\ from' = from /\ seen' = seen /\ since' = since \ {c}
    BY DEF Remove
  <1>2. TypeOK'
    BY DEF TypeOK, Remove
  <1>3. Fresh'
    BY <1>1 DEF Fresh, Rejected
  <1>4. Rejected(token)' = Rejected(token) /\ Index(token)' = Index(token)
    BY <1>1 DEF Rejected, Index
  <1>5. ASSUME NEW n \in Names
        PROVE  /\ Rank(n) \in Nat /\ Rank(n)' \in Nat
               /\ Rank(n) = IF c < n THEN Rank(n)' + 1 ELSE Rank(n)'
    <2>1. Rank(n) = Below(present, n) /\ Rank(n)' = Below(present', n)
      BY DEF Rank, Below
    <2>2. n \in Int /\ c \in Int
      BY PresentFinite
    <2>3. /\ present = present' \union {c} /\ c \notin present'
          /\ present' \in SUBSET Int /\ IsFiniteSet(present')
      BY <1>1, PresentFinite, FS_RemoveElement
    <2>4. /\ Below(present', n) \in Nat
          /\ Below(present' \union {c}, n) = IF c < n THEN Below(present', n) + 1
                                             ELSE Below(present', n)
      BY <2>2, <2>3, BelowAdd
    <2>5. QED
      BY <2>1, <2>3, <2>4
  <1>6. IsFiniteSet(Missed) /\ IsFiniteSet(Again)
        /\ Cardinality(Missed) \in Nat /\ Cardinality(Again) \in Nat
        /\ removed \in Nat /\ inserted \in Nat
    BY DriftFinite DEF TypeOK
  <1>7. AgainBounded'
    <2>1. Again' \subseteq Again
      <3> SUFFICES ASSUME NEW n \in Names, n \in Again' PROVE n \in Again
        BY DEF Again
      <3>1. CASE seen[n] > 1
        BY <3>1 DEF Again
      <3>2. CASE ~(seen[n] > 1)
        <4>1. n \in present /\ seen[n] > 0 /\ Rank(n)' >= Index(token)
          BY <1>1, <1>4, <3>2 DEF Again
        <4>2. ~Rejected(token)
          BY <4>1 DEF Fresh
        <4>3. Rank(n) >= Index(token)
          BY <1>5, <4>1, <4>2, IndexType
        <4>4. QED
          BY <1>1, <4>1, <4>3 DEF Again
      <3>3. QED
        BY <3>1, <3>2
    <2>2. Cardinality(Again') \in Nat /\ Cardinality(Again') <= Cardinality(Again)
      BY <1>6, <2>1, FS_Subset, FS_CardinalityType
    <2>3. QED
      BY <1>1, <1>6, <2>2 DEF AgainBounded
  <1>8. MissedBounded'
    <2> SUFFICES ASSUME from = NoToken
                 PROVE  ~Rejected(token) /\ Cardinality(Missed') <= removed + 1
      BY <1>1, <1>4 DEF MissedBounded
    <2>1. ~Rejected(token) /\ Cardinality(Missed) <= removed
      BY <1>1 DEF MissedBounded
    <2>2. Index(token) \in Nat
      BY <2>1, IndexType
    <2>3. ASSUME NEW n \in Missed', n \notin Missed
          PROVE  n \in present /\ Rank(n) = Index(token)
      <3>1. /\ n \in since /\ seen[n] = 0 /\ Rank(n)' < Index(token)
            /\ ~(Rank(n) < Index(token))
        BY <1>1, <1>4, <2>3 DEF Missed
      <3>2. n \in present /\ n \in Names
        BY <3>1 DEF TypeOK
      <3>3. QED
        BY <1>5, <2>2, <3>1, <3>2
    <2>4. \E x : Missed' \subseteq Missed \union {x}
      <3>1. CASE Missed' \subseteq Missed
        BY <3>1
      <3>2. CASE \E x \in Missed' : x \notin Missed
        <4>1. PICK x \in Missed' : x \notin Missed
          BY <3>2
        <4>2. ASSUME NEW n \in Missed', n \notin Missed PROVE n = x
          <5>1. n \in present /\ x \in present /\ Rank(n) = Rank(x)
            BY <2>3, <4>1, <4>2
          <5>2. n \in Names /\ x \in Names
            BY <5>1 DEF TypeOK
          <5>3. QED
            BY <5>1, <5>2, RankInList
        <4>3. Missed' \subseteq Missed \union {x}
          BY <4>2
        <4>4. QED
          BY <4>3
      <3>3. QED
        BY <3>1, <3>2
    <2>5. PICK x : Missed' \subseteq Missed \union {x}
      BY <2>4
    <2>6. Cardinality(Missed') \in Nat /\ Cardinality(Missed') <= Cardinality(Missed) + 1
      BY <1>6, <2>5, GrowsByOne
    <2>7. QED
      BY <1>6, <2>1, <2>6
  <1>9. QED
    BY <1>2, <1>3, <1>7, <1>8

\* A request that fails, a queue that is deleted, and a client that has ended.
LEMMA OthersPreserve ==
    ASSUME PaginationAssumption, IInv, ListFails \/ DeleteQueue \/ UNCHANGED vars
    PROVE  IInv'
  <1>1. TypeOK'
    BY DEF ListFails, DeleteQueue, vars, IInv, TypeOK
  <1>2. /\ present' = present /\ token' = token /\ from' = from /\ seen' = seen
        /\ since' = since /\ removed' = removed /\ inserted' = inserted
        /\ phase' = phase \/ phase' = "failed"
    BY DEF ListFails, DeleteQueue, vars
  <1>3. Rejected(token)' = Rejected(token) /\ Index(token)' = Index(token)
        /\ \A n \in Names : Rank(n)' = Rank(n)
    BY <1>2 DEF Rejected, Index, Rank
  <1>4. Fresh'
    BY <1>2, <1>3 DEF IInv, Fresh
  <1>5. Again' \subseteq Again
    BY <1>2, <1>3 DEF Again
  <1>6. ASSUME from' = NoToken, phase' \in {"paging", "done"}
        PROVE  /\ from = NoToken /\ phase \in {"paging", "done"}
               /\ ~Rejected(token)' /\ Missed' \subseteq Missed
    <2>1. phase' = phase
      BY <1>2, <1>6
    <2>2. since \subseteq Names
      BY DEF IInv, TypeOK
    <2>3. Missed' = Missed
      BY <1>2, <1>3, <2>1, <2>2 DEF Missed
    <2>4. QED
      BY <1>2, <1>3, <1>6, <2>1, <2>3 DEF IInv, MissedBounded
  <1>7. /\ removed' \in Int /\ removed' >= removed
        /\ inserted' \in Int /\ inserted' >= inserted
    BY <1>2 DEF IInv, TypeOK
  <1>8. QED
    BY <1>1, <1>4, <1>5, <1>6, <1>7, DriftSame

\* The strengthening holds of every reachable state.
LEMMA Invariance == Spec => []IInv
  <1>1. Init => IInv
    BY InitEstablishes, PaginationAssumption
  <1>2. IInv /\ [Next]_vars => IInv'
    BY PaginationAssumption, BeginPreserves, ListPagePreserves, CreatePreserves,
       RemovePreserves, OthersPreserve DEF Next, Ended
  <1>3. QED
    BY <1>1, <1>2, PTL DEF Spec

-----------------------------------------------------------------------------
(* What a client may rely on.                                                  *)

\* However creations and removals fall between the pages of a listing, each removal
\* costs the client at most one of the names that were there all the time, and each
\* creation shows it at most one name again (paginate's index tokens).
THEOREM DriftBoundedCorrect == Spec => []DriftBounded
  <1>1. IInv => DriftBounded
    <2> SUFFICES ASSUME IInv PROVE DriftBounded
      OBVIOUS
    <2>1. ASSUME phase = "done", from = NoToken PROVE Cardinality(Skipped) <= removed
      <3>1. Missed = Skipped
        BY <2>1 DEF Missed, Skipped
      <3>2. QED
        BY <2>1, <3>1 DEF IInv, MissedBounded
    <2>2. Cardinality({n \in Names : seen[n] > 1}) <= inserted
      <3> DEFINE R == {n \in Names : seen[n] > 1}
      <3>1. R \subseteq Again
        BY DEF Again
      <3>2. IsFiniteSet(Again) /\ Cardinality(Again) \in Nat /\ inserted \in Nat
            /\ Cardinality(Again) <= inserted
        BY PaginationAssumption, DriftFinite DEF IInv, TypeOK, AgainBounded
      <3>3. Cardinality(R) \in Nat /\ Cardinality(R) <= Cardinality(Again)
        BY <3>1, <3>2, FS_Subset, FS_CardinalityType
      <3>4. QED
        BY <3>2, <3>3
    <2>3. QED
      BY <2>1, <2>2 DEF DriftBounded
  <1>2. QED
    BY <1>1, Invariance, PTL

\* A listing from the beginning during which nothing is removed reports every name that
\* was there when it began (paginate's index tokens, whatever the page sizes).
THEOREM AllListedCorrect == Spec => []AllListed
  <1>1. IInv => AllListed
    <2> SUFFICES ASSUME IInv, phase = "done", from = NoToken, removed = 0
                 PROVE  Skipped = {}
      BY DEF AllListed
    <2>1. Missed = Skipped
      BY DEF Missed, Skipped
    <2>2. IsFiniteSet(Missed) /\ Cardinality(Missed) \in Nat
      BY PaginationAssumption, DriftFinite DEF IInv
    <2>3. Cardinality(Missed) = 0
      BY <2>2 DEF IInv, MissedBounded
    <2>4. QED
      BY <2>1, <2>2, <2>3, FS_EmptySet
  <1>2. QED
    BY <1>1, Invariance, PTL

\* A listing during which nothing is created reports no name twice.
THEOREM ListedOnceCorrect == Spec => []ListedOnce
  <1>1. IInv => ListedOnce
    <2> SUFFICES ASSUME IInv, inserted = 0, NEW n \in Names PROVE seen[n] <= 1
      BY DEF ListedOnce
    <2>1. IsFiniteSet(Again) /\ Cardinality(Again) \in Nat
      BY PaginationAssumption, DriftFinite DEF IInv
    <2>2. Cardinality(Again) = 0
      BY <2>1 DEF IInv, AgainBounded
    <2>3. n \notin Again
      BY <2>1, <2>2, FS_EmptySet
    <2>4. QED
      BY <2>3 DEF Again, IInv, TypeOK
  <1>2. QED
    BY <1>1, Invariance, PTL
=============================================================================
