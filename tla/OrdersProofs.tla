---------------------------- MODULE OrdersProofs ----------------------------
(***************************************************************************)
(* What Orders guarantees for any buyers, prices, deposits, stock and      *)
(* number of offers and crashes.                                           *)
(*                                                                         *)
(* The argument counts, for one buyer, its coins, the worth of what it     *)
(* got, the deposits it lost and what its ready orders hold.  Every step   *)
(* of the running engine keeps that balance; a save copies it to the       *)
(* database and a restart copies it back.  Only the write-through of a     *)
(* delivery changes the database's balance, by what its row held: the row  *)
(* is then among the orders a crash would lose.                            *)
(***************************************************************************)
EXTENDS Orders, TLAPS, FiniteSetTheorems

USE PriceAssumption, BuyersAssumption, BoundsAssumption

----------------------------------------------------------------------------
(* Counting orders *)

\* Sets of ids are finite.
LEMMA IdsFinite ==
    ASSUME NEW I \in SUBSET Ids
    PROVE  IsFiniteSet(I) /\ Cardinality(I) \in Nat
<1>1. IsFiniteSet(Ids)
  BY FS_Interval DEF Ids
<1>2. IsFiniteSet(I)
  BY <1>1, FS_Subset
<1> QED BY <1>2, FS_CardinalityType

\* A set of ids counts as much as its two parts.
LEMMA CountSplit ==
    ASSUME NEW I \in SUBSET Ids, NEW J \in SUBSET Ids, NEW K \in SUBSET Ids,
           I = J \cup K, J \cap K = {}
    PROVE  Cardinality(I) = Cardinality(J) + Cardinality(K)
<1>1. IsFiniteSet(J) /\ IsFiniteSet(K) /\ Cardinality(J) \in Nat /\ Cardinality(K) \in Nat
  BY IdsFinite
<1>2. Cardinality(J \cap K) = 0
  BY FS_EmptySet
<1>3. Cardinality(J \cup K) = Cardinality(J) + Cardinality(K) - Cardinality(J \cap K)
  BY <1>1, FS_Union
<1> QED BY <1>1, <1>2, <1>3

LEMMA Distributes ==
    ASSUME NEW p \in Nat, NEW m \in Nat, NEW n \in Nat
    PROVE  p * (m + n) = p * m + p * n /\ p * m \in Nat
OBVIOUS

LEMMA EscrowType ==
    ASSUME NEW b, NEW book, NEW I \in SUBSET Ids
    PROVE  Escrow(b, book, I) \in Nat
<1> DEFINE P == {i \in I : book[i].buyer = b /\ book[i].part}
           F == {i \in I : book[i].buyer = b /\ ~book[i].part}
<1>1. Cardinality(P) \in Nat /\ Cardinality(F) \in Nat
  BY IdsFinite
<1>2. Deposit * Cardinality(P) \in Nat /\ Price * Cardinality(F) \in Nat
  BY <1>1, Distributes
<1> QED BY <1>2 DEF Escrow

\* What the orders I hold is what J holds and what the others hold.
LEMMA EscrowSplit ==
    ASSUME NEW b, NEW book, NEW I \in SUBSET Ids, NEW J \in SUBSET I
    PROVE  Escrow(b, book, I) = Escrow(b, book, J) + Escrow(b, book, I \ J)
<1> DEFINE P(S) == {i \in S : book[i].buyer = b /\ book[i].part}
           F(S) == {i \in S : book[i].buyer = b /\ ~book[i].part}
<1>1. \A S \in SUBSET Ids : P(S) \in SUBSET Ids /\ F(S) \in SUBSET Ids
  OBVIOUS
<1>2. J \in SUBSET Ids /\ I \ J \in SUBSET Ids
  OBVIOUS
<1>3. P(I) = P(J) \cup P(I \ J) /\ P(J) \cap P(I \ J) = {}
  OBVIOUS
<1>4. F(I) = F(J) \cup F(I \ J) /\ F(J) \cap F(I \ J) = {}
  OBVIOUS
<1>5. Cardinality(P(I)) = Cardinality(P(J)) + Cardinality(P(I \ J))
  <2> HIDE DEF P
  <2> QED BY ZenonT(60), <1>1, <1>2, <1>3, CountSplit
<1>6. Cardinality(F(I)) = Cardinality(F(J)) + Cardinality(F(I \ J))
  <2> HIDE DEF F
  <2> QED BY ZenonT(60), <1>1, <1>2, <1>4, CountSplit
<1>7. \A S \in SUBSET Ids : Cardinality(P(S)) \in Nat /\ Cardinality(F(S)) \in Nat
  <2> HIDE DEF P, F
  <2> QED BY <1>1, IdsFinite
<1>8. \A S : Escrow(b, book, S) = Deposit * Cardinality(P(S)) + Price * Cardinality(F(S))
  BY DEF Escrow
<1> HIDE DEF P, F
<1>9. /\ Deposit * Cardinality(P(I))
            = Deposit * Cardinality(P(J)) + Deposit * Cardinality(P(I \ J))
      /\ Deposit * Cardinality(P(J)) \in Nat /\ Deposit * Cardinality(P(I \ J)) \in Nat
  BY <1>2, <1>5, <1>7, Distributes
<1>10. /\ Price * Cardinality(F(I))
            = Price * Cardinality(F(J)) + Price * Cardinality(F(I \ J))
       /\ Price * Cardinality(F(J)) \in Nat /\ Price * Cardinality(F(I \ J)) \in Nat
  BY <1>2, <1>6, <1>7, Distributes
<1> QED BY <1>8, <1>9, <1>10

\* One order holds what was paid for it, for its buyer.
LEMMA EscrowOne ==
    ASSUME NEW b, NEW book, NEW i
    PROVE  Escrow(b, book, {i}) = IF book[i].buyer = b THEN Paid(book[i]) ELSE 0
<1> DEFINE P == {j \in {i} : book[j].buyer = b /\ book[j].part}
           F == {j \in {i} : book[j].buyer = b /\ ~book[j].part}
<1>1. Escrow(b, book, {i}) = Deposit * Cardinality(P) + Price * Cardinality(F)
  BY DEF Escrow
<1>2. Cardinality({i}) = 1 /\ Cardinality({}) = 0
  BY FS_Singleton, FS_EmptySet
<1>3. CASE book[i].buyer = b /\ book[i].part
  <2>1. P = {i} /\ F = {} /\ Paid(book[i]) = Deposit
    BY <1>3 DEF Paid
  <2> HIDE DEF P, F
  <2> QED BY <1>1, <1>2, <1>3, <2>1
<1>4. CASE book[i].buyer = b /\ ~book[i].part
  <2>1. P = {} /\ F = {i} /\ Paid(book[i]) = Price
    BY <1>4 DEF Paid
  <2> HIDE DEF P, F
  <2> QED BY <1>1, <1>2, <1>4, <2>1
<1>5. CASE book[i].buyer # b
  <2>1. P = {} /\ F = {}
    BY <1>5
  <2> HIDE DEF P, F
  <2> QED BY <1>1, <1>2, <1>5, <2>1
<1> QED BY <1>3, <1>4, <1>5

\* What orders hold depends on their buyers and deposits only.
LEMMA EscrowSame ==
    ASSUME NEW b, NEW f, NEW g, NEW I,
           \A i \in I : f[i].buyer = g[i].buyer /\ f[i].part = g[i].part
    PROVE  Escrow(b, f, I) = Escrow(b, g, I)
<1>1. {i \in I : f[i].buyer = b /\ f[i].part} = {i \in I : g[i].buyer = b /\ g[i].part}
  OBVIOUS
<1>2. {i \in I : f[i].buyer = b /\ ~f[i].part} = {i \in I : g[i].buyer = b /\ ~g[i].part}
  OBVIOUS
<1> QED BY <1>1, <1>2 DEF Escrow

----------------------------------------------------------------------------
(* Books *)

\* An order's end changes its state alone.
LEMMA RowState ==
    ASSUME NEW o \in Row, NEW s
    PROVE  LET end == [o EXCEPT !.state = s]
           IN  end.state = s /\ end.buyer = o.buyer /\ end.kind = o.kind /\ end.part = o.part
BY DEF Row, Order

\* Orders are rows.
LEMMA OrdersAreRows ==
    ASSUME NEW book, IsBook(book, Order)
    PROVE  IsBook(book, Row)
BY DEF IsBook, Row

\* The ready orders of a book are ids.
LEMMA ReadyIds ==
    ASSUME NEW book, NEW R, IsBook(book, R)
    PROVE  ReadyIn(book) \in SUBSET Ids /\ ReadyIn(book) \subseteq DOMAIN book
BY DEF IsBook, ReadyIn

\* Minting adds what was paid to what the ready orders hold.
LEMMA EscrowPut ==
    ASSUME NEW book, NEW R, IsBook(book, R), NEW i \in Ids \ DOMAIN book, NEW o, NEW c
    PROVE  Escrow(c, Put(book, i, o), ReadyIn(Put(book, i, o)))
              = Escrow(c, book, ReadyIn(book))
                + IF o.state = "ready" /\ o.buyer = c THEN Paid(o) ELSE 0
<1> DEFINE new == Put(book, i, o)
<1>1. new[i] = o /\ \A j \in DOMAIN book : new[j] = book[j]
  BY DEF Put
<1>2. DOMAIN new = DOMAIN book \cup {i}
  BY DEF Put
<1>3. ReadyIn(book) \in SUBSET Ids /\ i \notin ReadyIn(book)
  BY DEF IsBook, ReadyIn
<1>4. Escrow(c, new, ReadyIn(book)) = Escrow(c, book, ReadyIn(book))
  BY <1>1, EscrowSame DEF ReadyIn
<1>5. Escrow(c, new, {i}) = IF o.buyer = c THEN Paid(o) ELSE 0
  BY <1>1, EscrowOne
<1>6. Escrow(c, book, ReadyIn(book)) \in Nat
  BY <1>3, EscrowType
<1> HIDE DEF new
<1>7. CASE o.state = "ready"
  <2>1. ReadyIn(new) = ReadyIn(book) \cup {i}
    BY <1>1, <1>2, <1>7 DEF ReadyIn
  <2>2. /\ ReadyIn(new) \in SUBSET Ids /\ {i} \in SUBSET ReadyIn(new)
        /\ ReadyIn(new) \ {i} = ReadyIn(book)
    BY <1>3, <2>1
  <2>3. Escrow(c, new, ReadyIn(new)) = Escrow(c, new, {i}) + Escrow(c, new, ReadyIn(book))
    BY <2>2, EscrowSplit
  <2>4. Escrow(c, new, {i}) \in Nat
    BY <2>2, EscrowType
  <2> QED BY <1>4, <1>5, <1>6, <1>7, <2>3, <2>4 DEF new
<1>8. CASE o.state # "ready"
  <2>1. ReadyIn(new) = ReadyIn(book)
    BY <1>1, <1>2, <1>8 DEF ReadyIn
  <2> QED BY <1>4, <1>6, <1>8, <2>1 DEF new
<1> QED BY <1>7, <1>8

\* Closing orders releases what they held.
LEMMA EscrowClosed ==
    ASSUME NEW book, IsBook(book, Row), NEW I, NEW s, s # "ready", NEW c
    PROVE  /\ ReadyIn(Closed(book, I, s)) = ReadyIn(book) \ I
           /\ Escrow(c, Closed(book, I, s), ReadyIn(Closed(book, I, s)))
                = Escrow(c, book, ReadyIn(book) \ I)
<1> DEFINE new == Closed(book, I, s)
<1>1. DOMAIN new = DOMAIN book /\ \A j \in DOMAIN book \ I : new[j] = book[j]
  BY DEF Closed
<1>2. ASSUME NEW j \in DOMAIN book \cap I, new[j].state = "ready"
      PROVE  FALSE
  <2>1. book[j] \in Row
    BY DEF IsBook
  <2>2. new[j] = [book[j] EXCEPT !.state = s]
    BY DEF Closed
  <2> QED BY <1>2, <2>1, <2>2, RowState
<1> HIDE DEF new
<1>3. ReadyIn(new) = ReadyIn(book) \ I
  BY <1>1, <1>2 DEF ReadyIn
<1>4. Escrow(c, new, ReadyIn(book) \ I) = Escrow(c, book, ReadyIn(book) \ I)
  BY <1>1, EscrowSame DEF ReadyIn
<1> QED BY <1>3, <1>4 DEF new

LEMMA EscrowWithout ==
    ASSUME NEW book, NEW R, IsBook(book, R), NEW I, NEW c
    PROVE  /\ ReadyIn(Without(book, I)) = ReadyIn(book) \ I
           /\ Escrow(c, Without(book, I), ReadyIn(Without(book, I)))
                = Escrow(c, book, ReadyIn(book) \ I)
<1> DEFINE new == Without(book, I)
<1>1. DOMAIN new = DOMAIN book \ I /\ \A j \in DOMAIN book \ I : new[j] = book[j]
  BY DEF Without
<1> HIDE DEF new
<1>2. ReadyIn(new) = ReadyIn(book) \ I
  BY <1>1 DEF ReadyIn
<1>3. Escrow(c, new, ReadyIn(book) \ I) = Escrow(c, book, ReadyIn(book) \ I)
  BY <1>1, EscrowSame DEF ReadyIn
<1> QED BY <1>2, <1>3 DEF new

\* A save leaves the database holding what the saved orders hold: the rows it
\* does not know are closed, the others are replaced.
LEMMA EscrowSaved ==
    ASSUME NEW rows, IsBook(rows, Row), NEW book, NEW c
    PROVE  LET saved == Upsert(ExpireAbsent(rows, DOMAIN book), book)
           IN  Escrow(c, saved, ReadyIn(saved)) = Escrow(c, book, ReadyIn(book))
<1> DEFINE old == ExpireAbsent(rows, DOMAIN book)
           saved == Upsert(old, book)
<1>1. DOMAIN old = DOMAIN rows
  BY DEF ExpireAbsent, Closed
<1>2. ASSUME NEW j \in DOMAIN rows \ DOMAIN book, old[j].state = "ready"
      PROVE  FALSE
  <2>1. CASE j \in ReadyIn(rows)
    <3>1. old[j] = [rows[j] EXCEPT !.state = "expired"]
      BY <2>1 DEF ExpireAbsent, Closed
    <3>2. rows[j] \in Row
      BY DEF IsBook
    <3> QED BY <1>2, <3>1, <3>2, RowState
  <2>2. CASE j \notin ReadyIn(rows)
    <3>1. old[j] = rows[j]
      BY <2>2 DEF ExpireAbsent, Closed
    <3> QED BY <1>2, <2>2, <3>1 DEF ReadyIn
  <2> QED BY <2>1, <2>2
<1>3. /\ DOMAIN saved = DOMAIN old \cup DOMAIN book
      /\ \A j \in DOMAIN book : saved[j] = book[j]
      /\ \A j \in DOMAIN old \ DOMAIN book : saved[j] = old[j]
  BY DEF Upsert
<1> HIDE DEF saved, old
<1>4. ReadyIn(saved) = ReadyIn(book)
  BY <1>1, <1>2, <1>3 DEF ReadyIn
<1>5. Escrow(c, saved, ReadyIn(book)) = Escrow(c, book, ReadyIn(book))
  BY <1>3, EscrowSame DEF ReadyIn
<1> QED BY <1>4, <1>5 DEF saved, old

----------------------------------------------------------------------------
(* Accounts *)

\* A buyer's coins, goods and lost deposits.
Held(acts, c) == acts.coins[c] + Price * acts.got[c] + Deposit * acts.lost[c]

\* The buyer's side of the books: what it holds and what its orders hold for it.
Balance(acts, book, c) == Held(acts, c) + Escrow(c, book, ReadyIn(book))

TillMatches(acts, c) == acts.till[c] = Purse - acts.coins[c]

LEMMA ActorFields ==
    ASSUME NEW acts \in ActorState, NEW c \in Buyers
    PROVE  /\ acts.coins[c] \in Int /\ acts.till[c] \in Int
           /\ acts.got[c] \in Nat /\ acts.lost[c] \in Nat /\ acts.stock \in Nat
           /\ Price * acts.got[c] \in Nat /\ Deposit * acts.lost[c] \in Nat
           /\ Held(acts, c) \in Int
<1>1. /\ acts.coins[c] \in Int /\ acts.till[c] \in Int
      /\ acts.got[c] \in Nat /\ acts.lost[c] \in Nat /\ acts.stock \in Nat
  BY DEF ActorState
<1>2. Price * acts.got[c] \in Nat /\ Deposit * acts.lost[c] \in Nat
  BY <1>1, Distributes
<1> QED BY <1>1, <1>2 DEF Held

\* Paying a charge and getting some units.
LEMMA ChargedHeld ==
    ASSUME NEW acts \in ActorState, NEW b \in Buyers, NEW charge \in Nat, NEW units \in Nat,
           NEW taken \in Nat, taken <= acts.stock, NEW done \in SUBSET Ids
    PROVE  /\ Charged(acts, b, charge, units, taken, done) \in ActorState
           /\ \A c \in Buyers :
                 /\ Held(Charged(acts, b, charge, units, taken, done), c)
                       = Held(acts, c) + IF c = b THEN Price * units - charge ELSE 0
                 /\ TillMatches(acts, c) => TillMatches(Charged(acts, b, charge, units, taken, done), c)
<1> DEFINE new == Charged(acts, b, charge, units, taken, done)
<1>1. /\ acts.coins \in [Buyers -> Int] /\ acts.till \in [Buyers -> Int]
      /\ acts.got \in [Buyers -> Nat] /\ acts.lost \in [Buyers -> Nat] /\ acts.stock \in Nat
      /\ acts.handed \in SUBSET Ids
  BY DEF ActorState
<1>2. /\ new.coins \in [Buyers -> Int] /\ new.till \in [Buyers -> Int]
      /\ new.got \in [Buyers -> Nat] /\ new.lost \in [Buyers -> Nat] /\ new.stock \in Nat
      /\ new.handed \in SUBSET Ids
  BY <1>1 DEF Charged
<1>3. new \in ActorState
  <2>1. new = [coins |-> new.coins, till |-> new.till, got |-> new.got, lost |-> new.lost,
               stock |-> new.stock, handed |-> new.handed]
    BY DEF Charged
  <2> HIDE DEF new
  <2> QED BY <1>2, <2>1 DEF ActorState
<1>4. ASSUME NEW c \in Buyers
      PROVE  /\ Held(new, c) = Held(acts, c) + IF c = b THEN Price * units - charge ELSE 0
             /\ TillMatches(acts, c) => TillMatches(new, c)
  <2>1. /\ new.coins[c] = acts.coins[c] - IF c = b THEN charge ELSE 0
        /\ new.till[c] = acts.till[c] + IF c = b THEN charge ELSE 0
        /\ new.got[c] = acts.got[c] + IF c = b THEN units ELSE 0
        /\ new.lost[c] = acts.lost[c]
    BY <1>1 DEF Charged
  <2>2. Price * new.got[c] = Price * acts.got[c] + IF c = b THEN Price * units ELSE 0
    <3>1. acts.got[c] \in Nat
      BY <1>1
    <3>2. Price * (acts.got[c] + units) = Price * acts.got[c] + Price * units
      BY <3>1, Distributes
    <3>3. Price * acts.got[c] \in Nat
      BY <3>1, Distributes
    <3> HIDE DEF new
    <3> QED BY <2>1, <3>1, <3>2, <3>3
  <2>3. /\ acts.coins[c] \in Int /\ acts.till[c] \in Int /\ Price * acts.got[c] \in Nat
        /\ Deposit * acts.lost[c] \in Nat /\ Price * units \in Nat
    BY ActorFields, Distributes
  <2> HIDE DEF new
  <2>4. Held(new, c) = Held(acts, c) + IF c = b THEN Price * units - charge ELSE 0
    BY <2>1, <2>2, <2>3 DEF Held
  <2>5. TillMatches(acts, c) => TillMatches(new, c)
    BY <2>1, <2>3 DEF TillMatches
  <2> QED BY <2>4, <2>5
<1> QED BY <1>3, <1>4

\* An expiry pays back, or takes as lost deposits, exactly what the orders held.
LEMMA ExpiredHeld ==
    ASSUME NEW acts \in ActorState, NEW book, IsBook(book, Order),
           NEW I \in SUBSET ReadyIn(book)
    PROVE  /\ Expired(acts, book, I) \in ActorState
           /\ \A c \in Buyers :
                 /\ Held(Expired(acts, book, I), c) = Held(acts, c) + Escrow(c, book, I)
                 /\ TillMatches(acts, c) => TillMatches(Expired(acts, book, I), c)
<1> DEFINE kept == {i \in I : book[i].part /\ acts.stock >= 1}
           new == Expired(acts, book, I)
           mine(c) == {i \in kept : book[i].buyer = c}
<1>1. I \in SUBSET Ids /\ kept \in SUBSET I /\ I \ kept \in SUBSET Ids /\ kept \in SUBSET Ids
  BY ReadyIds
<1>2. /\ acts.coins \in [Buyers -> Int] /\ acts.till \in [Buyers -> Int]
      /\ acts.got \in [Buyers -> Nat] /\ acts.lost \in [Buyers -> Nat] /\ acts.stock \in Nat
      /\ acts.handed \in SUBSET Ids
  BY DEF ActorState
<1>3. /\ new.coins = [c \in Buyers |-> acts.coins[c] + Escrow(c, book, I \ kept)]
      /\ new.till = [c \in Buyers |-> acts.till[c] - Escrow(c, book, I \ kept)]
      /\ new.got = acts.got
      /\ new.lost = [c \in Buyers |-> acts.lost[c] + Cardinality(mine(c))]
      /\ new.stock = acts.stock /\ new.handed = acts.handed
  BY DEF Expired, Refund
<1>4. new = [coins |-> new.coins, till |-> new.till, got |-> new.got, lost |-> new.lost,
             stock |-> new.stock, handed |-> new.handed]
  BY DEF Expired
<1>5. ASSUME NEW c \in Buyers
      PROVE  /\ Cardinality(mine(c)) \in Nat
             /\ Escrow(c, book, I \ kept) \in Nat
             /\ Escrow(c, book, I) = Deposit * Cardinality(mine(c)) + Escrow(c, book, I \ kept)
             /\ Deposit * Cardinality(mine(c)) \in Nat
  <2>1. mine(c) \in SUBSET Ids
    BY <1>1
  <2>2. Cardinality(mine(c)) \in Nat
    <3> HIDE DEF mine
    <3> QED BY <2>1, IdsFinite
  <2>3. Deposit * Cardinality(mine(c)) \in Nat
    <3> HIDE DEF mine
    <3> QED BY <2>2, Distributes
  <2>4. Escrow(c, book, I) = Escrow(c, book, kept) + Escrow(c, book, I \ kept)
    <3> HIDE DEF kept
    <3> QED BY <1>1, EscrowSplit
  <2>5. /\ {i \in kept : book[i].buyer = c /\ book[i].part} = mine(c)
        /\ {i \in kept : book[i].buyer = c /\ ~book[i].part} = {}
    OBVIOUS
  <2>6. Escrow(c, book, kept) = Deposit * Cardinality(mine(c))
    <3>1. Escrow(c, book, kept) = Deposit * Cardinality(mine(c)) + Price * Cardinality({})
      <4> HIDE DEF mine
      <4> QED BY <2>5 DEF Escrow
    <3>2. Cardinality({}) = 0
      BY FS_EmptySet
    <3> HIDE DEF kept, mine
    <3> QED BY <2>3, <3>1, <3>2
  <2>7. Escrow(c, book, I \ kept) \in Nat
    <3> HIDE DEF kept
    <3> QED BY <1>1, EscrowType
  <2> HIDE DEF kept, mine
  <2> QED BY <2>2, <2>3, <2>4, <2>6, <2>7
<1> HIDE DEF kept, mine, new
<1>6. new \in ActorState
  <2>1. \A c \in Buyers : /\ acts.coins[c] + Escrow(c, book, I \ kept) \in Int
                           /\ acts.till[c] - Escrow(c, book, I \ kept) \in Int
                           /\ acts.lost[c] + Cardinality(mine(c)) \in Nat
    <3> TAKE c \in Buyers
    <3>1. Cardinality(mine(c)) \in Nat /\ Escrow(c, book, I \ kept) \in Nat
      BY <1>5
    <3>2. acts.coins[c] \in Int /\ acts.till[c] \in Int /\ acts.lost[c] \in Nat
      BY <1>2
    <3> QED BY <3>1, <3>2
  <2>2. /\ new.coins \in [Buyers -> Int] /\ new.till \in [Buyers -> Int]
        /\ new.got \in [Buyers -> Nat] /\ new.lost \in [Buyers -> Nat] /\ new.stock \in Nat
        /\ new.handed \in SUBSET Ids
    <3>1. new.coins \in [Buyers -> Int] /\ new.till \in [Buyers -> Int]
      BY <1>3, <2>1
    <3>2. new.lost \in [Buyers -> Nat]
      BY <1>3, <2>1
    <3>3. new.got \in [Buyers -> Nat] /\ new.stock \in Nat /\ new.handed \in SUBSET Ids
      BY <1>2, <1>3
    <3> QED BY <3>1, <3>2, <3>3
  <2> QED BY <1>4, <2>2 DEF ActorState
<1>7. ASSUME NEW c \in Buyers
      PROVE  /\ Held(new, c) = Held(acts, c) + Escrow(c, book, I)
             /\ TillMatches(acts, c) => TillMatches(new, c)
  <2>1. /\ new.coins[c] = acts.coins[c] + Escrow(c, book, I \ kept)
        /\ new.till[c] = acts.till[c] - Escrow(c, book, I \ kept)
        /\ new.got[c] = acts.got[c]
        /\ new.lost[c] = acts.lost[c] + Cardinality(mine(c))
    BY <1>3
  <2>2. /\ acts.coins[c] \in Int /\ acts.till[c] \in Int /\ Price * acts.got[c] \in Nat
        /\ acts.lost[c] \in Nat /\ Deposit * acts.lost[c] \in Nat
    BY ActorFields
  <2>3. Deposit * new.lost[c] = Deposit * acts.lost[c] + Deposit * Cardinality(mine(c))
    BY <1>5, <2>1, <2>2, Distributes
  <2>4. /\ Escrow(c, book, I \ kept) \in Nat /\ Deposit * Cardinality(mine(c)) \in Nat
        /\ Escrow(c, book, I) = Deposit * Cardinality(mine(c)) + Escrow(c, book, I \ kept)
    BY <1>5
  <2>5. Held(new, c) = Held(acts, c) + Escrow(c, book, I)
    BY <2>1, <2>2, <2>3, <2>4 DEF Held
  <2>6. TillMatches(acts, c) => TillMatches(new, c)
    BY <2>1, <2>2, <2>4 DEF TillMatches
  <2> QED BY <2>5, <2>6
<1> QED BY <1>6, <1>7 DEF new

----------------------------------------------------------------------------
(* Types of books *)

LEMMA PutDomain ==
    ASSUME NEW book, NEW i, NEW o
    PROVE  DOMAIN Put(book, i, o) = DOMAIN book \cup {i}
BY DEF Put

LEMMA BookPut ==
    ASSUME NEW R, NEW book, IsBook(book, R), NEW i \in Ids, NEW o \in R
    PROVE  IsBook(Put(book, i, o), R)
<1> DEFINE new == Put(book, i, o)
<1>1. new = [j \in DOMAIN book \cup {i} |-> IF j = i THEN o ELSE book[j]]
  BY DEF Put
<1>2. DOMAIN new = DOMAIN book \cup {i} /\ new = [j \in DOMAIN new |-> new[j]]
  BY <1>1
<1>3. \A j \in DOMAIN new : new[j] \in R
  BY <1>1 DEF IsBook
<1> QED BY <1>2, <1>3 DEF IsBook

LEMMA BookWithout ==
    ASSUME NEW R, NEW book, IsBook(book, R), NEW I
    PROVE  IsBook(Without(book, I), R) /\ DOMAIN Without(book, I) = DOMAIN book \ I
<1> DEFINE new == Without(book, I)
<1>1. new = [j \in DOMAIN book \ I |-> book[j]]
  BY DEF Without
<1>2. DOMAIN new = DOMAIN book \ I /\ new = [j \in DOMAIN new |-> new[j]]
  BY <1>1
<1>3. \A j \in DOMAIN new : new[j] \in R
  BY <1>1 DEF IsBook
<1> QED BY <1>2, <1>3 DEF IsBook

\* The ready rows among some rows, as a restart loads them, are orders.
LEMMA BookLoaded ==
    ASSUME NEW rows, IsBook(rows, Row)
    PROVE  LET loaded == Without(rows, DOMAIN rows \ ReadyIn(rows))
           IN  /\ IsBook(loaded, Order)
               /\ DOMAIN loaded = ReadyIn(rows) /\ ReadyIn(loaded) = ReadyIn(rows)
<1> DEFINE loaded == Without(rows, DOMAIN rows \ ReadyIn(rows))
<1>1. DOMAIN loaded = ReadyIn(rows) /\ loaded = [j \in ReadyIn(rows) |-> rows[j]]
  BY DEF Without, ReadyIn
<1>2. \A j \in ReadyIn(rows) : rows[j] \in Order
  BY DEF ReadyIn, IsBook, Row
<1>3. ReadyIn(loaded) = ReadyIn(rows)
  BY <1>1 DEF ReadyIn
<1> HIDE DEF loaded
<1>4. IsBook(loaded, Order)
  BY <1>1, <1>2 DEF IsBook, ReadyIn
<1> QED BY <1>1, <1>3, <1>4 DEF loaded

LEMMA BookClosed ==
    ASSUME NEW book, IsBook(book, Order), NEW I, NEW s \in {"delivered", "expired"}
    PROVE  IsBook(Closed(book, I, s), Order) /\ DOMAIN Closed(book, I, s) = DOMAIN book
<1> DEFINE new == Closed(book, I, s)
<1>1. new = [j \in DOMAIN book |-> IF j \in I THEN [book[j] EXCEPT !.state = s] ELSE book[j]]
  BY DEF Closed
<1>2. DOMAIN new = DOMAIN book /\ new = [j \in DOMAIN new |-> new[j]]
  BY <1>1
<1>3. \A o \in Order : [o EXCEPT !.state = s] \in Order
  BY DEF Order
<1>4. \A j \in DOMAIN new : new[j] \in Order
  BY <1>1, <1>3 DEF IsBook
<1> QED BY <1>2, <1>4 DEF IsBook

\* Closing rows: deliveries, or the expiry of ready ones.
LEMMA RowsClosed ==
    ASSUME NEW rows, IsBook(rows, Row), NEW I, NEW s \in {"delivered", "expired"},
           s = "delivered" \/ I \subseteq ReadyIn(rows)
    PROVE  IsBook(Closed(rows, I, s), Row) /\ DOMAIN Closed(rows, I, s) = DOMAIN rows
<1> DEFINE new == Closed(rows, I, s)
<1>1. new = [j \in DOMAIN rows |-> IF j \in I THEN [rows[j] EXCEPT !.state = s] ELSE rows[j]]
  BY DEF Closed
<1>2. DOMAIN new = DOMAIN rows /\ new = [j \in DOMAIN new |-> new[j]]
  BY <1>1
<1>3. ASSUME NEW o \in Row, s = "delivered" \/ o.state = "ready"
      PROVE  [o EXCEPT !.state = s] \in Row
  <2>1. CASE o \in Order
    BY <2>1 DEF Row, Order
  <2>2. CASE o \notin Order
    BY <1>3, <2>2 DEF Row
  <2> QED BY <2>1, <2>2
<1>4. \A j \in DOMAIN new : new[j] \in Row
  <2> TAKE j \in DOMAIN new
  <2>1. rows[j] \in Row
    BY <1>2 DEF IsBook
  <2>2. CASE j \in I
    <3>1. s = "delivered" \/ rows[j].state = "ready"
      BY <2>2 DEF ReadyIn
    <3> QED BY <1>1, <1>2, <1>3, <2>1, <2>2, <3>1
  <2>3. CASE j \notin I
    BY <1>1, <1>2, <2>1, <2>3
  <2> QED BY <2>2, <2>3
<1> QED BY <1>2, <1>4 DEF IsBook

\* A save writes rows.
LEMMA RowsSaved ==
    ASSUME NEW rows, IsBook(rows, Row), NEW book, IsBook(book, Order)
    PROVE  LET saved == Upsert(ExpireAbsent(rows, DOMAIN book), book)
           IN  IsBook(saved, Row) /\ DOMAIN saved = DOMAIN rows \cup DOMAIN book
<1> DEFINE old == ExpireAbsent(rows, DOMAIN book)
           saved == Upsert(old, book)
<1>1. IsBook(old, Row) /\ DOMAIN old = DOMAIN rows
  <2>1. ReadyIn(rows) \ DOMAIN book \subseteq ReadyIn(rows)
    OBVIOUS
  <2> QED BY <2>1, RowsClosed DEF ExpireAbsent
<1> HIDE DEF old
<1>2. saved = [j \in DOMAIN old \cup DOMAIN book |-> IF j \in DOMAIN book THEN book[j] ELSE old[j]]
  BY DEF Upsert
<1>3. DOMAIN saved = DOMAIN old \cup DOMAIN book /\ saved = [j \in DOMAIN saved |-> saved[j]]
  BY <1>2
<1>4. \A j \in DOMAIN saved : saved[j] \in Row
  BY <1>1, <1>2, OrdersAreRows DEF IsBook
<1>5. DOMAIN saved \subseteq Ids
  BY <1>1, <1>3 DEF IsBook
<1> QED BY <1>1, <1>3, <1>4, <1>5 DEF IsBook, old

----------------------------------------------------------------------------
(* The inductive invariant *)

\* Ids that memory, the save in flight, the rows or the log refer to.
Referenced ==
    DOMAIN orders \cup DOMAIN disk.rows \cup disk.paid
        \cup IF shot = NoShot THEN {} ELSE DOMAIN shot.orders

\* Every id referred to was handed out in this life or lies below its floor, and
\* an open offer is referred to by nothing yet.
IdsInv ==
    /\ up => open \cup Referenced \subseteq 1 .. seq
    /\ open \cap Referenced = {}

\* A dead engine holds what the database holds and nothing else.
DownInv ==
    ~up => /\ actors = disk.actors /\ orders = [i \in {} |-> {}]
           /\ open = {} /\ shot = NoShot

BooksInv == OrdersTypeOK /\ IdsInv /\ DownInv

LEMMA LoggedBounds ==
    ASSUME NEW log, NEW i, NEW log2 \in Logged(log, i)
    PROVE  log2 \subseteq log \cup {i}
BY DEF Logged

\* The sales that mint an order, handed over at once or later: what is charged is
\* the worth of what was handed over and of what is still owed.
DoneBy(i, o) == IF o.state = "delivered" THEN {i} ELSE {}

MintingSale(i, b, o, units, taken) ==
    /\ Accept(i, b, Paid(o))
    /\ \E when \in {"ahead", "due"} : Mint(i, o, when)
    /\ actors' = Charged(actors, b, Paid(o), units, taken, DoneBy(i, o))
    /\ o.buyer = b /\ taken <= actors.stock
    /\ Price * units = Paid(o) - (IF o.state = "ready" THEN Paid(o) ELSE 0)

LEMMA OutstandingType ==
    ASSUME OrdersTypeOK
    PROVE  Outstanding \in Nat
<1>1. {i \in ReadyIn(orders) : orders[i].kind = "goods"} \in SUBSET Ids
  BY DEF OrdersTypeOK, IsBook, ReadyIn
<1> QED BY <1>1, IdsFinite DEF Outstanding

LEMMA SalesMint ==
    ASSUME OrdersTypeOK, NEW i, NEW b \in Buyers,
           \/ \E part \in BOOLEAN : Commission(i, b, part)
           \/ Book(i, b) \/ TakeHome(i, b) \/ Lodge(i, b)
    PROVE  \E o \in Order, units \in {0, 1}, taken \in {0, 1} : MintingSale(i, b, o, units, taken)
<1>1. \A kind \in {"goods", "room"}, part \in BOOLEAN, state \in {"ready", "delivered"} :
        /\ NewOrder(b, kind, part, state) \in Order
        /\ NewOrder(b, kind, part, state).buyer = b
        /\ NewOrder(b, kind, part, state).state = state
        /\ Paid(NewOrder(b, kind, part, state)) = IF part THEN Deposit ELSE Price
  BY DEF NewOrder, Order, Paid
<1>2. actors.stock \in Nat /\ Outstanding \in Nat
  BY OutstandingType DEF OrdersTypeOK, ActorState
<1>3. Price * 0 = 0 /\ Price * 1 = Price
  OBVIOUS
<1>4. ASSUME NEW part \in BOOLEAN, Commission(i, b, part)
      PROVE  MintingSale(i, b, NewOrder(b, "goods", part, "ready"), 0, 0)
  BY <1>1, <1>2, <1>3, <1>4 DEF Commission, MintingSale, DoneBy
<1>5. ASSUME Book(i, b)
      PROVE  MintingSale(i, b, NewOrder(b, "room", FALSE, "ready"), 0, 0)
  <2> DEFINE o == NewOrder(b, "room", FALSE, "ready")
  <2>1. Paid(o) = Price /\ o.buyer = b /\ o.state = "ready"
    BY <1>1
  <2> HIDE DEF o
  <2>2. Mint(i, o, "ahead")
    BY <1>5 DEF Book, o
  <2>3. Accept(i, b, Paid(o)) /\ actors' = Charged(actors, b, Paid(o), 0, 0, DoneBy(i, o))
    BY <1>5, <2>1 DEF Book, DoneBy
  <2>4. 0 <= actors.stock
    BY <1>2, <1>5 DEF Book
  <2>5. MintingSale(i, b, o, 0, 0)
    BY <1>3, <2>1, <2>2, <2>3, <2>4 DEF MintingSale
  <2> QED BY <2>5 DEF o
<1>6. ASSUME TakeHome(i, b)
      PROVE  MintingSale(i, b, NewOrder(b, "goods", FALSE, "delivered"), 1, 1)
  <2> DEFINE o == NewOrder(b, "goods", FALSE, "delivered")
  <2>1. Paid(o) = Price /\ o.buyer = b /\ o.state = "delivered"
    BY <1>1
  <2> HIDE DEF o
  <2>2. Mint(i, o, "due")
    BY <1>6 DEF TakeHome, o
  <2>3. Accept(i, b, Paid(o)) /\ actors' = Charged(actors, b, Paid(o), 1, 1, DoneBy(i, o))
    BY <1>6, <2>1 DEF TakeHome, DoneBy
  <2>4. 1 <= actors.stock
    BY <1>2, <1>6 DEF TakeHome, Short
  <2>5. MintingSale(i, b, o, 1, 1)
    BY <1>3, <2>1, <2>2, <2>3, <2>4 DEF MintingSale
  <2> QED BY <2>5 DEF o
<1>7. ASSUME Lodge(i, b)
      PROVE  MintingSale(i, b, NewOrder(b, "room", FALSE, "delivered"), 1, 0)
  <2> DEFINE o == NewOrder(b, "room", FALSE, "delivered")
  <2>1. Paid(o) = Price /\ o.buyer = b /\ o.state = "delivered"
    BY <1>1
  <2> HIDE DEF o
  <2>2. Mint(i, o, "due")
    BY <1>7 DEF Lodge, o
  <2>3. Accept(i, b, Paid(o)) /\ actors' = Charged(actors, b, Paid(o), 1, 0, DoneBy(i, o))
    BY <1>7, <2>1 DEF Lodge, DoneBy
  <2>4. 0 <= actors.stock
    BY <1>2, <1>7 DEF Lodge
  <2>5. MintingSale(i, b, o, 1, 0)
    BY <1>3, <2>1, <2>2, <2>3, <2>4 DEF MintingSale
  <2> QED BY <2>5 DEF o
<1> QED BY <1>1, <1>4, <1>5, <1>6, <1>7

LEMMA SaleActions ==
    ASSUME OrdersTypeOK, Sale
    PROVE  \E i \in open, b \in Buyers :
              \/ \E o \in Order, units \in {0, 1}, taken \in {0, 1} :
                    MintingSale(i, b, o, units, taken)
              \/ EatHere(i, b)
BY SalesMint DEF Sale

LEMMA PaidType ==
    ASSUME NEW o
    PROVE  Paid(o) \in Nat /\ BalanceDue(o) \in Nat /\ Price - BalanceDue(o) = Paid(o)
BY DEF Paid, BalanceDue

----------------------------------------------------------------------------
(* The invariant is inductive *)

LEMMA BooksInit == Init => BooksInv
<1> SUFFICES ASSUME Init PROVE BooksInv
  OBVIOUS
<1>1. Start \in ActorState
  BY DEF Start, ActorState
<1>2. \A R : IsBook([i \in {} |-> {}], R)
  BY DEF IsBook
<1>3. OrdersTypeOK
  BY <1>1, <1>2 DEF Init, OrdersTypeOK, Ids
<1>4. IdsInv
  BY DEF Init, IdsInv, Referenced
<1>5. DownInv
  BY DEF Init, DownInv
<1> QED BY <1>3, <1>4, <1>5 DEF BooksInv

LEMMA OfferBooks == BooksInv /\ Offer => BooksInv'
<1> SUFFICES ASSUME BooksInv, Offer PROVE BooksInv'
  OBVIOUS
<1> USE DEF BooksInv
<1>1. PICK log \in Logged(disk.offered, seq + 1) : disk' = [disk EXCEPT !.offered = log]
  BY DEF Offer, Logged
<1>2. /\ disk'.actors = disk.actors /\ disk'.rows = disk.rows /\ disk'.paid = disk.paid
      /\ disk'.offered = log
      /\ disk' = [actors |-> disk'.actors, rows |-> disk'.rows, paid |-> disk'.paid,
                  offered |-> disk'.offered]
  BY <1>1 DEF OrdersTypeOK
<1>3. seq \in Nat /\ seq + 1 \in Ids /\ seq + 1 \notin Referenced
  BY DEF Offer, OrdersTypeOK, IdsInv, Ids
<1>4. seq + 1 \notin DOMAIN orders
  BY <1>3 DEF Referenced
<1>5. log \subseteq Ids
  BY <1>3, LoggedBounds DEF OrdersTypeOK
<1>6. OrdersTypeOK'
  BY <1>2, <1>3, <1>4, <1>5 DEF Offer, OrdersTypeOK, Ids
<1>7. Referenced' = Referenced
  BY <1>2 DEF Offer, Referenced
<1>8. IdsInv'
  BY <1>3, <1>7 DEF Offer, IdsInv
<1>9. DownInv'
  BY DEF Offer, DownInv
<1> QED BY <1>6, <1>8, <1>9

LEMMA MintBooks ==
    ASSUME BooksInv, NEW i \in open, NEW b \in Buyers, NEW o \in Order,
           NEW units \in {0, 1}, NEW taken \in {0, 1}, MintingSale(i, b, o, units, taken)
    PROVE  BooksInv'
<1> USE DEF BooksInv
<1>1. PICK when \in {"ahead", "due"} : Mint(i, o, when)
  BY DEF MintingSale
<1>2. PICK log \in Logged(disk.paid, i) : disk' = [disk EXCEPT !.paid = log]
  BY <1>1 DEF Mint
<1>3. /\ disk'.actors = disk.actors /\ disk'.rows = disk.rows /\ disk'.paid = log
      /\ disk'.offered = disk.offered
      /\ disk' = [actors |-> disk'.actors, rows |-> disk'.rows, paid |-> disk'.paid,
                  offered |-> disk'.offered]
  BY <1>2 DEF OrdersTypeOK
<1>4. log \subseteq disk.paid \cup {i} /\ i \in Ids
  BY LoggedBounds DEF OrdersTypeOK
<1>5. actors' \in ActorState
  <2>1. Paid(o) \in Nat /\ units \in Nat /\ taken \in Nat /\ DoneBy(i, o) \in SUBSET Ids
    BY PaidType, <1>4 DEF DoneBy
  <2> QED BY <2>1, ChargedHeld DEF OrdersTypeOK, MintingSale
<1>6. IsBook(orders', Order) /\ DOMAIN orders' = DOMAIN orders \cup {i}
  <2>1. IsBook(orders, Order)
    BY DEF OrdersTypeOK
  <2>2. orders' = Put(orders, i, o)
    BY <1>1 DEF Mint
  <2>3. DOMAIN orders' = DOMAIN orders \cup {i}
    BY <2>2, PutDomain
  <2>4. IsBook(orders', Order)
    BY <1>4, <2>1, <2>2, BookPut
  <2> QED BY <2>3, <2>4
<1>7. age' \in [Ids -> {"ahead", "due", "lapsed"}]
  BY <1>1 DEF Mint, OrdersTypeOK
<1>8. /\ open' = open \ {i} /\ seq' = seq /\ shot' = shot /\ up' = up /\ crashes' = crashes
      /\ up
  BY DEF MintingSale, Accept
<1>9. OrdersTypeOK'
  BY <1>3, <1>4, <1>5, <1>6, <1>7, <1>8 DEF OrdersTypeOK
<1>10. Referenced' \subseteq Referenced \cup {i}
  BY <1>3, <1>4, <1>6, <1>8 DEF Referenced
<1>11. IdsInv'
  BY <1>8, <1>10 DEF IdsInv
<1> QED BY <1>8, <1>9, <1>11 DEF DownInv

LEMMA EatBooks ==
    ASSUME BooksInv, NEW i \in open, NEW b \in Buyers, EatHere(i, b)
    PROVE  BooksInv'
<1> USE DEF BooksInv
<1> DEFINE row == [buyer |-> b, kind |-> "meal", part |-> FALSE, state |-> "delivered"]
<1>1. PICK log \in Logged(disk.paid, i), rows \in {disk.rows, Put(disk.rows, i, row)} :
        disk' = [disk EXCEPT !.paid = log, !.rows = rows]
  BY Zenon DEF EatHere, WriteOrderless
<1>2. /\ disk'.actors = disk.actors /\ disk'.paid = log /\ disk'.offered = disk.offered
      /\ disk'.rows = rows
      /\ disk' = [actors |-> disk'.actors, rows |-> disk'.rows, paid |-> disk'.paid,
                  offered |-> disk'.offered]
  BY <1>1 DEF OrdersTypeOK
<1>3. log \subseteq disk.paid \cup {i} /\ i \in Ids
  BY LoggedBounds DEF OrdersTypeOK
<1>4. actors' \in ActorState
  <2>1. actors.stock \in Nat /\ Outstanding \in Nat
    BY OutstandingType DEF OrdersTypeOK, ActorState
  <2>2. 1 <= actors.stock
    BY <2>1 DEF EatHere, Short
  <2> QED BY <2>2, ChargedHeld DEF OrdersTypeOK, EatHere
<1>5. row \in Row
  BY DEF Row
<1>6. IsBook(disk'.rows, Row) /\ DOMAIN disk'.rows \subseteq DOMAIN disk.rows \cup {i}
  <2> HIDE DEF row
  <2>1. IsBook(disk.rows, Row)
    BY DEF OrdersTypeOK
  <2>2. IsBook(Put(disk.rows, i, row), Row)
    BY <1>3, <1>5, <2>1, BookPut
  <2>3. DOMAIN Put(disk.rows, i, row) = DOMAIN disk.rows \cup {i}
    BY PutDomain
  <2>4. IsBook(disk'.rows, Row)
    BY <1>2, <2>1, <2>2
  <2>5. DOMAIN disk'.rows \subseteq DOMAIN disk.rows \cup {i}
    BY <1>2, <2>3
  <2> QED BY <2>4, <2>5
<1>7. /\ open' = open \ {i} /\ seq' = seq /\ shot' = shot /\ up' = up /\ crashes' = crashes
      /\ orders' = orders /\ age' = age /\ up
  BY DEF EatHere, Accept
<1>8. OrdersTypeOK'
  BY <1>2, <1>3, <1>4, <1>6, <1>7 DEF OrdersTypeOK
<1>9. Referenced' \subseteq Referenced \cup {i}
  BY <1>2, <1>3, <1>6, <1>7 DEF Referenced
<1>10. IdsInv'
  BY <1>7, <1>9 DEF IdsInv
<1> QED BY <1>7, <1>8, <1>10 DEF DownInv

LEMMA ForgeBooks == BooksInv /\ Forge => BooksInv'
<1> SUFFICES ASSUME BooksInv, Forge PROVE BooksInv'
  OBVIOUS
<1> USE DEF BooksInv
<1>1. actors' \in ActorState
  BY DEF Forge, OrdersTypeOK, ActorState
<1>2. OrdersTypeOK'
  BY <1>1 DEF Forge, OrdersTypeOK
<1>3. IdsInv' /\ DownInv'
  BY DEF Forge, IdsInv, DownInv, Referenced
<1> QED BY <1>2, <1>3

LEMMA GrowBooks == ASSUME BooksInv, NEW i \in Ids, Grow(i) PROVE BooksInv'
<1> USE DEF BooksInv
<1>1. OrdersTypeOK'
  BY DEF Grow, OrdersTypeOK
<1>2. IdsInv' /\ DownInv'
  BY DEF Grow, IdsInv, DownInv, Referenced
<1> QED BY <1>1, <1>2

\* The sweep expires every lapsed order, a late delivery the one it is asked for.
LEMMA ExpireBooks ==
    ASSUME BooksInv, up, NEW I \in SUBSET ReadyIn(orders), Expire(I)
    PROVE  BooksInv'
<1> USE DEF BooksInv
<1>1. IsBook(orders, Order) /\ actors \in ActorState
  BY DEF OrdersTypeOK
<1>2. actors' \in ActorState
  BY <1>1, ExpiredHeld DEF Expire
<1>3. IsBook(orders', Order) /\ DOMAIN orders' = DOMAIN orders
  <2>1. orders' = Closed(orders, I, "expired")
    BY DEF Expire
  <2> QED BY <1>1, <2>1, BookClosed
<1>4. OrdersTypeOK'
  BY <1>2, <1>3 DEF Expire, OrdersTypeOK
<1>5. IdsInv' /\ DownInv'
  BY <1>3 DEF Expire, IdsInv, DownInv, Referenced
<1> QED BY <1>4, <1>5

\* Whatever becomes of the write, both books keep to their types and ids.
LEMMA WriteBooks ==
    ASSUME OrdersTypeOK, NEW i, NEW written \in BOOLEAN, WriteTerminal(i, written)
    PROVE  /\ IsBook(orders', Order) /\ DOMAIN orders' \subseteq DOMAIN orders
           /\ IsBook(disk'.rows, Row) /\ DOMAIN disk'.rows = DOMAIN disk.rows
           /\ disk'.actors = disk.actors /\ disk'.paid = disk.paid
           /\ disk'.offered = disk.offered
           /\ disk' = [actors |-> disk'.actors, rows |-> disk'.rows, paid |-> disk'.paid,
                       offered |-> disk'.offered]
<1>1. IsBook(orders, Order) /\ IsBook(disk.rows, Row)
  BY DEF OrdersTypeOK
<1>2. CASE written
  <2>1. disk' = [disk EXCEPT !.rows = Closed(@, {i}, "delivered")] /\ orders' = Without(orders, {i})
    BY <1>2 DEF WriteTerminal
  <2>2. /\ disk'.rows = Closed(disk.rows, {i}, "delivered")
        /\ disk'.actors = disk.actors /\ disk'.paid = disk.paid /\ disk'.offered = disk.offered
        /\ disk' = [actors |-> disk'.actors, rows |-> disk'.rows, paid |-> disk'.paid,
                    offered |-> disk'.offered]
    BY <2>1 DEF OrdersTypeOK
  <2>3. IsBook(disk'.rows, Row) /\ DOMAIN disk'.rows = DOMAIN disk.rows
    BY <1>1, <2>2, RowsClosed
  <2>4. IsBook(orders', Order)
    BY <1>1, <2>1, BookWithout
  <2>5. DOMAIN orders' \subseteq DOMAIN orders
    BY <2>1 DEF Without
  <2> QED BY <2>2, <2>3, <2>4, <2>5
<1>3. CASE ~written
  <2>1. orders' = Closed(orders, {i}, "delivered") /\ disk' = disk
    BY <1>3 DEF WriteTerminal
  <2>2. IsBook(orders', Order) /\ DOMAIN orders' = DOMAIN orders
    BY <1>1, <2>1, BookClosed
  <2> QED BY <1>1, <2>1, <2>2 DEF OrdersTypeOK
<1> QED BY <1>2, <1>3

LEMMA DeliverBooks == ASSUME BooksInv, NEW i \in Ids, Deliver(i) PROVE BooksInv'
<1> USE DEF BooksInv
<1>1. PICK written \in BOOLEAN : WriteTerminal(i, written)
  BY DEF Deliver
<1>2. actors' \in ActorState
  <2> DEFINE o == orders[i]
             taken == IF o.kind = "goods" THEN 1 ELSE 0
  <2>1. actors' = Charged(actors, o.buyer, BalanceDue(o), 1, taken, {i})
    BY DEF Deliver
  <2>2. o.buyer \in Buyers /\ BalanceDue(o) \in Nat
    BY PaidType DEF Deliver, OrdersTypeOK, IsBook, ReadyIn, Order
  <2>3. actors \in ActorState /\ taken \in Nat /\ taken <= actors.stock
    BY DEF Deliver, OrdersTypeOK, ActorState
  <2> HIDE DEF o, taken
  <2> QED BY <2>1, <2>2, <2>3, ChargedHeld
<1>3. OrdersTypeOK'
  <2>1. open' = open /\ seq' = seq /\ age' = age /\ shot' = shot /\ up' = up /\ crashes' = crashes
    BY DEF Deliver
  <2> QED BY <1>1, <1>2, <2>1, WriteBooks DEF OrdersTypeOK
<1>4. Referenced' \subseteq Referenced
  BY <1>1, WriteBooks DEF Deliver, Referenced
<1>5. IdsInv' /\ DownInv'
  BY <1>4 DEF Deliver, IdsInv, DownInv
<1> QED BY <1>3, <1>5

LEMMA SnapshotBooks == BooksInv /\ BuildSnapshot => BooksInv'
<1> SUFFICES ASSUME BooksInv, BuildSnapshot PROVE BooksInv'
  OBVIOUS
<1> USE DEF BooksInv
<1>1. shot' = [actors |-> actors, orders |-> orders]
  BY DEF BuildSnapshot
<1>2. shot'.actors = actors /\ shot'.orders = orders
  BY <1>1
<1>3. OrdersTypeOK'
  BY <1>1, <1>2 DEF BuildSnapshot, OrdersTypeOK
<1>4. Referenced' \subseteq Referenced
  BY <1>2 DEF BuildSnapshot, Referenced
<1>5. IdsInv' /\ DownInv'
  BY <1>4 DEF BuildSnapshot, IdsInv, DownInv
<1> QED BY <1>3, <1>5

LEMMA CommitBooks == BooksInv /\ Commit => BooksInv'
<1> SUFFICES ASSUME BooksInv, Commit PROVE BooksInv'
  OBVIOUS
<1> USE DEF BooksInv
<1> DEFINE saved == Upsert(ExpireAbsent(disk.rows, DOMAIN shot.orders), shot.orders)
<1>1. /\ shot # NoShot /\ shot' = NoShot
      /\ disk' = [disk EXCEPT !.actors = shot.actors, !.rows = saved]
  BY DEF Commit
<1>2. /\ disk'.actors = shot.actors /\ disk'.rows = saved
      /\ disk'.paid = disk.paid /\ disk'.offered = disk.offered
      /\ disk' = [actors |-> disk'.actors, rows |-> disk'.rows, paid |-> disk'.paid,
                  offered |-> disk'.offered]
  <2> HIDE DEF saved
  <2> QED BY <1>1 DEF OrdersTypeOK
<1>3. IsBook(disk.rows, Row) /\ IsBook(shot.orders, Order) /\ shot.actors \in ActorState
  BY <1>1 DEF OrdersTypeOK
<1>4. IsBook(saved, Row) /\ DOMAIN saved = DOMAIN disk.rows \cup DOMAIN shot.orders
  BY <1>3, RowsSaved
<1> HIDE DEF saved
<1>5. OrdersTypeOK'
  BY <1>1, <1>2, <1>3, <1>4 DEF Commit, OrdersTypeOK
<1>6. Referenced' \subseteq Referenced
  BY <1>1, <1>2, <1>4 DEF Commit, Referenced
<1>7. IdsInv' /\ DownInv'
  BY <1>1, <1>6 DEF Commit, IdsInv, DownInv
<1> QED BY <1>5, <1>7

LEMMA SaveFailsBooks == BooksInv /\ SaveFails => BooksInv'
BY DEF BooksInv, SaveFails, OrdersTypeOK, IdsInv, DownInv, Referenced

LEMMA CrashBooks == BooksInv /\ Crash => BooksInv'
<1> SUFFICES ASSUME BooksInv, Crash PROVE BooksInv'
  OBVIOUS
<1> USE DEF BooksInv
<1>1. IsBook(orders', Order) /\ DOMAIN orders' = {}
  BY DEF Crash, IsBook
<1>2. /\ actors' = disk.actors /\ disk' = disk /\ age' = age /\ open' = {} /\ shot' = NoShot
      /\ seq' \in 0 .. MaxId /\ up' \in BOOLEAN /\ crashes' \in 0 .. MaxCrashes
  <2>1. crashes \in 0 .. MaxCrashes
    BY DEF OrdersTypeOK
  <2>2. crashes' \in 0 .. MaxCrashes
    BY <2>1 DEF Crash
  <2>3. seq' = 0 /\ 0 \in 0 .. MaxId
    BY DEF Crash
  <2>4. /\ actors' = disk.actors /\ disk' = disk /\ age' = age /\ open' = {} /\ shot' = NoShot
        /\ up' = FALSE
    BY DEF Crash
  <2> QED BY <2>2, <2>3, <2>4
<1>3. OrdersTypeOK'
  BY <1>1, <1>2 DEF OrdersTypeOK
<1>4. IdsInv' /\ DownInv'
  BY DEF Crash, IdsInv, DownInv
<1> QED BY <1>3, <1>4

LEMMA RestartBooks == BooksInv /\ Restart => BooksInv'
<1> SUFFICES ASSUME BooksInv, Restart PROVE BooksInv'
  OBVIOUS
<1> USE DEF BooksInv
<1> DEFINE loaded == Without(disk.rows, DOMAIN disk.rows \ ReadyIn(disk.rows))
           late == {i \in DOMAIN loaded : age[i] = "lapsed"}
<1>1. /\ orders' = Closed(loaded, late, "expired") /\ actors' = Expired(actors, loaded, late)
      /\ open' = open /\ shot' = shot /\ disk' = disk /\ age' = age /\ crashes' = crashes
      /\ ~up /\ up' = TRUE
  BY DEF Restart
<1>2. /\ IsBook(loaded, Order) /\ DOMAIN loaded = ReadyIn(disk.rows)
      /\ ReadyIn(loaded) = ReadyIn(disk.rows)
  BY BookLoaded DEF OrdersTypeOK
<1>3. late \in SUBSET ReadyIn(loaded)
  BY <1>2
<1> HIDE DEF loaded, late
<1>4. actors' \in ActorState
  BY <1>1, <1>2, <1>3, ExpiredHeld DEF OrdersTypeOK
<1>5. IsBook(orders', Order) /\ DOMAIN orders' = ReadyIn(disk.rows)
  BY <1>1, <1>2, BookClosed
<1>6. /\ seq' \in 0 .. MaxId
      /\ DOMAIN disk.rows \cup disk.paid \subseteq 1 .. seq'
  <2>1. FloorIds \subseteq 1 .. MaxId
    BY DEF FloorIds, OrdersTypeOK, IsBook, Ids
  <2>2. seq' \in FloorIds \cup {0} /\ \A i \in FloorIds : i <= seq'
    BY DEF Restart
  <2>3. seq' \in 0 .. MaxId /\ FloorIds \subseteq 1 .. seq'
    BY <2>1, <2>2
  <2> QED BY <2>3 DEF FloorIds
<1>7. ReadyIn(disk.rows) \subseteq DOMAIN disk.rows
  BY DEF ReadyIn
<1>8. open = {} /\ shot = NoShot
  BY <1>1 DEF DownInv
<1>9. OrdersTypeOK'
  BY <1>1, <1>4, <1>5, <1>6, <1>8 DEF OrdersTypeOK
<1>10. IdsInv' /\ DownInv'
  BY <1>1, <1>5, <1>6, <1>7, <1>8 DEF IdsInv, DownInv, Referenced
<1> QED BY <1>9, <1>10

LEMMA BooksStep == BooksInv /\ [Next]_vars => BooksInv'
<1> SUFFICES ASSUME BooksInv, [Next]_vars PROVE BooksInv'
  OBVIOUS
<1>1. CASE Sale
  BY <1>1, SaleActions, MintBooks, EatBooks DEF BooksInv
<1>2. CASE \E i \in Ids : Deliver(i) \/ Grow(i)
  BY <1>2, DeliverBooks, GrowBooks
<1>3. CASE Sweep \/ \E i \in Ids : DeliverLate(i)
  <2>1. Lapsed \in SUBSET ReadyIn(orders)
    BY DEF Lapsed
  <2>2. \A i \in Lapsed : {i} \in SUBSET ReadyIn(orders)
    BY <2>1
  <2> QED BY <1>3, <2>1, <2>2, ExpireBooks DEF Sweep, DeliverLate
<1>4. CASE UNCHANGED vars
  BY <1>4 DEF vars, BooksInv, OrdersTypeOK, IdsInv, DownInv, Referenced
<1> QED BY <1>1, <1>2, <1>3, <1>4, OfferBooks, ForgeBooks, SnapshotBooks, CommitBooks,
           SaveFailsBooks, CrashBooks, RestartBooks DEF Next

\* Every variable keeps to its type, whatever is sold, saved or lost.
THEOREM OrdersTypes == Spec => []OrdersTypeOK
<1>1. Spec => []BooksInv
  BY BooksInit, BooksStep, PTL DEF Spec
<1> QED BY <1>1, PTL DEF BooksInv

\* A new offer never takes an id that memory, the rows or the log refer to.
THEOREM OrdersFreshIds == Spec => FreshIds
<1>1. BooksInv /\ [Next]_vars
        => [\A i \in open' \ open : i \notin DOMAIN disk.rows \cup disk.paid \cup DOMAIN orders]_vars
  <2> SUFFICES ASSUME BooksInv, Next, NEW i \in open' \ open
               PROVE  i \notin DOMAIN disk.rows \cup disk.paid \cup DOMAIN orders
    OBVIOUS
  <2>1. CASE Offer
    <3>1. i = seq + 1 /\ up /\ seq \in Nat
      BY <2>1 DEF Offer, BooksInv, OrdersTypeOK
    <3>2. Referenced \subseteq 1 .. seq
      BY <3>1 DEF BooksInv, IdsInv
    <3> QED BY <3>1, <3>2 DEF Referenced
  <2>2. CASE ~Offer
    <3>1. open' \subseteq open
      BY <2>2 DEF Next, Sale, Commission, Book, TakeHome, Lodge, EatHere, Accept, Forge, Deliver,
                  DeliverLate, Grow, Sweep, Expire, BuildSnapshot, Commit, SaveFails, Crash, Restart
    <3> QED BY <3>1
  <2> QED BY <2>1, <2>2
<1>2. Spec => []BooksInv
  BY BooksInit, BooksStep, PTL DEF Spec
<1> QED BY <1>1, <1>2, PTL DEF Spec, FreshIds

----------------------------------------------------------------------------
(* Every step balances *)

LEMMA BalanceType ==
    ASSUME NEW acts \in ActorState, NEW book, NEW R, IsBook(book, R), NEW c \in Buyers
    PROVE  /\ Held(acts, c) \in Int /\ Escrow(c, book, ReadyIn(book)) \in Nat
           /\ Balance(acts, book, c) \in Int
<1>1. Escrow(c, book, ReadyIn(book)) \in Nat
  BY ReadyIds, EscrowType
<1>2. Held(acts, c) \in Int
  BY ActorFields
<1> QED BY <1>1, <1>2 DEF Balance

\* Closing one ready order releases what was paid for it, to its buyer.
LEMMA EscrowEnd ==
    ASSUME NEW book, IsBook(book, Row), NEW i \in ReadyIn(book), NEW c
    PROVE  /\ Escrow(c, book, ReadyIn(book))
                = Escrow(c, book, ReadyIn(book) \ {i})
                  + IF book[i].buyer = c THEN Paid(book[i]) ELSE 0
           /\ Escrow(c, book, ReadyIn(book) \ {i}) \in Nat
<1>1. /\ ReadyIn(book) \in SUBSET Ids /\ {i} \in SUBSET ReadyIn(book)
      /\ {i} \in SUBSET Ids /\ ReadyIn(book) \ {i} \in SUBSET Ids
  BY ReadyIds
<1>2. Escrow(c, book, ReadyIn(book)) = Escrow(c, book, {i}) + Escrow(c, book, ReadyIn(book) \ {i})
  BY <1>1, EscrowSplit
<1>3. Escrow(c, book, {i}) \in Nat /\ Escrow(c, book, ReadyIn(book) \ {i}) \in Nat
  BY <1>1, EscrowType
<1> QED BY <1>2, <1>3, EscrowOne

\* What the running engine holds of one buyer does not change in worth.
SameMemory(c) ==
    /\ Balance(actors', orders', c) = Balance(actors, orders, c)
    /\ TillMatches(actors, c) => TillMatches(actors', c)

LEMMA MintBalances ==
    ASSUME BooksInv, NEW i \in open, NEW b \in Buyers, NEW o \in Order,
           NEW units \in {0, 1}, NEW taken \in {0, 1}, MintingSale(i, b, o, units, taken),
           NEW c \in Buyers
    PROVE  SameMemory(c)
<1>1. actors \in ActorState /\ IsBook(orders, Order) /\ i \in Ids \ DOMAIN orders
  BY DEF BooksInv, OrdersTypeOK
<1>2. /\ Paid(o) \in Nat /\ units \in Nat /\ taken \in Nat /\ DoneBy(i, o) \in SUBSET Ids
  BY <1>1, PaidType DEF DoneBy
<1>3. /\ actors' = Charged(actors, b, Paid(o), units, taken, DoneBy(i, o)) /\ orders' = Put(orders, i, o)
      /\ o.buyer = b /\ taken <= actors.stock
      /\ Price * units = Paid(o) - (IF o.state = "ready" THEN Paid(o) ELSE 0)
  BY DEF MintingSale, Mint
<1>4. /\ Held(actors', c) = Held(actors, c) + IF c = b THEN Price * units - Paid(o) ELSE 0
      /\ TillMatches(actors, c) => TillMatches(actors', c)
  <2> DEFINE new == Charged(actors, b, Paid(o), units, taken, DoneBy(i, o))
  <2>1. /\ Held(new, c) = Held(actors, c) + IF c = b THEN Price * units - Paid(o) ELSE 0
        /\ TillMatches(actors, c) => TillMatches(new, c)
    <3>1. taken <= actors.stock
      BY <1>3
    <3> QED BY <1>1, <1>2, <3>1, ChargedHeld
  <2>2. actors' = new
    BY <1>3
  <2> HIDE DEF new
  <2> QED BY <2>1, <2>2
<1>5. Escrow(c, orders', ReadyIn(orders'))
        = Escrow(c, orders, ReadyIn(orders)) + IF o.state = "ready" /\ o.buyer = c THEN Paid(o) ELSE 0
  BY <1>1, <1>3, EscrowPut
<1>6. Held(actors, c) \in Int /\ Escrow(c, orders, ReadyIn(orders)) \in Nat
  BY <1>1, BalanceType
<1>7. Balance(actors', orders', c) = Balance(actors, orders, c)
  BY <1>2, <1>3, <1>4, <1>5, <1>6 DEF Balance
<1> QED BY <1>4, <1>7 DEF SameMemory

LEMMA EatBalances ==
    ASSUME BooksInv, NEW i \in open, NEW b \in Buyers, EatHere(i, b), NEW c \in Buyers
    PROVE  SameMemory(c)
<1>1. actors \in ActorState /\ IsBook(orders, Order) /\ actors.stock \in Nat /\ Outstanding \in Nat
  BY OutstandingType DEF BooksInv, OrdersTypeOK, ActorState
<1>2. 1 <= actors.stock /\ actors' = Charged(actors, b, Price, 1, 1, {}) /\ orders' = orders
  BY <1>1 DEF EatHere, Short
<1>3. /\ Held(actors', c) = Held(actors, c) + IF c = b THEN Price * 1 - Price ELSE 0
      /\ TillMatches(actors, c) => TillMatches(actors', c)
  BY <1>1, <1>2, ChargedHeld
<1>4. Held(actors, c) \in Int
  BY <1>1, BalanceType
<1> QED BY <1>2, <1>3, <1>4 DEF SameMemory, Balance

LEMMA DeliverBalances ==
    ASSUME BooksInv, NEW i \in Ids, Deliver(i), NEW c \in Buyers
    PROVE  SameMemory(c)
<1> DEFINE o == orders[i]
           taken == IF o.kind = "goods" THEN 1 ELSE 0
<1>1. actors \in ActorState /\ IsBook(orders, Order) /\ IsBook(orders, Row) /\ i \in ReadyIn(orders)
  BY OrdersAreRows DEF BooksInv, OrdersTypeOK, Deliver
<1>2. /\ o.buyer \in Buyers /\ taken \in Nat /\ taken <= actors.stock
      /\ actors' = Charged(actors, o.buyer, BalanceDue(o), 1, taken, {i})
  BY <1>1 DEF Deliver, IsBook, ReadyIn, Order, ActorState
<1>3. Paid(o) \in Nat /\ BalanceDue(o) \in Nat /\ Price * 1 - BalanceDue(o) = Paid(o)
  BY PaidType
<1> HIDE DEF taken
<1>4. /\ Held(actors', c) = Held(actors, c) + IF c = o.buyer THEN Paid(o) ELSE 0
      /\ TillMatches(actors, c) => TillMatches(actors', c)
  <2> HIDE DEF o
  <2> DEFINE new == Charged(actors, o.buyer, BalanceDue(o), 1, taken, {i})
  <2>1. /\ Held(new, c) = Held(actors, c) + IF c = o.buyer THEN Price * 1 - BalanceDue(o) ELSE 0
        /\ TillMatches(actors, c) => TillMatches(new, c)
    BY <1>1, <1>2, <1>3, ChargedHeld
  <2>2. actors' = new
    BY <1>2
  <2> HIDE DEF new
  <2> QED BY <1>3, <2>1, <2>2
<1>5. Escrow(c, orders', ReadyIn(orders')) = Escrow(c, orders, ReadyIn(orders) \ {i})
  <2>1. \/ orders' = Without(orders, {i})
        \/ orders' = Closed(orders, {i}, "delivered")
    BY DEF Deliver, WriteTerminal
  <2> QED BY <1>1, <2>1, EscrowWithout, EscrowClosed
<1>6. /\ Escrow(c, orders, ReadyIn(orders))
            = Escrow(c, orders, ReadyIn(orders) \ {i}) + IF o.buyer = c THEN Paid(o) ELSE 0
      /\ Escrow(c, orders, ReadyIn(orders) \ {i}) \in Nat
  BY <1>1, EscrowEnd
<1>7. Held(actors, c) \in Int
  BY <1>1, BalanceType
<1> HIDE DEF o
<1>8. Balance(actors', orders', c) = Balance(actors, orders, c)
  BY <1>3, <1>4, <1>5, <1>6, <1>7 DEF Balance
<1> QED BY <1>4, <1>8 DEF SameMemory

\* Expiring orders of a book, as the sweep, a late delivery and a restart do.
LEMMA ExpiredBalances ==
    ASSUME NEW acts \in ActorState, NEW book, IsBook(book, Order),
           NEW I \in SUBSET ReadyIn(book), NEW c \in Buyers
    PROVE  /\ Balance(Expired(acts, book, I), Closed(book, I, "expired"), c)
                 = Balance(acts, book, c)
           /\ TillMatches(acts, c) => TillMatches(Expired(acts, book, I), c)
<1> DEFINE acts2 == Expired(acts, book, I)
           book2 == Closed(book, I, "expired")
<1>1. IsBook(book, Row) /\ ReadyIn(book) \in SUBSET Ids /\ ReadyIn(book) \ I \in SUBSET Ids
      /\ I \in SUBSET Ids
  BY OrdersAreRows, ReadyIds
<1>2. Held(acts2, c) = Held(acts, c) + Escrow(c, book, I) /\ (TillMatches(acts, c) => TillMatches(acts2, c))
  BY ExpiredHeld
<1>3. Escrow(c, book2, ReadyIn(book2)) = Escrow(c, book, ReadyIn(book) \ I)
  BY <1>1, EscrowClosed
<1>4. Escrow(c, book, ReadyIn(book)) = Escrow(c, book, I) + Escrow(c, book, ReadyIn(book) \ I)
  BY <1>1, EscrowSplit
<1>5. Escrow(c, book, I) \in Nat /\ Escrow(c, book, ReadyIn(book) \ I) \in Nat
  BY <1>1, EscrowType
<1>6. Held(acts, c) \in Int
  BY ActorFields
<1> HIDE DEF acts2, book2
<1>7. Balance(acts2, book2, c) = Balance(acts, book, c)
  BY <1>2, <1>3, <1>4, <1>5, <1>6 DEF Balance
<1> QED BY <1>2, <1>7 DEF acts2, book2

LEMMA ForgeBalances ==
    ASSUME Forge, NEW c \in Buyers, BooksInv
    PROVE  SameMemory(c)
<1>1. /\ actors'.coins = actors.coins /\ actors'.till = actors.till /\ actors'.got = actors.got
      /\ actors'.lost = actors.lost /\ orders' = orders
  BY DEF Forge, BooksInv, OrdersTypeOK, ActorState
<1> QED BY <1>1 DEF SameMemory, Balance, Held, TillMatches

LEMMA MemoryStep ==
    ASSUME BooksInv, [Next]_vars, up, up', NEW c \in Buyers
    PROVE  SameMemory(c)
<1>1. CASE Sale
  BY <1>1, SaleActions, MintBalances, EatBalances DEF BooksInv
<1>2. CASE \E i \in Ids : Deliver(i)
  BY <1>2, DeliverBalances
<1>3. CASE Sweep \/ \E i \in Ids : DeliverLate(i)
  <2>1. PICK I \in SUBSET ReadyIn(orders) : Expire(I)
    <3>1. Lapsed \in SUBSET ReadyIn(orders)
      BY DEF Lapsed
    <3>2. \A i \in Lapsed : {i} \in SUBSET ReadyIn(orders)
      BY <3>1
    <3> QED BY <1>3, <3>1, <3>2 DEF Sweep, DeliverLate
  <2>2. actors' = Expired(actors, orders, I) /\ orders' = Closed(orders, I, "expired")
    BY <2>1 DEF Expire
  <2> QED BY <2>2, ExpiredBalances DEF SameMemory, BooksInv, OrdersTypeOK
<1>4. CASE Forge
  BY <1>4, ForgeBalances
<1>5. CASE actors' = actors /\ orders' = orders
  BY <1>5 DEF SameMemory
<1>6. Next => \/ Sale \/ Sweep \/ Forge
              \/ \E i \in Ids : Deliver(i) \/ DeliverLate(i)
              \/ actors' = actors /\ orders' = orders
  BY DEF Next, Offer, Grow, BuildSnapshot, Commit, SaveFails, Crash, Restart
<1> QED BY <1>1, <1>2, <1>3, <1>4, <1>5, <1>6 DEF vars

\* Outside a commit the database's actors stay, and a write of a row never adds to
\* what its rows hold.
LEMMA DiskStep ==
    ASSUME BooksInv, [Next]_vars, ~Commit, NEW c \in Buyers
    PROVE  /\ disk'.actors = disk.actors
           /\ Escrow(c, disk'.rows, ReadyIn(disk'.rows)) <= Escrow(c, disk.rows, ReadyIn(disk.rows))
<1>1. IsBook(disk.rows, Row) /\ Escrow(c, disk.rows, ReadyIn(disk.rows)) \in Nat
  BY ReadyIds, EscrowType DEF BooksInv, OrdersTypeOK
<1>2. CASE disk'.actors = disk.actors /\ disk'.rows = disk.rows
  BY <1>1, <1>2
<1>3. ASSUME NEW i \in open, NEW b \in Buyers, EatHere(i, b), disk'.rows # disk.rows
      PROVE  /\ disk'.actors = disk.actors
             /\ Escrow(c, disk'.rows, ReadyIn(disk'.rows)) = Escrow(c, disk.rows, ReadyIn(disk.rows))
  <2> DEFINE row == [buyer |-> b, kind |-> "meal", part |-> FALSE, state |-> "delivered"]
  <2>1. PICK log \in Logged(disk.paid, i), rows \in {disk.rows, Put(disk.rows, i, row)} :
          disk' = [disk EXCEPT !.paid = log, !.rows = rows]
    BY Zenon, <1>3 DEF EatHere, WriteOrderless
  <2> HIDE DEF row
  <2>2. /\ disk'.actors = disk.actors
        /\ disk'.rows = rows
    BY <2>1 DEF BooksInv, OrdersTypeOK
  <2>3. disk'.rows = Put(disk.rows, i, row)
    BY <1>3, <2>1, <2>2
  <2>4. i \in Ids \ DOMAIN disk.rows
    BY DEF BooksInv, OrdersTypeOK, IdsInv, Referenced
  <2>5. row.state # "ready"
    BY DEF row
  <2>6. Escrow(c, Put(disk.rows, i, row), ReadyIn(Put(disk.rows, i, row)))
          = Escrow(c, disk.rows, ReadyIn(disk.rows))
              + IF row.state = "ready" /\ row.buyer = c THEN Paid(row) ELSE 0
    BY <1>1, <2>4, EscrowPut
  <2>7. Escrow(c, Put(disk.rows, i, row), ReadyIn(Put(disk.rows, i, row)))
          = Escrow(c, disk.rows, ReadyIn(disk.rows))
    BY <1>1, <2>5, <2>6
  <2> QED BY <2>2, <2>3, <2>7
<1>4. ASSUME NEW i \in Ids, Deliver(i), disk'.rows # disk.rows \/ disk'.actors # disk.actors
      PROVE  /\ disk'.actors = disk.actors
             /\ Escrow(c, disk'.rows, ReadyIn(disk'.rows)) <= Escrow(c, disk.rows, ReadyIn(disk.rows))
  <2>1. PICK written \in BOOLEAN : WriteTerminal(i, written)
    BY <1>4 DEF Deliver
  <2>2. written /\ disk' = [disk EXCEPT !.rows = Closed(@, {i}, "delivered")]
    BY <1>4, <2>1 DEF WriteTerminal
  <2>3. disk'.actors = disk.actors /\ disk'.rows = Closed(disk.rows, {i}, "delivered")
    BY <2>2 DEF BooksInv, OrdersTypeOK
  <2>4. Escrow(c, disk'.rows, ReadyIn(disk'.rows)) = Escrow(c, disk.rows, ReadyIn(disk.rows) \ {i})
    BY <1>1, <2>3, EscrowClosed
  <2> DEFINE R == ReadyIn(disk.rows)
             J == R \ {i}
  <2>5. R \in SUBSET Ids /\ J \in SUBSET R /\ J \in SUBSET Ids /\ R \ J \in SUBSET Ids
    BY <1>1, ReadyIds
  <2> HIDE DEF R, J
  <2>6. /\ Escrow(c, disk.rows, R) = Escrow(c, disk.rows, J) + Escrow(c, disk.rows, R \ J)
        /\ Escrow(c, disk.rows, J) \in Nat /\ Escrow(c, disk.rows, R \ J) \in Nat
    BY <2>5, EscrowSplit, EscrowType
  <2>7. Escrow(c, disk.rows, J) <= Escrow(c, disk.rows, R)
    BY <2>6
  <2> QED BY <2>2, <2>3, <2>4, <2>7 DEF R, J
<1>5. Next => \/ disk'.actors = disk.actors /\ disk'.rows = disk.rows
              \/ \E i \in open, b \in Buyers : EatHere(i, b)
              \/ \E i \in Ids : Deliver(i)
  <2>1. ASSUME NEW f, \/ disk' = [disk EXCEPT !.paid = f]
                      \/ disk' = [disk EXCEPT !.offered = f]
        PROVE  disk'.actors = disk.actors /\ disk'.rows = disk.rows
    BY <2>1 DEF BooksInv, OrdersTypeOK
  <2>2. Offer => disk'.actors = disk.actors /\ disk'.rows = disk.rows
    BY <2>1 DEF Offer
  <2>3. Sale => \/ disk'.actors = disk.actors /\ disk'.rows = disk.rows
                \/ \E i \in open, b \in Buyers : EatHere(i, b)
    BY <2>1 DEF Sale, Commission, Book, TakeHome, Lodge, Mint
  <2>4. Forge \/ Sweep \/ BuildSnapshot \/ SaveFails \/ Crash \/ Restart => disk' = disk
    BY DEF Forge, Sweep, Expire, BuildSnapshot, SaveFails, Crash, Restart
  <2>5. \A i \in Ids : DeliverLate(i) \/ Grow(i) => disk' = disk
    BY DEF DeliverLate, Expire, Grow
  <2> QED BY <2>2, <2>3, <2>4, <2>5 DEF Next
<1>6. UNCHANGED vars => disk'.actors = disk.actors /\ disk'.rows = disk.rows
  BY DEF vars
<1>7. CASE \E i \in open, b \in Buyers : EatHere(i, b)
  <2>1. CASE disk'.rows # disk.rows
    BY <1>1, <1>3, <1>7, <2>1
  <2>2. CASE disk'.rows = disk.rows
    <3>1. PICK f, g : disk' = [disk EXCEPT !.paid = f, !.rows = g]
      BY Zenon, <1>7 DEF EatHere, WriteOrderless
    <3>2. disk'.actors = disk.actors
      BY <3>1 DEF BooksInv, OrdersTypeOK
    <3> QED BY <1>2, <2>2, <3>2
  <2> QED BY <2>1, <2>2
<1>8. CASE \E i \in Ids : Deliver(i)
  <2>1. CASE disk'.rows # disk.rows \/ disk'.actors # disk.actors
    BY <1>4, <1>8, <2>1
  <2> QED BY <1>2, <2>1
<1> QED BY <1>2, <1>5, <1>6, <1>7, <1>8

\* A commit writes what its snapshot holds.
LEMMA CommitBalances ==
    ASSUME BooksInv, Commit, NEW c \in Buyers
    PROVE  /\ disk'.actors = shot.actors
           /\ Balance(disk'.actors, disk'.rows, c) = Balance(shot.actors, shot.orders, c)
<1> DEFINE saved == Upsert(ExpireAbsent(disk.rows, DOMAIN shot.orders), shot.orders)
<1>1. disk' = [disk EXCEPT !.actors = shot.actors, !.rows = saved]
  BY DEF Commit
<1>2. Escrow(c, saved, ReadyIn(saved)) = Escrow(c, shot.orders, ReadyIn(shot.orders))
  BY EscrowSaved DEF BooksInv, OrdersTypeOK
<1> HIDE DEF saved
<1>3. disk'.actors = shot.actors /\ disk'.rows = saved
  BY <1>1 DEF BooksInv, OrdersTypeOK
<1> QED BY <1>2, <1>3 DEF Balance

\* A restart holds again what the database held.
LEMMA RestartBalances ==
    ASSUME BooksInv, Restart, NEW c \in Buyers
    PROVE  /\ Balance(actors', orders', c) = Balance(disk.actors, disk.rows, c)
           /\ TillMatches(disk.actors, c) => TillMatches(actors', c)
<1> DEFINE loaded == Without(disk.rows, DOMAIN disk.rows \ ReadyIn(disk.rows))
           late == {i \in DOMAIN loaded : age[i] = "lapsed"}
<1>1. orders' = Closed(loaded, late, "expired") /\ actors' = Expired(actors, loaded, late) /\ ~up
  BY DEF Restart
<1>2. IsBook(disk.rows, Row) /\ actors = disk.actors /\ actors \in ActorState
  BY <1>1 DEF BooksInv, OrdersTypeOK, DownInv
<1>3. /\ IsBook(loaded, Order) /\ DOMAIN loaded = ReadyIn(disk.rows)
      /\ ReadyIn(loaded) = ReadyIn(disk.rows)
  BY <1>2, BookLoaded
<1>4. late \in SUBSET ReadyIn(loaded)
  BY <1>3
<1>5. Escrow(c, loaded, ReadyIn(loaded)) = Escrow(c, disk.rows, ReadyIn(disk.rows))
  <2>1. \A j \in ReadyIn(disk.rows) : loaded[j] = disk.rows[j]
    BY DEF Without, ReadyIn
  <2> HIDE DEF loaded
  <2> QED BY <1>3, <2>1, EscrowSame
<1> HIDE DEF loaded, late
<1>6. /\ Balance(Expired(actors, loaded, late), Closed(loaded, late, "expired"), c)
            = Balance(actors, loaded, c)
      /\ TillMatches(actors, c) => TillMatches(Expired(actors, loaded, late), c)
  BY <1>2, <1>3, <1>4, ExpiredBalances
<1> QED BY <1>1, <1>2, <1>5, <1>6 DEF Balance

----------------------------------------------------------------------------
(* Nothing for free *)

\* A buyer's side of some books is worth no more than its purse.
Capped(acts, book) == \A c \in Buyers : Balance(acts, book, c) <= Purse

CapInv ==
    /\ Capped(actors, orders) /\ Capped(disk.actors, disk.rows)
    /\ shot # NoShot => Capped(shot.actors, shot.orders)

LEMMA EmptyEscrow ==
    ASSUME NEW c
    PROVE  Escrow(c, [i \in {} |-> {}], ReadyIn([i \in {} |-> {}])) = 0
<1> DEFINE none == [i \in {} |-> {}]
<1>1. ReadyIn(none) = {}
  BY DEF ReadyIn
<1>2. Escrow(c, none, {}) = Deposit * Cardinality({}) + Price * Cardinality({})
  <2>1. /\ {i \in {} : none[i].buyer = c /\ none[i].part} = {}
        /\ {i \in {} : none[i].buyer = c /\ ~none[i].part} = {}
    OBVIOUS
  <2> HIDE DEF none
  <2> QED BY <2>1 DEF Escrow
<1>3. Cardinality({}) = 0
  BY FS_EmptySet
<1> HIDE DEF none
<1>4. Escrow(c, none, ReadyIn(none)) = 0
  BY <1>1, <1>2, <1>3
<1> QED BY <1>4 DEF none

LEMMA CapInit == Init => CapInv
<1> SUFFICES ASSUME Init PROVE CapInv
  OBVIOUS
<1> DEFINE none == [i \in {} |-> {}]
<1>1. ASSUME NEW c \in Buyers
      PROVE  Balance(Start, none, c) = Purse
  <2>1. Start.coins[c] = Purse /\ Start.got[c] = 0 /\ Start.lost[c] = 0
    BY DEF Start
  <2>2. Escrow(c, none, ReadyIn(none)) = 0
    BY EmptyEscrow
  <2> HIDE DEF none
  <2> QED BY <2>1, <2>2 DEF Balance, Held
<1>2. Capped(Start, none)
  BY <1>1 DEF Capped
<1> QED BY <1>2 DEF Init, CapInv

\* Only a crash stops the engine, and nothing but a restart touches the memory of
\* a dead one.
LEMMA UpKeeps ==
    ASSUME [Next]_vars, up, ~up'
    PROVE  Crash
BY DEF Next, vars, Offer, Sale, Commission, Book, TakeHome, Lodge, EatHere, Accept, Forge, Deliver,
       DeliverLate, Grow, Sweep, Expire, BuildSnapshot, Commit, SaveFails, Restart

LEMMA DownKeeps ==
    ASSUME BooksInv, [Next]_vars, ~up, ~Restart
    PROVE  actors' = actors /\ orders' = orders /\ disk' = disk /\ shot' = shot /\ ~up'
<1>1. open = {} /\ shot = NoShot
  BY DEF BooksInv, DownInv
<1>2. (\E i \in Ids : Grow(i)) \/ UNCHANGED vars
  BY <1>1 DEF Next, Offer, Sale, Forge, Deliver, DeliverLate, Sweep, BuildSnapshot, Commit,
              SaveFails, Crash
<1> QED BY <1>2 DEF Grow, vars

\* What NothingForFree and the accounts count, in terms of the balance.
LEMMA BalanceWorth ==
    ASSUME NEW acts \in ActorState, NEW book, NEW R, IsBook(book, R), NEW c \in Buyers
    PROVE  /\ Worth(acts, book, c) = Balance(acts, book, c) - Deposit * acts.lost[c]
           /\ Worth(acts, book, c) <= Balance(acts, book, c)
           /\ Worth(acts, book, c) \in Int
<1>1. /\ acts.coins[c] \in Int /\ Price * acts.got[c] \in Nat /\ Deposit * acts.lost[c] \in Nat
      /\ Escrow(c, book, ReadyIn(book)) \in Nat
  BY ActorFields, BalanceType
<1> QED BY <1>1 DEF Worth, Balance, Held

LEMMA CapStep == BooksInv /\ CapInv /\ [Next]_vars => CapInv'
<1> SUFFICES ASSUME BooksInv, CapInv, [Next]_vars PROVE CapInv'
  OBVIOUS
<1>1. /\ actors \in ActorState /\ IsBook(orders, Order)
      /\ disk.actors \in ActorState /\ IsBook(disk.rows, Row)
  BY DEF BooksInv, OrdersTypeOK
<1>2. BooksInv' /\ disk'.actors \in ActorState /\ IsBook(disk'.rows, Row)
  BY BooksStep DEF BooksInv, OrdersTypeOK
<1>3. Capped(disk.actors, disk.rows)'
  <2>1. CASE Commit
    <3>1. Capped(shot.actors, shot.orders)
      BY <2>1 DEF Commit, CapInv
    <3> QED BY <2>1, <3>1, CommitBalances DEF Capped
  <2>2. CASE ~Commit
    <3> SUFFICES ASSUME NEW c \in Buyers PROVE Balance(disk'.actors, disk'.rows, c) <= Purse
      BY DEF Capped
    <3>1. /\ disk'.actors = disk.actors
          /\ Escrow(c, disk'.rows, ReadyIn(disk'.rows)) <= Escrow(c, disk.rows, ReadyIn(disk.rows))
      BY <2>2, DiskStep
    <3>2. Balance(disk.actors, disk.rows, c) <= Purse
      BY DEF CapInv, Capped
    <3>3. /\ Held(disk.actors, c) \in Int /\ Escrow(c, disk.rows, ReadyIn(disk.rows)) \in Nat
          /\ Escrow(c, disk'.rows, ReadyIn(disk'.rows)) \in Nat
      BY <1>1, <1>2, BalanceType
    <3> QED BY <3>1, <3>2, <3>3 DEF Balance
  <2> QED BY <2>1, <2>2
<1>4. Capped(actors, orders)'
  <2>1. CASE up /\ up'
    BY <2>1, MemoryStep DEF CapInv, Capped, SameMemory
  <2>2. CASE Crash
    <3>1. actors' = disk.actors /\ orders' = [i \in {} |-> {}]
      BY <2>2 DEF Crash
    <3> SUFFICES ASSUME NEW c \in Buyers PROVE Balance(disk.actors, [i \in {} |-> {}], c) <= Purse
      BY <3>1 DEF Capped
    <3>2. Balance(disk.actors, disk.rows, c) <= Purse
      BY DEF CapInv, Capped
    <3>3. Held(disk.actors, c) \in Int /\ Escrow(c, disk.rows, ReadyIn(disk.rows)) \in Nat
      BY <1>1, BalanceType
    <3> QED BY <3>2, <3>3, EmptyEscrow DEF Balance
  <2>3. CASE Restart
    BY <2>3, RestartBalances DEF CapInv, Capped
  <2>4. CASE ~up /\ ~Restart
    <3>1. actors' = actors /\ orders' = orders
      BY <2>4, DownKeeps
    <3> QED BY <3>1 DEF CapInv
  <2>5. up /\ ~up' => Crash
    BY UpKeeps
  <2> QED BY <2>1, <2>2, <2>3, <2>4, <2>5 DEF BooksInv, OrdersTypeOK
<1>5. shot' # NoShot => Capped(shot'.actors, shot'.orders)
  <2>1. \/ shot' = shot \/ shot' = NoShot
        \/ shot' = [actors |-> actors, orders |-> orders]
    BY DEF Next, vars, Offer, Sale, Commission, Book, TakeHome, Lodge, EatHere, Accept, Forge, Deliver,
           DeliverLate, Grow, Sweep, Expire, BuildSnapshot, Commit, SaveFails, Crash, Restart
  <2> QED BY <2>1 DEF CapInv
<1> QED BY <1>3, <1>4, <1>5 DEF CapInv

\* However writes, saves and crashes fall, no buyer ends up with more than it had,
\* in memory or in the database.
THEOREM OrdersNothingForFree == Spec => []NothingForFree
<1>1. BooksInv /\ CapInv => NothingForFree
  <2> SUFFICES ASSUME BooksInv, CapInv, NEW b \in Buyers
               PROVE  /\ Worth(actors, orders, b) <= Purse
                      /\ Worth(disk.actors, disk.rows, b) <= Purse
    BY DEF NothingForFree
  <2>1. /\ actors \in ActorState /\ IsBook(orders, Order)
        /\ disk.actors \in ActorState /\ IsBook(disk.rows, Row)
    BY DEF BooksInv, OrdersTypeOK
  <2>2. Balance(actors, orders, b) <= Purse /\ Balance(disk.actors, disk.rows, b) <= Purse
    BY DEF CapInv, Capped
  <2>3. Worth(actors, orders, b) <= Purse
    <3>1. /\ Worth(actors, orders, b) <= Balance(actors, orders, b)
          /\ Worth(actors, orders, b) \in Int /\ Balance(actors, orders, b) \in Int
      BY <2>1, BalanceWorth, BalanceType
    <3> QED BY <2>2, <3>1
  <2>4. Worth(disk.actors, disk.rows, b) <= Purse
    <3>1. /\ Worth(disk.actors, disk.rows, b) <= Balance(disk.actors, disk.rows, b)
          /\ Worth(disk.actors, disk.rows, b) \in Int /\ Balance(disk.actors, disk.rows, b) \in Int
      BY <2>1, BalanceWorth, BalanceType
    <3> QED BY <2>2, <3>1
  <2> QED BY <2>3, <2>4
<1>2. Spec => [](BooksInv /\ CapInv)
  BY BooksInit, BooksStep, CapInit, CapStep, PTL DEF Spec
<1> QED BY <1>1, <1>2, PTL

----------------------------------------------------------------------------
(* Which orders are handed over *)

\* An order in memory says whether its goods are among the counters, and an order
\* still owed is not written as closed.
OrdersHanded ==
    \A i \in DOMAIN orders :
        /\ orders[i].state = "delivered" => i \in actors.handed
        /\ orders[i].state = "ready" => i \notin actors.handed
        /\ i \in DOMAIN disk.rows =>
             /\ disk.rows[i].state = "delivered" => i \in actors.handed
             /\ orders[i].state = "ready" => disk.rows[i].state = "ready"

\* No saved counter holds the goods of a row still owed, and what was handed over
\* is an order or a row.
HandedKnown ==
    /\ \A i \in DOMAIN disk.rows : disk.rows[i].state = "ready" => i \notin disk.actors.handed
    /\ actors.handed \subseteq DOMAIN orders \cup DOMAIN disk.rows
    /\ disk.actors.handed \subseteq DOMAIN disk.rows

\* The same of the save in flight; what was closed since it was built is closed in
\* memory, and it misses no row that memory knows or has handed over since.
ShotHanded ==
    /\ shot.actors.handed \subseteq actors.handed
    /\ shot.actors.handed \subseteq DOMAIN shot.orders \cup DOMAIN disk.rows
    /\ \A i \in DOMAIN shot.orders :
          /\ shot.orders[i].state = "delivered" => i \in shot.actors.handed
          /\ shot.orders[i].state = "ready" => i \notin shot.actors.handed
          /\ i \in DOMAIN disk.rows /\ disk.rows[i].state = "delivered" => i \in actors.handed
          /\ i \in DOMAIN orders /\ orders[i].state = "ready" => shot.orders[i].state = "ready"
    /\ \A i \in DOMAIN disk.rows :
          i \in DOMAIN orders \/ i \in actors.handed \ shot.actors.handed
             => i \in DOMAIN shot.orders

HandInv == OrdersHanded /\ HandedKnown /\ (shot # NoShot => ShotHanded)

LEMMA HandInit == Init => HandInv
BY DEF Init, Start, HandInv, OrdersHanded, HandedKnown

\* What a step leaves alone.
SameDisk == disk'.actors = disk.actors /\ disk'.rows = disk.rows

LEMMA HandSame ==
    ASSUME HandInv, SameDisk, orders' = orders, actors'.handed = actors.handed,
           shot' = shot \/ shot' = NoShot
    PROVE  HandInv'
<1>1. OrdersHanded' /\ HandedKnown'
  BY DEF HandInv, OrdersHanded, HandedKnown, SameDisk
<1>2. ASSUME shot' # NoShot PROVE ShotHanded'
  <2>1. shot' = shot /\ ShotHanded
    BY <1>2 DEF HandInv
  <2> QED BY <2>1 DEF ShotHanded, SameDisk
<1> QED BY <1>1, <1>2 DEF HandInv

LEMMA HandMint ==
    ASSUME BooksInv, HandInv, NEW i \in open, NEW b \in Buyers, NEW o \in Order,
           NEW units \in {0, 1}, NEW taken \in {0, 1}, MintingSale(i, b, o, units, taken)
    PROVE  HandInv' /\ SameDisk /\ actors'.handed \subseteq actors.handed \cup {i} /\ shot' = shot
<1>1. /\ orders' = Put(orders, i, o) /\ shot' = shot /\ up
      /\ actors'.handed = actors.handed \cup DoneBy(i, o)
  BY DEF MintingSale, Mint, Accept, Charged
<1>2. SameDisk
  <2>1. PICK log \in Logged(disk.paid, i) : disk' = [disk EXCEPT !.paid = log]
    BY DEF MintingSale, Mint
  <2> QED BY <2>1 DEF SameDisk, BooksInv, OrdersTypeOK
<1>3. /\ i \notin DOMAIN orders /\ i \notin DOMAIN disk.rows /\ i \notin actors.handed
      /\ shot # NoShot => i \notin DOMAIN shot.orders
  BY DEF BooksInv, IdsInv, Referenced, HandInv, HandedKnown
<1>4. /\ DOMAIN orders' = DOMAIN orders \cup {i} /\ orders'[i] = o
      /\ \A j \in DOMAIN orders : orders'[j] = orders[j]
  BY <1>1, <1>3 DEF Put
<1>5. /\ o.state = "delivered" => actors'.handed = actors.handed \cup {i}
      /\ o.state # "delivered" => actors'.handed = actors.handed
  BY <1>1 DEF DoneBy
<1>6. OrdersHanded'
  BY <1>2, <1>3, <1>4, <1>5 DEF HandInv, OrdersHanded, SameDisk
<1>7. HandedKnown'
  BY <1>2, <1>4, <1>5 DEF HandInv, HandedKnown, SameDisk
<1>8. ASSUME shot # NoShot PROVE ShotHanded'
  BY <1>1, <1>2, <1>3, <1>4, <1>5, <1>8 DEF HandInv, ShotHanded, SameDisk
<1> QED BY <1>1, <1>2, <1>5, <1>6, <1>7, <1>8 DEF HandInv

\* A meal is written in a row of its own, or not at all.
LEMMA EatShape ==
    ASSUME BooksInv, HandInv, NEW i \in open, NEW b \in Buyers, EatHere(i, b)
    PROVE  /\ orders' = orders /\ shot' = shot /\ disk'.actors = disk.actors
           /\ actors'.handed = actors.handed
           /\ i \notin Referenced /\ i \notin actors.handed
           /\ SameDisk \/ /\ DOMAIN disk'.rows = DOMAIN disk.rows \cup {i}
                          /\ \A j \in DOMAIN disk.rows : disk'.rows[j] = disk.rows[j]
                          /\ disk'.rows[i].kind = "meal" /\ disk'.rows[i].state = "delivered"
<1> DEFINE row == [buyer |-> b, kind |-> "meal", part |-> FALSE, state |-> "delivered"]
<1>1. PICK log \in Logged(disk.paid, i), rows \in {disk.rows, Put(disk.rows, i, row)} :
        disk' = [disk EXCEPT !.paid = log, !.rows = rows]
  BY Zenon DEF EatHere, WriteOrderless
<1>2. row.kind = "meal" /\ row.state = "delivered"
  OBVIOUS
<1> HIDE DEF row
<1>3. disk'.actors = disk.actors /\ disk'.rows = rows
  BY <1>1 DEF BooksInv, OrdersTypeOK
<1>4. /\ DOMAIN Put(disk.rows, i, row) = DOMAIN disk.rows \cup {i}
      /\ Put(disk.rows, i, row)[i] = row
      /\ \A j \in DOMAIN disk.rows : j # i => Put(disk.rows, i, row)[j] = disk.rows[j]
  BY DEF Put
<1>5. orders' = orders /\ shot' = shot /\ actors'.handed = actors.handed
  BY DEF EatHere, Accept, Charged
<1>6. i \notin Referenced /\ i \notin actors.handed
  BY DEF BooksInv, IdsInv, Referenced, HandInv, HandedKnown
<1>7. i \notin DOMAIN disk.rows
  BY <1>6 DEF Referenced
<1> QED BY <1>1, <1>2, <1>3, <1>4, <1>5, <1>6, <1>7 DEF SameDisk

LEMMA HandEat ==
    ASSUME BooksInv, HandInv, NEW i \in open, NEW b \in Buyers, EatHere(i, b)
    PROVE  HandInv'
<1>1. /\ orders' = orders /\ shot' = shot /\ disk'.actors = disk.actors
      /\ actors'.handed = actors.handed
      /\ i \notin Referenced /\ i \notin actors.handed
  BY EatShape
<1>2. CASE SameDisk
  BY <1>1, <1>2, HandSame
<1>3. CASE ~SameDisk
  <2>1. DOMAIN disk'.rows = DOMAIN disk.rows \cup {i} /\ disk'.rows[i].state = "delivered"
    BY <1>3, EatShape
  <2>2. \A j \in DOMAIN disk.rows : disk'.rows[j] = disk.rows[j]
    BY <1>3, EatShape
  <2>3. /\ i \notin DOMAIN orders /\ i \notin DOMAIN disk.rows
        /\ shot # NoShot => i \notin DOMAIN shot.orders
    BY <1>1 DEF Referenced
  <2>4. OrdersHanded'
    BY <1>1, <2>1, <2>2, <2>3 DEF HandInv, OrdersHanded
  <2>5. HandedKnown'
    BY <1>1, <2>1, <2>2 DEF HandInv, HandedKnown
  <2>6. ASSUME shot # NoShot PROVE ShotHanded'
    BY <1>1, <2>1, <2>2, <2>3, <2>6 DEF HandInv, ShotHanded
  <2> QED BY <1>1, <2>4, <2>5, <2>6 DEF HandInv
<1> QED BY <1>2, <1>3

\* A delivery hands order i over; its row, if it is written, was ready.
LEMMA DeliverShape ==
    ASSUME BooksInv, HandInv, NEW i \in Ids, Deliver(i)
    PROVE  /\ i \in DOMAIN orders /\ orders[i].state = "ready"
           /\ shot' = shot /\ disk'.actors = disk.actors
           /\ actors'.handed = actors.handed \cup {i}
           /\ \/ /\ i \in ReadyIn(disk.rows) /\ disk'.rows = Closed(disk.rows, {i}, "delivered")
                 /\ orders' = Without(orders, {i})
              \/ disk'.rows = disk.rows /\ orders' = Closed(orders, {i}, "delivered")
<1>1. PICK written \in BOOLEAN : WriteTerminal(i, written)
  BY DEF Deliver
<1>2. /\ i \in DOMAIN orders /\ orders[i].state = "ready" /\ shot' = shot
      /\ actors'.handed = actors.handed \cup {i}
  BY DEF Deliver, ReadyIn, Charged
<1>3. CASE written
  <2>1. /\ i \in DOMAIN disk.rows /\ orders' = Without(orders, {i})
        /\ disk' = [disk EXCEPT !.rows = Closed(@, {i}, "delivered")]
    BY <1>1, <1>3 DEF WriteTerminal
  <2>2. disk'.actors = disk.actors /\ disk'.rows = Closed(disk.rows, {i}, "delivered")
    BY <2>1 DEF BooksInv, OrdersTypeOK
  <2>3. i \in ReadyIn(disk.rows)
    BY <1>2, <2>1 DEF HandInv, OrdersHanded, ReadyIn
  <2> QED BY <1>2, <2>1, <2>2, <2>3
<1>4. CASE ~written
  BY <1>1, <1>2, <1>4 DEF WriteTerminal
<1> QED BY <1>3, <1>4

\* Closing an order changes no state but its own.
LEMMA ClosedStates ==
    ASSUME NEW book, IsBook(book, Row), NEW I, NEW s
    PROVE  /\ DOMAIN Closed(book, I, s) = DOMAIN book
           /\ \A j \in DOMAIN book :
                 /\ j \in I => Closed(book, I, s)[j].state = s
                 /\ Closed(book, I, s)[j].kind = book[j].kind
                 /\ Closed(book, I, s)[j].buyer = book[j].buyer
                 /\ Closed(book, I, s)[j].part = book[j].part
                 /\ j \notin I => Closed(book, I, s)[j] = book[j]
<1>1. DOMAIN Closed(book, I, s) = DOMAIN book
  BY DEF Closed
<1>2. ASSUME NEW j \in DOMAIN book \cap I
      PROVE  /\ Closed(book, I, s)[j].state = s
             /\ Closed(book, I, s)[j].kind = book[j].kind
             /\ Closed(book, I, s)[j].buyer = book[j].buyer
             /\ Closed(book, I, s)[j].part = book[j].part
  <2>1. book[j] \in Row /\ Closed(book, I, s)[j] = [book[j] EXCEPT !.state = s]
    BY DEF Closed, IsBook
  <2> QED BY <2>1, RowState
<1>3. \A j \in DOMAIN book \ I : Closed(book, I, s)[j] = book[j]
  BY DEF Closed
<1> QED BY <1>1, <1>2, <1>3

LEMMA DeliverRows ==
    ASSUME BooksInv, HandInv, NEW i \in Ids, Deliver(i)
    PROVE  /\ DOMAIN disk'.rows = DOMAIN disk.rows
           /\ \A j \in DOMAIN disk.rows : j # i => disk'.rows[j] = disk.rows[j]
           /\ i \in DOMAIN disk.rows =>
                 disk'.rows[i].state = "delivered" \/ disk'.rows[i] = disk.rows[i]
<1> DEFINE new == Closed(disk.rows, {i}, "delivered")
<1>1. /\ DOMAIN new = DOMAIN disk.rows
      /\ \A j \in DOMAIN disk.rows : j # i => new[j] = disk.rows[j]
      /\ i \in DOMAIN disk.rows => new[i].state = "delivered"
  BY ClosedStates DEF BooksInv, OrdersTypeOK
<1>2. disk'.rows = new \/ disk'.rows = disk.rows
  BY DeliverShape
<1> HIDE DEF new
<1> QED BY <1>1, <1>2

LEMMA HandDeliver ==
    ASSUME BooksInv, HandInv, NEW i \in Ids, Deliver(i)
    PROVE  HandInv'
<1>1. /\ i \in DOMAIN orders /\ orders[i].state = "ready"
      /\ shot' = shot /\ disk'.actors = disk.actors
      /\ actors'.handed = actors.handed \cup {i} /\ i \notin actors.handed
  BY DeliverShape DEF HandInv, OrdersHanded
<1>2. IsBook(orders, Row)
  BY OrdersAreRows DEF BooksInv, OrdersTypeOK
<1>3. /\ DOMAIN disk'.rows = DOMAIN disk.rows
      /\ \A j \in DOMAIN disk.rows : j # i => disk'.rows[j] = disk.rows[j]
      /\ i \in DOMAIN disk.rows =>
            disk'.rows[i].state = "delivered" \/ disk'.rows[i] = disk.rows[i]
  BY DeliverRows
<1>4. /\ DOMAIN orders' \subseteq DOMAIN orders
      /\ \A j \in DOMAIN orders : j # i => j \in DOMAIN orders' /\ orders'[j] = orders[j]
      /\ i \in DOMAIN orders' => orders'[i].state = "delivered"
      /\ i \in DOMAIN orders' \/ i \in DOMAIN disk.rows
  <2>1. CASE i \in ReadyIn(disk.rows) /\ orders' = Without(orders, {i})
    BY <2>1 DEF Without, ReadyIn
  <2>2. CASE orders' = Closed(orders, {i}, "delivered")
    BY <1>1, <1>2, <2>2, ClosedStates
  <2> QED BY <2>1, <2>2, DeliverShape
<1>5. OrdersHanded'
  BY <1>1, <1>3, <1>4 DEF HandInv, OrdersHanded
<1>6. HandedKnown'
  <2>1. i \in DOMAIN disk.rows => disk.rows[i].state = "ready"
    BY <1>1 DEF HandInv, OrdersHanded
  <2> QED BY <1>1, <1>3, <1>4, <2>1 DEF HandInv, HandedKnown
<1>7. ASSUME shot # NoShot PROVE ShotHanded'
  <2>1. ShotHanded
    BY <1>7 DEF HandInv
  <2> QED BY <1>1, <1>3, <1>4, <2>1 DEF ShotHanded
<1> QED BY <1>1, <1>5, <1>6, <1>7 DEF HandInv

LEMMA HandExpire ==
    ASSUME BooksInv, HandInv, NEW I \in SUBSET ReadyIn(orders), Expire(I)
    PROVE  HandInv' /\ SameDisk /\ actors'.handed = actors.handed /\ shot' = shot
<1>1. /\ orders' = Closed(orders, I, "expired") /\ SameDisk /\ shot' = shot
      /\ actors'.handed = actors.handed
  BY DEF Expire, Expired, SameDisk
<1>2. /\ DOMAIN orders' = DOMAIN orders
      /\ \A j \in DOMAIN orders : orders'[j].state = "expired" \/ orders'[j] = orders[j]
  <2>1. IsBook(orders, Row)
    BY OrdersAreRows DEF BooksInv, OrdersTypeOK
  <2> QED BY <1>1, <2>1, ClosedStates
<1>3. OrdersHanded' /\ HandedKnown'
  BY <1>1, <1>2 DEF HandInv, OrdersHanded, HandedKnown, SameDisk
<1>4. ASSUME shot # NoShot PROVE ShotHanded'
  BY <1>1, <1>2, <1>4 DEF HandInv, ShotHanded, SameDisk
<1> QED BY <1>1, <1>3, <1>4 DEF HandInv

LEMMA HandSnapshot == HandInv /\ BuildSnapshot => HandInv'
<1> SUFFICES ASSUME HandInv, BuildSnapshot PROVE HandInv'
  OBVIOUS
<1>1. orders' = orders /\ actors' = actors /\ disk' = disk
  BY DEF BuildSnapshot
<1>2. shot'.actors = actors /\ shot'.orders = orders
  BY DEF BuildSnapshot
<1>3. OrdersHanded' /\ HandedKnown'
  BY <1>1 DEF HandInv, OrdersHanded, HandedKnown
<1>4. ShotHanded'
  BY <1>1, <1>2 DEF HandInv, OrdersHanded, HandedKnown, ShotHanded
<1> QED BY <1>3, <1>4 DEF HandInv

\* What a commit makes of each row.
LEMMA CommitRows ==
    ASSUME BooksInv, Commit
    PROVE  /\ disk'.actors = shot.actors /\ actors' = actors /\ orders' = orders
           /\ shot # NoShot /\ shot' = NoShot
           /\ DOMAIN disk'.rows = DOMAIN disk.rows \cup DOMAIN shot.orders
           /\ \A i \in DOMAIN shot.orders : disk'.rows[i] = shot.orders[i]
           /\ \A i \in DOMAIN disk.rows \ DOMAIN shot.orders :
                 \/ disk.rows[i].state = "ready" /\ disk'.rows[i].state = "expired"
                 \/ disk.rows[i].state # "ready" /\ disk'.rows[i] = disk.rows[i]
<1> DEFINE old == ExpireAbsent(disk.rows, DOMAIN shot.orders)
           saved == Upsert(old, shot.orders)
<1>1. /\ disk' = [disk EXCEPT !.actors = shot.actors, !.rows = saved]
      /\ actors' = actors /\ orders' = orders /\ shot # NoShot /\ shot' = NoShot
  BY DEF Commit
<1>2. /\ DOMAIN old = DOMAIN disk.rows
      /\ \A i \in DOMAIN disk.rows \ DOMAIN shot.orders :
            \/ disk.rows[i].state = "ready" /\ old[i].state = "expired"
            \/ disk.rows[i].state # "ready" /\ old[i] = disk.rows[i]
  <2> DEFINE I == ReadyIn(disk.rows) \ DOMAIN shot.orders
  <2>1. old = Closed(disk.rows, I, "expired")
    BY DEF ExpireAbsent
  <2>2. IsBook(disk.rows, Row)
    BY DEF BooksInv, OrdersTypeOK
  <2>3. \A i \in DOMAIN disk.rows \ DOMAIN shot.orders : i \in I <=> disk.rows[i].state = "ready"
    BY DEF ReadyIn
  <2> HIDE DEF old, I
  <2> QED BY <2>1, <2>2, <2>3, ClosedStates
<1> HIDE DEF old
<1>3. /\ DOMAIN saved = DOMAIN old \cup DOMAIN shot.orders
      /\ \A i \in DOMAIN shot.orders : saved[i] = shot.orders[i]
      /\ \A i \in DOMAIN old \ DOMAIN shot.orders : saved[i] = old[i]
  BY DEF Upsert
<1> HIDE DEF saved
<1>4. disk'.actors = shot.actors /\ disk'.rows = saved
  BY <1>1 DEF BooksInv, OrdersTypeOK
<1> QED BY <1>1, <1>2, <1>3, <1>4

LEMMA HandCommit == BooksInv /\ HandInv /\ Commit => HandInv'
<1> SUFFICES ASSUME BooksInv, HandInv, Commit PROVE HandInv'
  OBVIOUS
<1>1. shot # NoShot /\ ShotHanded
  BY DEF Commit, HandInv
<1>2. OrdersHanded'
  <2> SUFFICES ASSUME NEW i \in DOMAIN orders
               PROVE  /\ orders[i].state = "delivered" => i \in actors.handed
                      /\ orders[i].state = "ready" => i \notin actors.handed
                      /\ i \in DOMAIN disk'.rows =>
                           /\ disk'.rows[i].state = "delivered" => i \in actors.handed
                           /\ orders[i].state = "ready" => disk'.rows[i].state = "ready"
    BY CommitRows DEF OrdersHanded
  <2>1. CASE i \in DOMAIN shot.orders
    <3>1. disk'.rows[i] = shot.orders[i]
      BY <2>1, CommitRows
    <3> QED BY <1>1, <2>1, <3>1 DEF HandInv, OrdersHanded, ShotHanded
  <2>2. CASE i \notin DOMAIN shot.orders
    <3>1. i \notin DOMAIN disk'.rows
      BY <1>1, <2>2, CommitRows DEF ShotHanded
    <3> QED BY <3>1 DEF HandInv, OrdersHanded
  <2> QED BY <2>1, <2>2
<1>3. HandedKnown'
  <2>1. \A i \in DOMAIN disk'.rows : disk'.rows[i].state = "ready" => i \notin shot.actors.handed
    BY <1>1, CommitRows DEF ShotHanded
  <2>2. /\ actors.handed \subseteq DOMAIN orders \cup DOMAIN disk'.rows
        /\ shot.actors.handed \subseteq DOMAIN disk'.rows
    BY <1>1, CommitRows DEF HandInv, HandedKnown, ShotHanded
  <2> QED BY <2>1, <2>2, CommitRows DEF HandedKnown
<1> QED BY <1>2, <1>3, CommitRows DEF HandInv

LEMMA HandCrash == HandInv /\ Crash => HandInv'
BY DEF HandInv, OrdersHanded, HandedKnown, Crash

LEMMA HandRestart ==
    BooksInv /\ HandInv /\ Restart
       => HandInv' /\ SameDisk /\ actors'.handed = actors.handed /\ actors = disk.actors /\ shot' = NoShot
<1> SUFFICES ASSUME BooksInv, HandInv, Restart
             PROVE  /\ HandInv' /\ SameDisk /\ actors'.handed = actors.handed
                    /\ actors = disk.actors /\ shot' = NoShot
  OBVIOUS
<1> DEFINE loaded == Without(disk.rows, DOMAIN disk.rows \ ReadyIn(disk.rows))
           late == {i \in DOMAIN loaded : age[i] = "lapsed"}
<1>1. /\ orders' = Closed(loaded, late, "expired") /\ actors' = Expired(actors, loaded, late)
      /\ ~up /\ shot' = shot /\ disk' = disk
  BY DEF Restart
<1>2. actors = disk.actors /\ shot' = NoShot
  BY <1>1 DEF BooksInv, DownInv
<1>3. IsBook(loaded, Row) /\ DOMAIN loaded = ReadyIn(disk.rows)
  BY BookLoaded, OrdersAreRows DEF BooksInv, OrdersTypeOK
<1>4. \A i \in DOMAIN loaded : loaded[i] = disk.rows[i] /\ disk.rows[i].state = "ready"
  BY DEF Without, ReadyIn
<1> HIDE DEF loaded, late
<1>5. actors'.handed = actors.handed
  BY <1>1 DEF Expired
<1>6. /\ DOMAIN orders' = ReadyIn(disk.rows)
      /\ \A i \in DOMAIN orders' : orders'[i].state = "expired" \/ orders'[i] = disk.rows[i]
  BY <1>1, <1>3, <1>4, ClosedStates
<1>7. ReadyIn(disk.rows) \subseteq DOMAIN disk.rows /\ \A i \in ReadyIn(disk.rows) : disk.rows[i].state = "ready"
  BY DEF ReadyIn
<1>8. OrdersHanded'
  BY <1>1, <1>2, <1>5, <1>6, <1>7 DEF HandInv, HandedKnown, OrdersHanded
<1>9. HandedKnown'
  BY <1>1, <1>2, <1>5 DEF HandInv, HandedKnown
<1> QED BY <1>1, <1>2, <1>5, <1>8, <1>9 DEF HandInv, SameDisk

\* The steps that touch neither the books nor what is handed over.
LEMMA OtherSteps ==
    ASSUME BooksInv,
           Offer \/ Forge \/ SaveFails \/ UNCHANGED vars \/ \E i \in Ids : Grow(i)
    PROVE  /\ SameDisk /\ orders' = orders /\ actors'.handed = actors.handed
           /\ shot' = shot \/ shot' = NoShot
<1>1. CASE Offer
  <2>1. PICK log : disk' = [disk EXCEPT !.offered = log]
    BY <1>1 DEF Offer
  <2> QED BY <1>1, <2>1 DEF Offer, SameDisk, BooksInv, OrdersTypeOK
<1>2. CASE Forge
  BY <1>2 DEF Forge, SameDisk, BooksInv, OrdersTypeOK, ActorState
<1>3. CASE SaveFails \/ UNCHANGED vars \/ \E i \in Ids : Grow(i)
  BY <1>3 DEF SaveFails, Grow, vars, SameDisk
<1> QED BY <1>1, <1>2, <1>3

LEMMA ExpireSteps ==
    ASSUME Sweep \/ \E i \in Ids : DeliverLate(i)
    PROVE  \E I \in SUBSET ReadyIn(orders) : Expire(I)
<1>1. Lapsed \in SUBSET ReadyIn(orders)
  BY DEF Lapsed
<1>2. \A i \in Lapsed : {i} \in SUBSET ReadyIn(orders)
  BY <1>1
<1> QED BY <1>1, <1>2 DEF Sweep, DeliverLate

LEMMA HandStep == BooksInv /\ HandInv /\ [Next]_vars => HandInv'
<1> SUFFICES ASSUME BooksInv, HandInv, [Next]_vars PROVE HandInv'
  OBVIOUS
<1>1. CASE Sale
  BY <1>1, SaleActions, HandMint, HandEat DEF BooksInv
<1>2. CASE \E i \in Ids : Deliver(i)
  BY <1>2, HandDeliver
<1>3. CASE Sweep \/ \E i \in Ids : DeliverLate(i)
  BY <1>3, ExpireSteps, HandExpire
<1>4. CASE Offer \/ Forge \/ SaveFails \/ UNCHANGED vars \/ \E i \in Ids : Grow(i)
  BY <1>4, OtherSteps, HandSame
<1> QED BY <1>1, <1>2, <1>3, <1>4, HandSnapshot, HandCommit, HandCrash, HandRestart DEF Next

----------------------------------------------------------------------------
(* What a crash loses *)

\* A buyer's purse is its counters, what the book holds for it and the orders gone.
Whole(acts, book, gone) ==
    \A c \in Buyers : /\ Balance(acts, book, c) + Escrow(c, disk.rows, gone) = Purse
                      /\ TillMatches(acts, c)

LossInv ==
    /\ up => Whole(actors, orders, Stranded(actors))
    /\ Whole(disk.actors, disk.rows, Stranded(disk.actors))
    /\ shot # NoShot => Whole(shot.actors, shot.orders, Stranded(actors))
    /\ crashes = 0 => Stranded(actors) = {}

LEMMA LossInit == Init => LossInv
<1> SUFFICES ASSUME Init PROVE LossInv
  OBVIOUS
<1> DEFINE none == [i \in {} |-> {}]
<1>1. disk.rows = none /\ disk.actors = Start /\ actors = Start /\ orders = none /\ shot = NoShot
  BY DEF Init
<1>2. Stranded(Start) = {} /\ ReadyIn(none) = {}
  BY <1>1 DEF Stranded, ReadyIn
<1>3. ASSUME NEW c \in Buyers
      PROVE  /\ Balance(Start, none, c) + Escrow(c, none, {}) = Purse
             /\ TillMatches(Start, c)
  <2>1. Start.coins[c] = Purse /\ Start.got[c] = 0 /\ Start.lost[c] = 0 /\ Start.till[c] = 0
    BY DEF Start
  <2>2. Escrow(c, none, ReadyIn(none)) = 0
    BY EmptyEscrow
  <2> HIDE DEF none
  <2> QED BY <1>2, <2>1, <2>2 DEF Balance, Held, TillMatches
<1> HIDE DEF none
<1> QED BY <1>1, <1>2, <1>3 DEF LossInv, Whole

\* While the engine runs no step adds to the orders it lost, changes their rows or
\* finds one again.
LEMMA StrandedStays ==
    ASSUME BooksInv, HandInv, [Next]_vars, ~Crash
    PROVE  /\ Stranded(actors)' = Stranded(actors)
           /\ \A i \in Stranded(actors) : disk'.rows[i] = disk.rows[i]
<1>1. CASE SameDisk /\ actors'.handed = actors.handed
  BY <1>1 DEF SameDisk, Stranded
<1>2. CASE Sale
  <2>1. CASE \E i \in open, b \in Buyers, o \in Order, units \in {0, 1}, taken \in {0, 1} :
                MintingSale(i, b, o, units, taken)
    <3>1. PICK i \in open : SameDisk /\ actors'.handed \subseteq actors.handed \cup {i}
                            /\ actors.handed \subseteq actors'.handed
      <4>1. \A i, b, o, units, taken : MintingSale(i, b, o, units, taken)
               => actors.handed \subseteq actors'.handed
        BY DEF MintingSale, Charged
      <4> QED BY <2>1, <4>1, HandMint
    <3>2. i \notin DOMAIN disk.rows
      BY DEF BooksInv, IdsInv, Referenced
    <3> QED BY <3>1, <3>2 DEF SameDisk, Stranded
  <2>2. CASE \E i \in open, b \in Buyers : EatHere(i, b)
    <3>1. PICK i \in open, b \in Buyers : EatHere(i, b)
      BY <2>2
    <3>2. CASE SameDisk
      BY <1>1, <3>1, <3>2, EatShape
    <3>3. CASE ~SameDisk
      <4>1. /\ DOMAIN disk'.rows = DOMAIN disk.rows \cup {i} /\ disk'.rows[i].kind = "meal"
            /\ \A j \in DOMAIN disk.rows : disk'.rows[j] = disk.rows[j]
            /\ actors'.handed = actors.handed /\ i \notin DOMAIN disk.rows
        BY <3>1, <3>3, EatShape DEF Referenced
      <4> QED BY <4>1 DEF Stranded
    <3> QED BY <3>2, <3>3
  <2> QED BY <1>2, <2>1, <2>2, SaleActions DEF BooksInv
<1>3. CASE \E i \in Ids : Deliver(i)
  <2>1. PICK i \in Ids : Deliver(i)
    BY <1>3
  <2>2. /\ DOMAIN disk'.rows = DOMAIN disk.rows
        /\ \A j \in DOMAIN disk.rows : j # i => disk'.rows[j] = disk.rows[j]
    BY <2>1, DeliverRows
  <2>3. i \in DOMAIN disk.rows => disk.rows[i].state = "ready"
    BY <2>1, DeliverShape DEF HandInv, OrdersHanded
  <2>4. actors'.handed = actors.handed \cup {i}
    BY <2>1, DeliverShape
  <2> QED BY <2>2, <2>3, <2>4 DEF Stranded
<1>4. CASE Sweep \/ \E i \in Ids : DeliverLate(i)
  BY <1>1, <1>4, ExpireSteps, HandExpire
<1>5. CASE Commit
  <2>1. ShotHanded
    BY <1>5 DEF Commit, HandInv
  <2>2. \A i \in DOMAIN disk'.rows : i \in DOMAIN shot.orders =>
            /\ i \notin Stranded(actors)
            /\ disk'.rows[i].state = "delivered" => i \in actors.handed
    BY <1>5, <2>1, CommitRows DEF ShotHanded, Stranded
  <2> QED BY <1>5, <2>2, CommitRows DEF Stranded
<1>6. CASE Offer \/ Forge \/ SaveFails \/ UNCHANGED vars \/ \E i \in Ids : Grow(i)
  BY <1>1, <1>6, OtherSteps
<1>7. CASE BuildSnapshot \/ Restart
  BY <1>1, <1>7, HandRestart DEF BuildSnapshot, SameDisk
<1> QED BY <1>2, <1>3, <1>4, <1>5, <1>6, <1>7 DEF Next

\* What is lost counts as much before and after.
LEMMA StrandedEscrow ==
    ASSUME BooksInv, HandInv, [Next]_vars, ~Crash, NEW c
    PROVE  Escrow(c, disk'.rows, Stranded(actors)') = Escrow(c, disk.rows, Stranded(actors))
<1>1. \A i \in Stranded(actors) : disk'.rows[i].buyer = disk.rows[i].buyer
                                  /\ disk'.rows[i].part = disk.rows[i].part
  BY StrandedStays
<1> HIDE DEF Stranded
<1>2. Escrow(c, disk'.rows, Stranded(actors)) = Escrow(c, disk.rows, Stranded(actors))
  BY <1>1, EscrowSame
<1> QED BY <1>2, StrandedStays

\* A row that a delivery closes before its goods are saved is lost to a crash, with
\* what it held and nothing else.
LEMMA DeliveredRow ==
    ASSUME BooksInv, HandInv, NEW i \in ReadyIn(disk.rows),
           disk'.rows = Closed(disk.rows, {i}, "delivered"), disk'.actors = disk.actors, NEW c
    PROVE  Escrow(c, disk'.rows, ReadyIn(disk'.rows)) + Escrow(c, disk'.rows, Stranded(disk.actors)')
             = Escrow(c, disk.rows, ReadyIn(disk.rows)) + Escrow(c, disk.rows, Stranded(disk.actors))
<1> DEFINE R == ReadyIn(disk.rows)
           G == Stranded(disk.actors)
           H == Stranded(disk.actors)'
<1>1. IsBook(disk.rows, Row) /\ i \in Ids /\ R \in SUBSET Ids /\ G \in SUBSET Ids
  BY ReadyIds DEF BooksInv, OrdersTypeOK, IsBook, Stranded
<1>2. /\ DOMAIN disk'.rows = DOMAIN disk.rows
      /\ disk'.rows[i].state = "delivered" /\ disk'.rows[i].kind = disk.rows[i].kind
      /\ \A j \in DOMAIN disk.rows : j # i => disk'.rows[j] = disk.rows[j]
  BY <1>1, ClosedStates DEF ReadyIn
<1>3. /\ i \in DOMAIN disk.rows /\ disk.rows[i].state = "ready" /\ disk.rows[i].kind # "meal"
      /\ i \notin disk.actors.handed
  BY <1>1 DEF ReadyIn, IsBook, Row, Order, HandInv, HandedKnown
<1>4. H = G \cup {i} /\ i \notin G
  BY <1>2, <1>3 DEF Stranded
<1>5. Escrow(c, disk'.rows, ReadyIn(disk'.rows)) = Escrow(c, disk.rows, R \ {i})
  BY <1>1, EscrowClosed
<1>6. \A j \in DOMAIN disk.rows : /\ disk'.rows[j].buyer = disk.rows[j].buyer
                                  /\ disk'.rows[j].part = disk.rows[j].part
  BY <1>1, ClosedStates
<1>7. H \subseteq DOMAIN disk.rows /\ H \in SUBSET Ids
  BY <1>1, <1>2 DEF Stranded
<1> HIDE DEF R, G, H
<1>8. Escrow(c, disk'.rows, H) = Escrow(c, disk.rows, H)
  BY <1>6, <1>7, EscrowSame
<1>9. Escrow(c, disk.rows, H) = Escrow(c, disk.rows, {i}) + Escrow(c, disk.rows, G)
  <2>1. {i} \in SUBSET H /\ H \ {i} = G
    BY <1>4
  <2> QED BY <1>7, <2>1, EscrowSplit
<1>10. Escrow(c, disk.rows, R) = Escrow(c, disk.rows, {i}) + Escrow(c, disk.rows, R \ {i})
  <2>1. {i} \in SUBSET R
    BY DEF R
  <2> QED BY <1>1, <2>1, EscrowSplit
<1>11. /\ Escrow(c, disk.rows, {i}) \in Nat /\ Escrow(c, disk.rows, R \ {i}) \in Nat
       /\ Escrow(c, disk.rows, G) \in Nat
  <2>1. {i} \in SUBSET Ids /\ R \ {i} \in SUBSET Ids
    BY <1>1
  <2> QED BY <1>1, <2>1, EscrowType
<1>12. Escrow(c, disk'.rows, ReadyIn(disk'.rows)) + Escrow(c, disk'.rows, H)
         = Escrow(c, disk.rows, R) + Escrow(c, disk.rows, G)
  BY <1>5, <1>8, <1>9, <1>10, <1>11
<1> QED BY <1>12 DEF R, G, H

\* A meal's row is neither owed nor lost.
LEMMA MealRow ==
    ASSUME BooksInv, HandInv, NEW i \in open, NEW b \in Buyers, EatHere(i, b), ~SameDisk, NEW c
    PROVE  /\ Escrow(c, disk'.rows, ReadyIn(disk'.rows)) = Escrow(c, disk.rows, ReadyIn(disk.rows))
           /\ Escrow(c, disk'.rows, Stranded(disk.actors)') = Escrow(c, disk.rows, Stranded(disk.actors))
<1>1. disk'.actors = disk.actors /\ disk'.rows[i].kind = "meal" /\ disk'.rows[i].state = "delivered"
  BY EatShape
<1>2. i \notin DOMAIN disk.rows /\ DOMAIN disk'.rows = DOMAIN disk.rows \cup {i}
  BY EatShape DEF Referenced
<1>3. \A j \in DOMAIN disk.rows : disk'.rows[j] = disk.rows[j]
  BY EatShape
<1>4. /\ ReadyIn(disk'.rows) = ReadyIn(disk.rows)
      /\ Stranded(disk.actors)' = Stranded(disk.actors)
  BY <1>1, <1>2, <1>3 DEF ReadyIn, Stranded
<1>5. Escrow(c, disk'.rows, ReadyIn(disk.rows)) = Escrow(c, disk.rows, ReadyIn(disk.rows))
  <2>1. \A j \in ReadyIn(disk.rows) : disk'.rows[j] = disk.rows[j]
    BY <1>3 DEF ReadyIn
  <2> QED BY <2>1, EscrowSame
<1>6. Escrow(c, disk'.rows, Stranded(disk.actors)) = Escrow(c, disk.rows, Stranded(disk.actors))
  <2>1. \A j \in Stranded(disk.actors) : disk'.rows[j] = disk.rows[j]
    BY <1>3 DEF Stranded
  <2> QED BY <2>1, EscrowSame
<1> QED BY <1>4, <1>5, <1>6

\* Outside a commit the database's buyers hold, with what is lost of theirs, what
\* they held.
LEMMA DiskWhole ==
    ASSUME BooksInv, HandInv, [Next]_vars, ~Commit,
           Whole(disk.actors, disk.rows, Stranded(disk.actors))
    PROVE  Whole(disk.actors, disk.rows, Stranded(disk.actors))'
<1>1. ASSUME disk'.actors = disk.actors,
             \A c \in Buyers :
                Escrow(c, disk'.rows, ReadyIn(disk'.rows)) + Escrow(c, disk'.rows, Stranded(disk.actors)')
                  = Escrow(c, disk.rows, ReadyIn(disk.rows)) + Escrow(c, disk.rows, Stranded(disk.actors))
      PROVE  Whole(disk.actors, disk.rows, Stranded(disk.actors))'
  <2> DEFINE G == Stranded(disk.actors)
             H == Stranded(disk.actors)'
  <2>1. /\ IsBook(disk.rows, Row) /\ IsBook(disk'.rows, Row) /\ disk.actors \in ActorState
        /\ G \in SUBSET Ids /\ H \in SUBSET Ids
    <3>1. BooksInv'
      BY BooksStep
    <3> QED BY <3>1 DEF BooksInv, OrdersTypeOK, Stranded, IsBook
  <2> HIDE DEF G, H
  <2>2. ASSUME NEW c \in Buyers
        PROVE  /\ Balance(disk'.actors, disk'.rows, c) + Escrow(c, disk'.rows, H) = Purse
               /\ TillMatches(disk'.actors, c)
    <3>1. /\ Balance(disk.actors, disk.rows, c) + Escrow(c, disk.rows, G) = Purse
          /\ TillMatches(disk.actors, c)
      BY DEF Whole, G
    <3>2. Escrow(c, disk'.rows, ReadyIn(disk'.rows)) + Escrow(c, disk'.rows, H)
            = Escrow(c, disk.rows, ReadyIn(disk.rows)) + Escrow(c, disk.rows, G)
      BY <1>1 DEF G, H
    <3>3. /\ Held(disk.actors, c) \in Int /\ Escrow(c, disk.rows, ReadyIn(disk.rows)) \in Nat
          /\ Escrow(c, disk'.rows, ReadyIn(disk'.rows)) \in Nat
      BY <2>1, BalanceType
    <3>4. Escrow(c, disk.rows, G) \in Nat /\ Escrow(c, disk'.rows, H) \in Nat
      BY <2>1, EscrowType
    <3>5. Balance(disk'.actors, disk'.rows, c) = Held(disk.actors, c) + Escrow(c, disk'.rows, ReadyIn(disk'.rows))
      BY <1>1 DEF Balance
    <3>6. TillMatches(disk'.actors, c)
      BY <1>1, <3>1
    <3>7. Held(disk.actors, c) + Escrow(c, disk.rows, ReadyIn(disk.rows)) + Escrow(c, disk.rows, G) = Purse
      BY <3>1 DEF Balance
    <3> QED BY <3>2, <3>3, <3>4, <3>5, <3>6, <3>7
  <2>3. \A c \in Buyers :
           /\ Balance(disk'.actors, disk'.rows, c) + Escrow(c, disk'.rows, Stranded(disk.actors)') = Purse
           /\ TillMatches(disk'.actors, c)
    BY <2>2 DEF H
  <2> QED BY <2>3 DEF Whole
<1>2. CASE SameDisk
  <2>1. Stranded(disk.actors)' = Stranded(disk.actors)
    BY <1>2 DEF SameDisk, Stranded
  <2> QED BY <1>1, <1>2, <2>1 DEF SameDisk
<1>3. ASSUME ~SameDisk, NEW i \in open, NEW b \in Buyers, EatHere(i, b)
      PROVE  Whole(disk.actors, disk.rows, Stranded(disk.actors))'
  BY <1>1, <1>3, MealRow, EatShape
<1>4. ASSUME ~SameDisk, NEW i \in Ids, Deliver(i)
      PROVE  Whole(disk.actors, disk.rows, Stranded(disk.actors))'
  <2>1. /\ i \in ReadyIn(disk.rows) /\ disk'.rows = Closed(disk.rows, {i}, "delivered")
        /\ disk'.actors = disk.actors
    BY <1>4, DeliverShape DEF SameDisk
  <2> QED BY <1>1, <2>1, DeliveredRow
<1>5. SameDisk \/ (\E i \in open, b \in Buyers : EatHere(i, b)) \/ \E i \in Ids : Deliver(i)
  <2>1. CASE Sale
    BY <2>1, SaleActions, HandMint DEF BooksInv
  <2>2. CASE Sweep \/ \E i \in Ids : DeliverLate(i)
    BY <2>2, ExpireSteps, HandExpire
  <2>3. CASE Offer \/ Forge \/ SaveFails \/ UNCHANGED vars \/ \E i \in Ids : Grow(i)
    BY <2>3, OtherSteps
  <2>4. CASE BuildSnapshot \/ Crash \/ Restart
    BY <2>4 DEF BuildSnapshot, Crash, Restart, SameDisk
  <2> QED BY <2>1, <2>2, <2>3, <2>4 DEF Next
<1> QED BY <1>2, <1>3, <1>4, <1>5

\* A commit leaves a crash to lose what the running engine has lost already.
LEMMA CommitWhole ==
    ASSUME BooksInv, HandInv, LossInv, Commit
    PROVE  Whole(disk.actors, disk.rows, Stranded(disk.actors))'
<1>1. shot # NoShot /\ ShotHanded /\ Whole(shot.actors, shot.orders, Stranded(actors))
  BY DEF Commit, HandInv, LossInv
<1>2. [Next]_vars /\ ~Crash
  BY DEF Next, Commit, Crash
<1>3. disk'.actors = shot.actors
  BY CommitRows
<1>4. Stranded(disk.actors)' = Stranded(actors)'
  <2>1. \A i \in DOMAIN disk'.rows :
           disk'.rows[i].state = "delivered" => (i \in shot.actors.handed <=> i \in actors.handed)
    <3> SUFFICES ASSUME NEW i \in DOMAIN disk'.rows, disk'.rows[i].state = "delivered"
                 PROVE  i \in shot.actors.handed <=> i \in actors.handed
      OBVIOUS
    <3>1. CASE i \in DOMAIN shot.orders
      BY <1>1, <3>1, CommitRows DEF ShotHanded
    <3>2. CASE i \notin DOMAIN shot.orders
      BY <1>1, <3>2, CommitRows DEF ShotHanded
    <3> QED BY <3>1, <3>2
  <2> QED BY <1>3, <2>1, CommitRows DEF Stranded
<1>5. ASSUME NEW c \in Buyers
      PROVE  /\ Balance(disk'.actors, disk'.rows, c) + Escrow(c, disk'.rows, Stranded(disk.actors)') = Purse
             /\ TillMatches(disk'.actors, c)
  <2>1. /\ Balance(shot.actors, shot.orders, c) + Escrow(c, disk.rows, Stranded(actors)) = Purse
        /\ TillMatches(shot.actors, c)
    BY <1>1 DEF Whole
  <2>2. Balance(disk'.actors, disk'.rows, c) = Balance(shot.actors, shot.orders, c)
    BY CommitBalances
  <2>3. Escrow(c, disk'.rows, Stranded(actors)') = Escrow(c, disk.rows, Stranded(actors))
    BY <1>2, StrandedEscrow
  <2> QED BY <1>3, <1>4, <2>1, <2>2, <2>3
<1> QED BY <1>5 DEF Whole

LEMMA LossStep == BooksInv /\ HandInv /\ LossInv /\ [Next]_vars => LossInv'
<1> SUFFICES ASSUME BooksInv, HandInv, LossInv, [Next]_vars PROVE LossInv'
  OBVIOUS
<1>1. Whole(disk.actors, disk.rows, Stranded(disk.actors))'
  BY CommitWhole, DiskWhole DEF LossInv
<1>2. CASE Crash
  <2>1. up' = FALSE /\ shot' = NoShot /\ crashes' # 0
    BY <1>2 DEF Crash, BooksInv, OrdersTypeOK
  <2> QED BY <1>1, <2>1 DEF LossInv
<1>3. CASE ~Crash
  <2> DEFINE G == Stranded(actors)
             H == Stranded(actors)'
  <2>1. H = G /\ \A c : Escrow(c, disk'.rows, H) = Escrow(c, disk.rows, G)
    BY <1>3, StrandedStays, StrandedEscrow
  <2>2. crashes' = crashes
    BY <1>3 DEF Next, vars, Offer, Sale, Commission, Book, TakeHome, Lodge, EatHere, Accept, Forge,
                Deliver, DeliverLate, Grow, Sweep, Expire, BuildSnapshot, Commit, SaveFails, Restart
  <2>3. up' => Whole(actors, orders, G)'
    <3>1. CASE up /\ up'
      <4>1. Whole(actors, orders, G)
        BY <3>1 DEF LossInv
      <4> HIDE DEF G, H
      <4>2. ASSUME NEW c \in Buyers
            PROVE  /\ Balance(actors', orders', c) + Escrow(c, disk'.rows, H) = Purse
                   /\ TillMatches(actors', c)
        BY <2>1, <3>1, <4>1, MemoryStep DEF Whole, SameMemory
      <4> QED BY <4>2 DEF Whole, G, H
    <3>2. CASE Restart
      <4>1. /\ Whole(disk.actors, disk.rows, Stranded(disk.actors)) /\ actors = disk.actors
        BY <3>2, HandRestart DEF LossInv
      <4>2. ASSUME NEW c \in Buyers
            PROVE  /\ Balance(actors', orders', c) + Escrow(c, disk'.rows, H) = Purse
                   /\ TillMatches(actors', c)
        <5>1. /\ Balance(disk.actors, disk.rows, c) + Escrow(c, disk.rows, G) = Purse
              /\ TillMatches(disk.actors, c)
          BY <4>1 DEF Whole
        <5> HIDE DEF G, H
        <5> QED BY <2>1, <3>2, <5>1, RestartBalances
      <4> QED BY <4>2 DEF Whole
    <3>3. ~up /\ ~Restart => ~up'
      BY DownKeeps
    <3> QED BY <3>1, <3>2, <3>3 DEF BooksInv, OrdersTypeOK
  <2>4. shot' # NoShot => Whole(shot.actors, shot.orders, G)'
    <3>1. CASE shot' = shot
      <4>1. shot # NoShot => Whole(shot.actors, shot.orders, G)
        BY DEF LossInv
      <4> HIDE DEF G, H
      <4>2. ASSUME shot # NoShot, NEW c \in Buyers
            PROVE  /\ Balance(shot'.actors, shot'.orders, c) + Escrow(c, disk'.rows, H) = Purse
                   /\ TillMatches(shot'.actors, c)
        BY <2>1, <3>1, <4>1, <4>2 DEF Whole
      <4> QED BY <3>1, <4>2 DEF Whole, G, H
    <3>2. CASE BuildSnapshot
      <4>1. /\ shot'.actors = actors' /\ shot'.orders = orders' /\ up'
        BY <3>2 DEF BuildSnapshot
      <4> QED BY <2>3, <4>1 DEF Whole
    <3>3. shot' = shot \/ shot' = NoShot \/ BuildSnapshot
      BY DEF Next, vars, Offer, Sale, Commission, Book, TakeHome, Lodge, EatHere, Accept, Forge,
             Deliver, DeliverLate, Grow, Sweep, Expire, Commit, SaveFails, Crash, Restart
    <3> QED BY <3>1, <3>2, <3>3
  <2>5. crashes' = 0 => H = {}
    BY <2>1, <2>2 DEF LossInv
  <2> QED BY <1>1, <2>3, <2>4, <2>5 DEF LossInv
<1> QED BY <1>2, <1>3

LEMMA WholeAccounts ==
    ASSUME NEW acts \in ActorState, NEW book, NEW R, IsBook(book, R), IsBook(disk.rows, Row),
           NEW gone \in SUBSET Ids, Whole(acts, book, gone)
    PROVE  Accounts(acts, book, gone)
<1> SUFFICES ASSUME NEW b \in Buyers
             PROVE  /\ Worth(acts, book, b) + Escrow(b, disk.rows, gone) = Purse - Deposit * acts.lost[b]
                    /\ acts.till[b] = Purse - acts.coins[b]
  BY DEF Accounts
<1>1. Balance(acts, book, b) + Escrow(b, disk.rows, gone) = Purse /\ TillMatches(acts, b)
  BY DEF Whole
<1>2. /\ Worth(acts, book, b) = Balance(acts, book, b) - Deposit * acts.lost[b]
      /\ Balance(acts, book, b) \in Int /\ Worth(acts, book, b) \in Int
  BY BalanceWorth, BalanceType
<1>3. Deposit * acts.lost[b] \in Nat /\ Escrow(b, disk.rows, gone) \in Nat
  BY ActorFields, EscrowType
<1> QED BY <1>1, <1>2, <1>3 DEF TillMatches

\* Whatever is sold, delivered, refunded, saved or lost, a crash loses what was paid
\* for the deliveries that were durable before their goods, and nothing else.
THEOREM OrdersLossesKnown == Spec => []LossesKnown
<1>1. BooksInv /\ LossInv => LossesKnown
  <2> SUFFICES ASSUME BooksInv, LossInv PROVE LossesKnown
    OBVIOUS
  <2>1. /\ actors \in ActorState /\ IsBook(orders, Order)
        /\ disk.actors \in ActorState /\ IsBook(disk.rows, Row)
    BY DEF BooksInv, OrdersTypeOK
  <2>2. Stranded(actors) \in SUBSET Ids /\ Stranded(disk.actors) \in SUBSET Ids
    BY <2>1 DEF Stranded, IsBook
  <2> HIDE DEF Stranded
  <2> QED BY <2>1, <2>2, WholeAccounts DEF LossInv, LossesKnown
<1>2. Spec => [](BooksInv /\ HandInv /\ LossInv)
  BY BooksInit, BooksStep, HandInit, HandStep, LossInit, LossStep, PTL DEF Spec
<1> QED BY <1>1, <1>2, PTL

----------------------------------------------------------------------------
(* Goods kept for the orders they cover *)

ReadyGoods(book) == {i \in ReadyIn(book) : book[i].kind = "goods"}

\* Ready commissions are finitely many, and a delivery is one of them less.
LEMMA ReadyGoodsType ==
    ASSUME NEW book, IsBook(book, Order)
    PROVE  Cardinality(ReadyGoods(book)) \in Nat
<1> DEFINE G == ReadyGoods(book)
<1>1. G \in SUBSET Ids
  BY DEF IsBook, ReadyIn, ReadyGoods
<1> HIDE DEF G
<1>2. Cardinality(G) \in Nat
  BY <1>1, IdsFinite
<1> QED BY <1>2 DEF G

LEMMA DeliverOutstanding ==
    ASSUME OrdersTypeOK, NEW i \in ReadyIn(orders), orders[i].kind = "goods",
           orders' = Without(orders, {i}) \/ orders' = Closed(orders, {i}, "delivered")
    PROVE  Outstanding' = Outstanding - 1
<1> DEFINE G == {j \in ReadyIn(orders) : orders[j].kind = "goods"}
<1>1. IsFiniteSet(G) /\ i \in G
  <2>1. G \subseteq Ids
    BY DEF OrdersTypeOK, IsBook, ReadyIn
  <2> QED BY <2>1, IdsFinite
<1>2. {j \in ReadyIn(orders') : orders'[j].kind = "goods"} = G \ {i}
  <2>1. \A j \in DOMAIN orders : orders[j] \in Order
    BY DEF OrdersTypeOK, IsBook
  <2>2. CASE orders' = Without(orders, {i})
    BY <2>2 DEF Without, ReadyIn
  <2>3. CASE orders' = Closed(orders, {i}, "delivered")
    BY <2>1, <2>3 DEF Closed, ReadyIn, Order
  <2> QED BY <2>2, <2>3
<1>3. Cardinality(G \ {i}) = Cardinality(G) - 1
  BY <1>1, FS_RemoveElement
<1> QED BY <1>2, <1>3 DEF Outstanding

\* Stock leaves the seller for an order that was ready, or when more is there than
\* the ready orders need.
LEMMA CoveredStep ==
    ASSUME OrdersTypeOK, OrdersTypeOK', [Next]_vars, up, up',
           Outstanding <= actors.stock, Outstanding' <= Outstanding
    PROVE  Outstanding' <= actors'.stock
<1>1. Outstanding \in Nat /\ Outstanding' \in Nat /\ actors.stock \in Int /\ actors'.stock \in Int
  <2>1. IsBook(orders, Order) /\ IsBook(orders', Order)
    BY DEF OrdersTypeOK
  <2>2. Outstanding = Cardinality(ReadyGoods(orders)) /\ Outstanding' = Cardinality(ReadyGoods(orders'))
    BY DEF Outstanding, ReadyGoods
  <2>3. Cardinality(ReadyGoods(orders)) \in Nat /\ Cardinality(ReadyGoods(orders')) \in Nat
    BY <2>1, ReadyGoodsType
  <2> QED BY <2>2, <2>3 DEF OrdersTypeOK, ActorState
<1>2. CASE actors'.stock >= actors.stock
  BY <1>1, <1>2
<1>3. ASSUME ~Short, actors'.stock = actors.stock - 1 PROVE Outstanding' <= actors'.stock
  BY <1>1, <1>3 DEF Short
<1>4. ASSUME NEW i \in Ids, Deliver(i) PROVE Outstanding' <= actors'.stock
  <2>1. CASE orders[i].kind = "goods"
    <3>1. i \in ReadyIn(orders) /\ actors'.stock = actors.stock - 1
      BY <1>4, <2>1 DEF Deliver, Charged
    <3>2. orders' = Without(orders, {i}) \/ orders' = Closed(orders, {i}, "delivered")
      BY <1>4 DEF Deliver, WriteTerminal
    <3> QED BY <1>1, <2>1, <3>1, <3>2, DeliverOutstanding
  <2>2. CASE orders[i].kind # "goods"
    <3>1. actors'.stock = actors.stock
      BY <1>1, <1>4, <2>2 DEF Deliver, Charged
    <3> QED BY <1>1, <1>2, <3>1
  <2> QED BY <2>1, <2>2
<1>5. ASSUME NEW i \in open, NEW b \in Buyers, TakeHome(i, b) \/ EatHere(i, b)
      PROVE  Outstanding' <= actors'.stock
  <2>1. ~Short /\ \E done : actors' = Charged(actors, b, Price, 1, 1, done)
    BY <1>5 DEF TakeHome, EatHere
  <2>2. actors'.stock = actors.stock - 1
    BY <2>1 DEF Charged
  <2> QED BY <1>3, <2>1, <2>2
<1>6. ASSUME NEW i \in open, NEW b \in Buyers, NEW part \in BOOLEAN,
             Commission(i, b, part) \/ Book(i, b) \/ Lodge(i, b)
      PROVE  actors'.stock = actors.stock
  <2>1. CASE Commission(i, b, part)
    BY <1>1, <2>1 DEF Commission, Charged
  <2>2. CASE Book(i, b)
    BY <1>1, <2>2 DEF Book, Charged
  <2>3. CASE Lodge(i, b)
    BY <1>1, <2>3 DEF Lodge, Charged
  <2> QED BY <1>6, <2>1, <2>2, <2>3
<1>7. CASE Sale
  BY <1>1, <1>2, <1>5, <1>6, <1>7 DEF Sale
<1>8. CASE Forge
  BY <1>1, <1>2, <1>8 DEF Forge, OrdersTypeOK, ActorState
<1>9. CASE Sweep \/ \E i \in Ids : DeliverLate(i)
  <2>1. PICK I : Expire(I)
    BY <1>9 DEF Sweep, DeliverLate
  <2>2. actors'.stock = actors.stock
    BY <2>1 DEF Expire, Expired
  <2> QED BY <1>1, <1>2, <2>2
<1>10. CASE \/ Offer \/ BuildSnapshot \/ Commit \/ SaveFails \/ UNCHANGED vars
            \/ \E i \in Ids : Grow(i)
  BY <1>1, <1>2, <1>10 DEF Offer, BuildSnapshot, Commit, SaveFails, Grow, vars
<1>11. CASE Crash \/ Restart
  BY <1>11 DEF Crash, Restart
<1> QED BY <1>4, <1>7, <1>8, <1>9, <1>10, <1>11 DEF Next

\* Goods that cover every order ready for collection are not sold to the next buyer.
THEOREM OrdersCoveredStays == Spec => CoveredStays
<1>1. BooksInv /\ BooksInv' /\ [Next]_vars =>
        (up /\ up' /\ Outstanding <= actors.stock /\ Outstanding' <= Outstanding
           => Outstanding' <= actors'.stock)
  BY CoveredStep DEF BooksInv
<1>2. Spec => []BooksInv
  BY BooksInit, BooksStep, PTL DEF Spec
<1> QED BY <1>1, <1>2, PTL DEF Spec, CoveredStays
=============================================================================
