-------------------------- MODULE FileStoreProofs --------------------------
(***************************************************************************)
(* Proofs about the module FileStore: what a session file holds, for any    *)
(* messages, any length of the history and any number of torn writes.       *)
(***************************************************************************)
EXTENDS FileStore, FiniteSetTheorems, TLAPS

Piece == Message \cup {Header, NL, Part}

LEMMA PiecesDiffer ==
  /\ Header # NL /\ Header # Part /\ NL # Part
  /\ Header \notin Message /\ NL \notin Message /\ Part \notin Message
  /\ MaxLen \in Nat
BY FileStoreAssumption DEF FileStoreAssumption, Header, NL, Part

LEMMA HistoryIsSeq ==
  ASSUME NEW h \in History
  PROVE  h \in Seq(Message) /\ Len(h) \in 0 .. MaxLen /\ h # Absent
<1>1. h \in Seq(Message) /\ Len(h) \in 0 .. MaxLen
  BY FileStoreAssumption DEF History, FileStoreAssumption
<1>2. h \in Seq(Message \cup {Header, NL, Part})
  BY <1>1
<1> QED BY <1>1, <1>2, FileStoreAssumption DEF FileStoreAssumption

LEMMA SeqIsHistory ==
  ASSUME NEW h \in Seq(Message), Len(h) <= MaxLen
  PROVE  h \in History
<1>1. Len(h) \in 0 .. MaxLen /\ h \in [1 .. Len(h) -> Message]
  BY PiecesDiffer
<1> QED BY <1>1 DEF History

----------------------------------------------------------------------------
(* Lines *)

\* Message k of msgs is piece 2k - 1 of its lines, and a newline follows.
LEMMA LinesAre ==
  ASSUME NEW msgs \in Seq(Message)
  PROVE  /\ Lines(msgs) \in Seq(Piece)
         /\ Len(Lines(msgs)) = 2 * Len(msgs)
         /\ \A k \in 1 .. 2 * Len(msgs) :
              Lines(msgs)[k] = IF k % 2 = 1 THEN msgs[(k + 1) \div 2] ELSE NL
         /\ \A k \in 1 .. 2 * Len(msgs) : k % 2 = 1 => Lines(msgs)[k] \in Message
<1>1. Len(msgs) \in Nat
  OBVIOUS
<1>2. \A k \in 1 .. 2 * Len(msgs) : k % 2 = 1 => (k + 1) \div 2 \in 1 .. Len(msgs)
  BY <1>1
<1>3. \A k \in 1 .. 2 * Len(msgs) : k % 2 = 1 => msgs[(k + 1) \div 2] \in Message
  BY <1>2
<1>4. \A k \in 1 .. 2 * Len(msgs) : (IF k % 2 = 1 THEN msgs[(k + 1) \div 2] ELSE NL) \in Piece
  BY <1>3 DEF Piece
<1>5. Lines(msgs) \in [1 .. 2 * Len(msgs) -> Piece]
  BY <1>4 DEF Lines
<1>6. Lines(msgs) \in Seq(Piece) /\ Len(Lines(msgs)) = 2 * Len(msgs)
  BY <1>1, <1>5
<1> QED BY <1>3, <1>6 DEF Lines

LEMMA WholeIs ==
  ASSUME NEW msgs \in Seq(Message)
  PROVE  /\ Whole(msgs) \in Seq(Piece)
         /\ Len(Whole(msgs)) = 2 * Len(msgs) + 2
         /\ Whole(msgs)[1] = Header /\ Whole(msgs)[2] = NL
         /\ \A k \in 1 .. 2 * Len(msgs) : Whole(msgs)[k + 2] = Lines(msgs)[k]
<1>1. <<Header, NL>> \in Seq(Piece) /\ Len(<<Header, NL>>) = 2
  BY DEF Piece
<1> DEFINE L == Lines(msgs)
<1>2. L \in Seq(Piece) /\ Len(L) = 2 * Len(msgs) /\ Len(msgs) \in Nat
  BY LinesAre
<1> HIDE DEF L
<1>3. /\ <<Header, NL>> \o L \in Seq(Piece)
      /\ Len(<<Header, NL>> \o L) = 2 * Len(msgs) + 2
      /\ (<<Header, NL>> \o L)[1] = Header
      /\ (<<Header, NL>> \o L)[2] = NL
      /\ \A k \in 1 .. 2 * Len(msgs) : (<<Header, NL>> \o L)[k + 2] = L[k]
  BY <1>1, <1>2
<1> QED BY <1>3 DEF Whole, L

\* What a complete file says.
LEMMA WholeSays ==
  ASSUME NEW msgs \in Seq(Message)
  PROVE  Readable(Whole(msgs)) /\ LoadMsgs(Whole(msgs)) = msgs
<1> DEFINE f == Whole(msgs)
<1>1. /\ f \in Seq(Piece) /\ Len(f) = 2 * Len(msgs) + 2 /\ Len(msgs) \in Nat
      /\ f[1] = Header /\ f[2] = NL
      /\ \A k \in 1 .. 2 * Len(msgs) : f[k + 2] = Lines(msgs)[k]
  BY WholeIs
<1> HIDE DEF f
<1>2. \A k \in 3 .. Len(f) : f[k] = Lines(msgs)[k - 2] /\ k - 2 \in 1 .. 2 * Len(msgs)
  <2> SUFFICES ASSUME NEW k \in 3 .. Len(f)
               PROVE  f[k] = Lines(msgs)[k - 2] /\ k - 2 \in 1 .. 2 * Len(msgs)
      OBVIOUS
  <2>1. k - 2 \in 1 .. 2 * Len(msgs) /\ (k - 2) + 2 = k
    BY <1>1
  <2> QED BY <2>1, <1>1
<1>3. \A k \in 3 .. Len(f) : IF k % 2 = 0 THEN f[k] = NL ELSE f[k] \in Message
  <2> SUFFICES ASSUME NEW k \in 3 .. Len(f)
               PROVE  IF k % 2 = 0 THEN f[k] = NL ELSE f[k] \in Message
      OBVIOUS
  <2>1. (k - 2) % 2 = 1 <=> k % 2 # 0
    OBVIOUS
  <2> QED BY <1>2, <2>1, LinesAre
<1>4. DOMAIN f = 1 .. Len(f) /\ f # << >>
  BY <1>1
<1>5. \A k \in 1 .. Len(msgs) : f[2 * k + 1] = msgs[k]
  <2> SUFFICES ASSUME NEW k \in 1 .. Len(msgs)
               PROVE  f[2 * k + 1] = msgs[k]
      OBVIOUS
  <2>1. 2 * k - 1 \in 1 .. 2 * Len(msgs) /\ (2 * k - 1) % 2 = 1 /\ ((2 * k - 1) + 1) \div 2 = k
    BY <1>1
  <2>2. (2 * k - 1) + 2 = 2 * k + 1
    OBVIOUS
  <2> QED BY <1>1, <2>1, <2>2, LinesAre
<1>6. (Len(f) - 1) \div 2 = Len(msgs)
  BY <1>1
<1>7. LoadMsgs(f) = msgs
  BY <1>5, <1>6 DEF LoadMsgs
<1>8. f # Absent
  BY <1>1, FileStoreAssumption DEF FileStoreAssumption, Piece
<1> QED BY <1>1, <1>3, <1>4, <1>7, <1>8 DEF Readable, f

----------------------------------------------------------------------------
(* Newlines *)

LEMMA Halves ==
  ASSUME NEW n \in Nat, n >= 1
  PROVE  /\ n % 2 \in {0, 1} /\ n \div 2 \in Nat /\ (n - 1) \div 2 \in Nat
         /\ n % 2 = 0 => n = 2 * (n \div 2) /\ n \div 2 # 0 /\ (n - 1) \div 2 = (n \div 2) - 1
         /\ n % 2 = 1 => n = 2 * (n \div 2) + 1 /\ (n - 1) \div 2 = n \div 2
OBVIOUS

Evens(n) == {k \in 1 .. 2 * n : k % 2 = 0}

LEMMA EvensCount ==
  ASSUME NEW n \in Nat
  PROVE  IsFiniteSet(Evens(n)) /\ Cardinality(Evens(n)) = n
<1> DEFINE E == Evens(n)
           G == [j \in 1 .. n |-> 2 * j]
<1> USE DEF Evens
<1>1. G \in Bijection(1 .. n, E)
  <2>1. \A j \in 1 .. n : G[j] \in E
    OBVIOUS
  <2>2. \A i, j \in 1 .. n : G[i] = G[j] => i = j
    OBVIOUS
  <2>3. \A k \in E : \E j \in 1 .. n : G[j] = k
    <3> SUFFICES ASSUME NEW k \in E
                 PROVE  \E j \in 1 .. n : G[j] = k
        OBVIOUS
    <3>1. k \div 2 \in 1 .. n /\ 2 * (k \div 2) = k
      OBVIOUS
    <3> QED BY <3>1
  <2>4. G \in [1 .. n -> E]
    BY <2>1
  <2> QED BY <2>2, <2>3, <2>4 DEF Bijection, Injection, Surjection, IsInjective
<1>2. IsFiniteSet(1 .. n) /\ Cardinality(1 .. n) = n
  BY FS_Interval
<1> HIDE DEF G, E
<1>3. ExistsBijection(1 .. n, E)
  BY <1>1 DEF ExistsBijection
<1>4. IsFiniteSet(E) /\ Cardinality(E) = Cardinality(1 .. n)
  BY <1>2, <1>3, FS_Bijection
<1> QED BY <1>2, <1>4 DEF E

LEMMA EvensBound ==
  ASSUME NEW n \in Nat, NEW S, \A k \in S : k \in 1 .. 2 * n /\ k % 2 = 0
  PROVE  IsFiniteSet(S) /\ Cardinality(S) \in Nat /\ Cardinality(S) <= n
<1>1. IsFiniteSet(Evens(n)) /\ Cardinality(Evens(n)) = n
  BY EvensCount
<1>2. S \subseteq Evens(n)
  BY DEF Evens
<1> QED BY <1>1, <1>2, FS_Subset, FS_CardinalityType

\* A file is finite.
LEMMA NewlinesFinite ==
  ASSUME NEW f \in Seq(Piece)
  PROVE  IsFiniteSet(Newlines(f)) /\ Cardinality(Newlines(f)) \in Nat
<1>1. Newlines(f) \subseteq 1 .. Len(f)
  BY DEF Newlines
<1>2. IsFiniteSet(1 .. Len(f))
  BY FS_Interval
<1> QED BY <1>1, <1>2, FS_Subset, FS_CardinalityType

LEMMA FileIsThere ==
  ASSUME NEW f \in Seq(Piece)
  PROVE  f # Absent
BY FileStoreAssumption DEF FileStoreAssumption, Piece

LEMMA CountIs ==
  ASSUME NEW f \in Seq(Piece)
  PROVE  /\ CountMessages(f) \in Nat
         /\ CountMessages(f) = 0 \/ CountMessages(f) = Cardinality(Newlines(f)) - 1
         /\ Newlines(f) # {} => CountMessages(f) = Cardinality(Newlines(f)) - 1
         /\ CountMessages(f) + 1 >= Cardinality(Newlines(f))
<1>1. f # Absent
  BY FileIsThere
<1>2. IsFiniteSet(Newlines(f)) /\ Cardinality(Newlines(f)) \in Nat
  BY NewlinesFinite
<1>3. Cardinality(Newlines(f)) = 0 <=> Newlines(f) = {}
  BY <1>2, FS_EmptySet
<1> QED BY <1>1, <1>2, <1>3 DEF CountMessages

\* The newlines of a file that loads are its even pieces: Save's count is the
\* number of messages when the last line is ended, and one less when it is not.
LEMMA ReadableCount ==
  ASSUME NEW f \in Seq(Piece), Readable(f)
  PROVE  /\ Len(f) >= 1
         /\ Len(f) % 2 = 0 => CountMessages(f) = (Len(f) - 1) \div 2 /\ Len(f) = 2 * CountMessages(f) + 2
         /\ Len(f) % 2 = 1 => \/ CountMessages(f) = (Len(f) - 1) \div 2 - 1
                              \/ CountMessages(f) = 0 /\ Len(f) = 1
         /\ Cardinality(Newlines(f)) <= (Len(f) - 1) \div 2 + 1
<1> DEFINE n == Len(f) \div 2
           E == Evens(n)
<1>1. Len(f) \in Nat /\ Len(f) >= 1 /\ n \in Nat /\ DOMAIN f = 1 .. Len(f)
  BY DEF Readable
<1>2. \A k \in 1 .. Len(f) : f[k] = NL <=> k % 2 = 0
  BY <1>1, PiecesDiffer DEF Readable
<1>3. Newlines(f) = E
  <2>1. \A k \in 1 .. Len(f) : k % 2 = 0 => k \in 1 .. 2 * n
    BY <1>1
  <2>2. 1 .. 2 * n \subseteq 1 .. Len(f)
    BY <1>1
  <2> QED BY <1>1, <1>2, <2>1, <2>2 DEF Newlines, Evens
<1>4. Cardinality(Newlines(f)) = n
  BY <1>1, <1>3, EvensCount
<1>5. n # 0 => Newlines(f) # {}
  <2>1. n # 0 => 2 \in E
    BY <1>1 DEF Evens
  <2> QED BY <1>3, <2>1
<1> HIDE DEF E
<1>6. CountMessages(f) = 0 \/ CountMessages(f) = n - 1
  BY <1>4, CountIs
<1>7. n # 0 => CountMessages(f) = n - 1
  BY <1>4, <1>5, CountIs
<1>8. CountMessages(f) \in Nat
  BY CountIs
<1>9. CASE Len(f) % 2 = 0
  <2>1. Len(f) = 2 * n /\ n # 0 /\ (Len(f) - 1) \div 2 = n - 1
    BY <1>1, <1>9, Halves
  <2>2. CountMessages(f) = n - 1 /\ n \in Nat
    BY <1>1, <1>7, <2>1
  <2> HIDE DEF n
  <2> QED BY <1>1, <1>4, <1>9, <2>1, <2>2
<1>10. CASE Len(f) % 2 = 1
  <2>1. Len(f) = 2 * n + 1 /\ (Len(f) - 1) \div 2 = n
    BY <1>1, <1>10, Halves
  <2> QED BY <1>1, <1>4, <1>6, <1>7, <1>8, <1>10, <2>1
<1>11. Len(f) % 2 \in {0, 1}
  BY <1>1
<1> QED BY <1>9, <1>10, <1>11

\* Appending adds at most the newlines of what is appended.
LEMMA NewlinesGrow ==
  ASSUME NEW f \in Seq(Piece), NEW p \in Seq(Piece)
  PROVE  Cardinality(Newlines(f \o p)) <= Cardinality(Newlines(f)) + Cardinality(Newlines(p))
<1> DEFINE n == Len(f)
           S == {k \in 1 .. Len(p) : p[k] = NL}
           T == {k \in (n + 1) .. (n + Len(p)) : p[k - n] = NL}
           G == [k \in S |-> n + k]
<1>1. n \in Nat /\ Len(p) \in Nat
  OBVIOUS
<1>2. /\ f \o p \in Seq(Piece) /\ Len(f \o p) = n + Len(p)
      /\ \A k \in 1 .. n : (f \o p)[k] = f[k]
      /\ \A k \in (n + 1) .. (n + Len(p)) : (f \o p)[k] = p[k - n]
  OBVIOUS
<1>3. Newlines(f \o p) \subseteq Newlines(f) \cup T
  <2> SUFFICES ASSUME NEW k \in Newlines(f \o p)
               PROVE  k \in Newlines(f) \cup T
      OBVIOUS
  <2>1. k \in 1 .. n + Len(p) /\ (f \o p)[k] = NL
    BY <1>2 DEF Newlines
  <2>2. CASE k <= n
    BY <1>1, <1>2, <2>1, <2>2 DEF Newlines
  <2>3. CASE k > n
    BY <1>1, <1>2, <2>1, <2>3
  <2> QED BY <1>1, <2>1, <2>2, <2>3
<1>4. S = Newlines(p)
  BY DEF Newlines
<1>5. IsFiniteSet(S) /\ Cardinality(S) \in Nat /\ IsFiniteSet(Newlines(f)) /\ Cardinality(Newlines(f)) \in Nat
  BY <1>4, NewlinesFinite
<1>6. G \in Surjection(S, T)
  <2>1. \A k \in S : G[k] \in T
    BY <1>1
  <2>2. \A j \in T : j - n \in S /\ G[j - n] = j
    BY <1>1
  <2>3. G \in [S -> T]
    BY <2>1
  <2> HIDE DEF G, S, T
  <2> QED BY <2>2, <2>3 DEF Surjection
<1>7. IsFiniteSet(T) /\ Cardinality(T) \in Nat /\ Cardinality(T) <= Cardinality(S)
  BY <1>5, <1>6, FS_Surjection, FS_CardinalityType
<1> HIDE DEF S, T, G
<1>8. IsFiniteSet(Newlines(f) \cup T) /\ Cardinality(Newlines(f) \cup T) <= Cardinality(Newlines(f)) + Cardinality(T)
  <2>1. IsFiniteSet(Newlines(f) \cup T)
    BY <1>5, <1>7, FS_Union
  <2>2. Cardinality(Newlines(f) \cup T) = Cardinality(Newlines(f)) + Cardinality(T) - Cardinality(Newlines(f) \cap T)
    BY <1>5, <1>7, FS_Union
  <2>3. Cardinality(Newlines(f) \cap T) \in Nat
    BY <1>5, FS_Intersection, FS_CardinalityType
  <2> QED BY <1>5, <1>7, <2>1, <2>2, <2>3
<1>9. Cardinality(Newlines(f \o p)) <= Cardinality(Newlines(f) \cup T) /\ Cardinality(Newlines(f \o p)) \in Nat
  BY <1>3, <1>8, FS_Subset, FS_CardinalityType
<1>10. Cardinality(Newlines(f) \cup T) \in Nat
  BY <1>8, FS_CardinalityType
<1> QED BY <1>4, <1>5, <1>7, <1>8, <1>9, <1>10

----------------------------------------------------------------------------
(* Whole and torn writes *)

\* p is what a write of data, whole or torn, leaves behind.
TornFrom(p, data) ==
  /\ p \in Seq(Piece)
  /\ Len(p) <= Len(data)
  /\ \A k \in 1 .. Len(p) : p[k] = data[k] \/ p[k] = Part

LEMMA TornIs ==
  ASSUME NEW data \in Seq(Piece), NEW p \in TornPrefixes(data)
  PROVE  TornFrom(p, data)
<1>1. ASSUME NEW k \in 0 .. Len(data) - 1
      PROVE  /\ SubSeq(data, 1, k) \in Seq(Piece) /\ Len(SubSeq(data, 1, k)) = k
             /\ \A j \in 1 .. k : SubSeq(data, 1, k)[j] = data[j]
  BY <1>1
<1>2. CASE \E k \in 0 .. Len(data) - 1 : p = SubSeq(data, 1, k)
  BY <1>1, <1>2 DEF TornFrom
<1>3. CASE \E k \in 0 .. Len(data) - 1 : p = Append(SubSeq(data, 1, k), Part)
  <2>1. PICK k \in 0 .. Len(data) - 1 : p = Append(SubSeq(data, 1, k), Part)
    BY <1>3
  <2> DEFINE s == SubSeq(data, 1, k)
  <2>2. s \in Seq(Piece) /\ Len(s) = k /\ \A j \in 1 .. k : s[j] = data[j]
    BY <1>1
  <2> HIDE DEF s
  <2>3. Part \in Piece
    BY DEF Piece
  <2>4. p = Append(s, Part)
    BY <2>1 DEF s
  <2>5. p \in Seq(Piece) /\ Len(p) = k + 1 /\ p[k + 1] = Part /\ \A j \in 1 .. k : p[j] = s[j]
    BY <2>2, <2>3, <2>4
  <2> QED BY <2>2, <2>5 DEF TornFrom
<1> QED BY <1>2, <1>3 DEF TornPrefixes

LEMMA WholeIsTorn ==
  ASSUME NEW data \in Seq(Piece)
  PROVE  TornFrom(data, data)
BY DEF TornFrom

\* The messages that a Save has to append.
LEMMA RestIs ==
  ASSUME NEW h \in Seq(Message), NEW c \in Nat, c <= Len(h)
  PROVE  LET g == SubSeq(h, c + 1, Len(h))
         IN  /\ g \in Seq(Message) /\ Len(g) = Len(h) - c
             /\ \A k \in 1 .. Len(g) : g[k] = h[c + k]
OBVIOUS

\* Pieces of lines end with a newline at even places only.
LEMMA TornNewlines ==
  ASSUME NEW msgs \in Seq(Message), NEW p, TornFrom(p, Lines(msgs))
  PROVE  Cardinality(Newlines(p)) \in Nat /\ Cardinality(Newlines(p)) <= Len(msgs)
<1>1. \A k \in Newlines(p) : k \in 1 .. 2 * Len(msgs) /\ k % 2 = 0
  <2> SUFFICES ASSUME NEW k \in Newlines(p)
               PROVE  k \in 1 .. 2 * Len(msgs) /\ k % 2 = 0
      OBVIOUS
  <2>1. k \in 1 .. Len(p) /\ p[k] = NL
    BY DEF Newlines, TornFrom
  <2>2. k \in 1 .. 2 * Len(msgs)
    BY <2>1, LinesAre DEF TornFrom
  <2>3. Lines(msgs)[k] = NL
    BY <2>1, PiecesDiffer DEF TornFrom
  <2>4. k % 2 # 1
    BY <2>2, <2>3, LinesAre, PiecesDiffer
  <2>5. k % 2 \in {0, 1}
    BY <2>2
  <2> QED BY <2>2, <2>4, <2>5
<1>2. Len(msgs) \in Nat
  OBVIOUS
<1> QED BY <1>1, <1>2, EvensBound

LEMMA TornWholeNewlines ==
  ASSUME NEW msgs \in Seq(Message), NEW p, TornFrom(p, Whole(msgs))
  PROVE  Cardinality(Newlines(p)) \in Nat /\ Cardinality(Newlines(p)) <= Len(msgs) + 1
<1> DEFINE n == Len(msgs) + 1
<1>1. n \in Nat /\ Len(Whole(msgs)) = 2 * n
  BY WholeIs
<1>2. Readable(Whole(msgs)) /\ DOMAIN Whole(msgs) = 1 .. 2 * n
  BY <1>1, WholeSays, WholeIs
<1>3. \A k \in Newlines(p) : k \in 1 .. 2 * n /\ k % 2 = 0
  <2> SUFFICES ASSUME NEW k \in Newlines(p)
               PROVE  k \in 1 .. 2 * n /\ k % 2 = 0
      OBVIOUS
  <2>1. k \in 1 .. Len(p) /\ p[k] = NL
    BY DEF Newlines, TornFrom
  <2>2. k \in 1 .. 2 * n
    BY <1>1, <2>1 DEF TornFrom
  <2>3. Whole(msgs)[k] = NL
    BY <2>1, PiecesDiffer DEF TornFrom
  <2> HIDE DEF n
  <2> QED BY <1>2, <2>2, <2>3, PiecesDiffer DEF Readable
<1> HIDE DEF n
<1>4. Cardinality(Newlines(p)) \in Nat /\ Cardinality(Newlines(p)) <= n
  BY <1>1, <1>3, EvensBound
<1> QED BY <1>4 DEF n

----------------------------------------------------------------------------
(* What a file says after a write *)

LEMMA LoadsIs ==
  ASSUME NEW f \in Seq(Piece), Readable(f)
  PROVE  /\ LoadMsgs(f) \in Seq(Message)
         /\ Len(LoadMsgs(f)) = (Len(f) - 1) \div 2
         /\ \A k \in 1 .. (Len(f) - 1) \div 2 : LoadMsgs(f)[k] = f[2 * k + 1]
<1> DEFINE n == (Len(f) - 1) \div 2
<1>1. Len(f) \in Nat /\ Len(f) >= 1 /\ DOMAIN f = 1 .. Len(f)
  BY DEF Readable
<1>2. n \in Nat /\ \A k \in 1 .. n : 2 * k + 1 \in 1 .. Len(f) /\ (2 * k + 1) % 2 = 1 /\ 2 * k + 1 # 1
  BY <1>1, Halves
<1>3. \A k \in 1 .. n : f[2 * k + 1] \in Message
  BY <1>1, <1>2 DEF Readable
<1>4. LoadMsgs(f) \in [1 .. n -> Message]
  BY <1>3 DEF LoadMsgs
<1> HIDE DEF n
<1>5. LoadMsgs(f) \in Seq(Message) /\ Len(LoadMsgs(f)) = n
  BY <1>2, <1>4
<1> USE DEF n
<1> QED BY <1>5 DEF LoadMsgs

LEMMA PrefixRefl ==
  ASSUME NEW h \in Seq(Message)
  PROVE  IsPrefix(h, h) /\ IsPrefix(<< >>, h)
BY DEF IsPrefix

LEMMA PrefixTrans ==
  ASSUME NEW a \in Seq(Message), NEW b \in Seq(Message), NEW c \in Seq(Message),
         IsPrefix(a, b), IsPrefix(b, c)
  PROVE  IsPrefix(a, c)
BY DEF IsPrefix

LEMMA PrefixSame ==
  ASSUME NEW a \in Seq(Message), NEW b \in Seq(Message), IsPrefix(a, b), Len(b) <= Len(a)
  PROVE  a = b
<1>1. Len(a) = Len(b) /\ \A k \in 1 .. Len(a) : a[k] = b[k]
  BY DEF IsPrefix
<1> QED BY <1>1

\* No file that loads holds a piece of a line.
LEMMA ReadablePieces ==
  ASSUME NEW f \in Seq(Piece), Readable(f), NEW k \in 1 .. Len(f)
  PROVE  f[k] # Part
BY PiecesDiffer DEF Readable

LEMMA TornWholeLoads ==
  ASSUME NEW h \in Seq(Message), NEW p, TornFrom(p, Whole(h)), Readable(p)
  PROVE  IsPrefix(LoadMsgs(p), h)
<1>1. /\ p \in Seq(Piece) /\ Len(p) >= 1 /\ Len(p) <= Len(Whole(h))
      /\ \A k \in 1 .. Len(p) : p[k] = Whole(h)[k]
  BY ReadablePieces, ReadableCount DEF TornFrom
<1>2. Whole(h) \in Seq(Piece) /\ Readable(Whole(h)) /\ LoadMsgs(Whole(h)) = h
  BY WholeIs, WholeSays
<1> DEFINE n == (Len(p) - 1) \div 2
           w == (Len(Whole(h)) - 1) \div 2
<1>3. n \in Nat /\ w \in Nat /\ n <= w /\ \A k \in 1 .. n : 2 * k + 1 \in 1 .. Len(p)
  BY <1>1, <1>2, Halves
<1>4. /\ LoadMsgs(p) \in Seq(Message) /\ Len(LoadMsgs(p)) = n
      /\ \A k \in 1 .. n : LoadMsgs(p)[k] = p[2 * k + 1]
  BY <1>1, LoadsIs
<1>5. Len(h) = w /\ \A k \in 1 .. w : h[k] = Whole(h)[2 * k + 1]
  BY <1>2, LoadsIs
<1> HIDE DEF n, w
<1> QED BY <1>1, <1>3, <1>4, <1>5 DEF IsPrefix

\* Append mode: when the result loads, the file loaded before, and unless nothing was
\* written its last line was ended, so that the messages on disk are those counted.
LEMMA GrowReads ==
  ASSUME NEW f \in Seq(Piece), NEW h \in Seq(Message), CountMessages(f) <= Len(h),
         NEW p, TornFrom(p, Lines(SubSeq(h, CountMessages(f) + 1, Len(h)))),
         Readable(f \o p)
  PROVE  Readable(f) /\ (p = << >> \/ Len(f) = 2 * CountMessages(f) + 2)
<1> DEFINE c == CountMessages(f)
           g == SubSeq(h, c + 1, Len(h))
<1>1. c \in Nat
  BY CountIs
<1>2. g \in Seq(Message) /\ Len(g) = Len(h) - c
  BY <1>1, RestIs
<1>3. /\ p \in Seq(Piece) /\ Len(p) <= Len(Lines(g))
      /\ \A k \in 1 .. Len(p) : p[k] = Lines(g)[k] \/ p[k] = Part
  BY DEF TornFrom
<1>4. /\ f \o p \in Seq(Piece) /\ Len(f \o p) = Len(f) + Len(p)
      /\ \A k \in 1 .. Len(f) : (f \o p)[k] = f[k]
      /\ \A k \in 1 .. Len(p) : (f \o p)[Len(f) + k] = p[k]
  BY <1>3
<1> HIDE DEF c, g
<1>5. CASE p = << >>
  BY <1>4, <1>5
<1>6. CASE p # << >>
  <2>1. Len(p) >= 1 /\ Len(f) \in Nat /\ Len(f) + 1 \in 1 .. Len(f \o p)
    BY <1>3, <1>4, <1>6
  <2>2. (f \o p)[Len(f) + 1] # Part
    BY <1>4, <2>1, ReadablePieces
  <2>3. (f \o p)[Len(f) + 1] = Lines(g)[1]
    BY <1>3, <1>4, <2>1, <2>2
  <2>4. Lines(g)[1] \in Message
    BY <1>2, <1>3, <2>1, LinesAre
  <2>5. (Len(f) + 1) % 2 # 0 /\ Len(f) + 1 # 1
    BY <1>4, <2>1, <2>3, <2>4, PiecesDiffer DEF Readable
  <2>6. Len(f) % 2 = 0 /\ Len(f) >= 1
    BY <2>1, <2>5
  <2>7. Readable(f)
    <3>1. f # << >> /\ f # Absent /\ DOMAIN f = 1 .. Len(f) /\ 1 .. Len(f) \subseteq DOMAIN (f \o p)
      BY <1>4, <2>1, <2>6, FileIsThere
    <3> QED BY <1>4, <3>1 DEF Readable
  <2> QED BY <2>6, <2>7, ReadableCount DEF c
<1> QED BY <1>5, <1>6

\* Something was appended after the counted messages: the rest of h follows.
LEMMA GrowLoads ==
  ASSUME NEW f \in Seq(Piece), NEW h \in Seq(Message), CountMessages(f) <= Len(h),
         NEW p, TornFrom(p, Lines(SubSeq(h, CountMessages(f) + 1, Len(h)))),
         Readable(f \o p), p # << >>
  PROVE  /\ Len(LoadMsgs(f)) = CountMessages(f)
         /\ LoadMsgs(f \o p) \in Seq(Message)
         /\ Len(LoadMsgs(f \o p)) = CountMessages(f) + (Len(p) + 1) \div 2
         /\ Len(LoadMsgs(f \o p)) <= Len(h)
         /\ \A k \in 1 .. CountMessages(f) : LoadMsgs(f \o p)[k] = LoadMsgs(f)[k]
         /\ \A k \in CountMessages(f) + 1 .. Len(LoadMsgs(f \o p)) : LoadMsgs(f \o p)[k] = h[k]
<1> DEFINE c == CountMessages(f)
           g == SubSeq(h, c + 1, Len(h))
           r == f \o p
           d == (Len(p) + 1) \div 2
<1>1. c \in Nat /\ Readable(f) /\ Len(f) = 2 * c + 2
  BY CountIs, GrowReads
<1>2. g \in Seq(Message) /\ Len(g) = Len(h) - c /\ \A k \in 1 .. Len(g) : g[k] = h[c + k]
  BY <1>1, RestIs
<1>3. /\ p \in Seq(Piece) /\ Len(p) <= Len(Lines(g))
      /\ \A k \in 1 .. Len(p) : p[k] = Lines(g)[k] \/ p[k] = Part
  BY DEF TornFrom
<1>4. /\ r \in Seq(Piece) /\ Len(r) = Len(f) + Len(p) /\ Readable(r)
      /\ \A k \in 1 .. Len(f) : r[k] = f[k]
      /\ \A k \in 1 .. Len(p) : r[Len(f) + k] = p[k]
  BY <1>3
<1> HIDE DEF c, g, r
<1>5. Len(p) \in Nat /\ Len(p) >= 1 /\ Len(h) \in Nat /\ Len(p) <= 2 * (Len(h) - c)
  BY <1>2, <1>3, LinesAre
<1>6. d \in Nat /\ d <= Len(h) - c /\ \A k \in 1 .. d : 2 * k - 1 \in 1 .. Len(p)
  BY <1>1, <1>5
<1>7. (Len(r) - 1) \div 2 = c + d /\ (Len(f) - 1) \div 2 = c
  <2>1. Len(r) - 1 = 2 * c + (Len(p) + 1) /\ Len(f) - 1 = 2 * c + 1
    BY <1>1, <1>4, <1>5
  <2> QED BY <1>1, <1>5, <2>1
<1> HIDE DEF d
<1>8. /\ LoadMsgs(r) \in Seq(Message) /\ Len(LoadMsgs(r)) = c + d
      /\ \A k \in 1 .. c + d : LoadMsgs(r)[k] = r[2 * k + 1]
  BY <1>4, <1>7, LoadsIs
<1>9. Len(LoadMsgs(f)) = c /\ \A k \in 1 .. c : LoadMsgs(f)[k] = f[2 * k + 1]
  BY <1>1, <1>7, LoadsIs
<1>10. \A k \in 1 .. c : LoadMsgs(r)[k] = LoadMsgs(f)[k]
  <2> SUFFICES ASSUME NEW k \in 1 .. c
               PROVE  LoadMsgs(r)[k] = LoadMsgs(f)[k]
      OBVIOUS
  <2>1. k \in 1 .. c + d /\ 2 * k + 1 \in 1 .. Len(f)
    BY <1>1, <1>6
  <2> QED BY <1>4, <1>8, <1>9, <2>1
<1>11. \A k \in c + 1 .. c + d : LoadMsgs(r)[k] = h[k]
  <2> SUFFICES ASSUME NEW k \in c + 1 .. c + d
               PROVE  LoadMsgs(r)[k] = h[k]
      OBVIOUS
  <2> DEFINE i == k - c
             j == 2 * i - 1
  <2>1. i \in 1 .. d /\ j \in 1 .. Len(p) /\ Len(f) + j = 2 * k + 1 /\ k \in 1 .. c + d /\ c + i = k
    BY <1>1, <1>6
  <2>2. j % 2 = 1 /\ (j + 1) \div 2 = i /\ i \in 1 .. Len(g) /\ j \in 1 .. 2 * Len(g)
    BY <1>1, <1>2, <1>5, <1>6, <2>1
  <2> HIDE DEF i, j
  <2>3. LoadMsgs(r)[k] = p[j]
    BY <1>4, <1>8, <2>1
  <2>4. p[j] = Lines(g)[j]
    <3>1. Len(f) + j \in 1 .. Len(r)
      BY <1>1, <1>4, <1>5, <2>1
    <3>2. r[Len(f) + j] # Part
      BY <1>4, <3>1, ReadablePieces
    <3> QED BY <1>3, <1>4, <2>1, <3>2
  <2>5. Lines(g)[j] = g[i]
    BY <1>2, <2>2, LinesAre
  <2> QED BY <1>2, <2>1, <2>2, <2>3, <2>4, <2>5
<1>12. c + d <= Len(h)
  BY <1>1, <1>5, <1>6
<1> QED BY <1>8, <1>9, <1>10, <1>11, <1>12 DEF c, d, r

\* A Save in append mode of a history that continues what the file says.
LEMMA GrowKeeps ==
  ASSUME NEW f \in Seq(Piece), NEW h \in Seq(Message), CountMessages(f) <= Len(h),
         NEW p, TornFrom(p, Lines(SubSeq(h, CountMessages(f) + 1, Len(h)))),
         Readable(f \o p), IsPrefix(LoadMsgs(f), h)
  PROVE  IsPrefix(LoadMsgs(f), LoadMsgs(f \o p)) /\ IsPrefix(LoadMsgs(f \o p), h)
<1>1. Readable(f)
  BY GrowReads
<1>2. LoadMsgs(f) \in Seq(Message)
  BY <1>1, LoadsIs
<1>3. CASE p = << >>
  <2>1. f \o p = f
    BY <1>3
  <2> QED BY <1>2, <2>1, PrefixRefl
<1>4. CASE p # << >>
  <2> DEFINE a == LoadMsgs(f)
             b == LoadMsgs(f \o p)
             c == CountMessages(f)
  <2>1. /\ Len(a) = c /\ b \in Seq(Message) /\ Len(b) = c + (Len(p) + 1) \div 2 /\ Len(b) <= Len(h)
        /\ \A k \in 1 .. c : b[k] = a[k]
        /\ \A k \in c + 1 .. Len(b) : b[k] = h[k]
    BY <1>4, GrowLoads
  <2>2. c \in Nat /\ Len(p) \in Nat
    BY CountIs DEF TornFrom
  <2>3. a \in Seq(Message) /\ IsPrefix(a, h)
    BY <1>2
  <2> HIDE DEF a, b, c
  <2>4. c <= Len(b)
    BY <2>1, <2>2
  <2>5. IsPrefix(a, b)
    BY <2>1, <2>3, <2>4 DEF IsPrefix
  <2>6. \A k \in 1 .. Len(b) : b[k] = h[k]
    <3> SUFFICES ASSUME NEW k \in 1 .. Len(b)
                 PROVE  b[k] = h[k]
        OBVIOUS
    <3>1. CASE k <= c
      BY <2>1, <2>2, <2>3, <3>1 DEF IsPrefix
    <3>2. CASE k > c
      BY <2>1, <2>2, <3>2
    <3> QED BY <2>2, <3>1, <3>2
  <2>7. IsPrefix(b, h)
    BY <2>1, <2>6 DEF IsPrefix
  <2> QED BY <2>5, <2>7 DEF a, b
<1> QED BY <1>3, <1>4

\* The same Save, when its write is complete.
LEMMA GrowCompletes ==
  ASSUME NEW f \in Seq(Piece), NEW h \in Seq(Message), CountMessages(f) <= Len(h),
         Readable(f \o Lines(SubSeq(h, CountMessages(f) + 1, Len(h)))), IsPrefix(LoadMsgs(f), h)
  PROVE  LoadMsgs(f \o Lines(SubSeq(h, CountMessages(f) + 1, Len(h)))) = h
<1> DEFINE c == CountMessages(f)
           g == SubSeq(h, c + 1, Len(h))
           p == Lines(g)
           a == LoadMsgs(f)
           b == LoadMsgs(f \o p)
<1>1. c \in Nat /\ g \in Seq(Message) /\ Len(g) = Len(h) - c /\ Len(h) \in Nat
  BY CountIs, RestIs
<1>2. p \in Seq(Piece) /\ Len(p) = 2 * (Len(h) - c)
  BY <1>1, LinesAre
<1>3. TornFrom(p, p)
  BY <1>2, WholeIsTorn
<1>4. Readable(f) /\ (p = << >> \/ Len(f) = 2 * c + 2)
  BY <1>3, GrowReads
<1>5. a \in Seq(Message) /\ Len(a) = (Len(f) - 1) \div 2 /\ Len(a) <= Len(h)
  BY <1>4, LoadsIs DEF IsPrefix
<1>6. b \in Seq(Message) /\ IsPrefix(b, h)
  <2>1. f \o p \in Seq(Piece) /\ Readable(f \o p)
    BY <1>2
  <2> QED BY <1>3, <2>1, GrowKeeps, LoadsIs
<1>7. CASE p # << >>
  <2>1. Len(b) = c + (Len(p) + 1) \div 2
    BY <1>3, <1>7, GrowLoads
  <2> HIDE DEF p, b, c, g
  <2>2. (Len(p) + 1) \div 2 = Len(h) - c
    BY <1>1, <1>2
  <2>3. Len(h) <= Len(b)
    BY <1>1, <2>1, <2>2
  <2>4. b = h
    BY <1>6, <2>3, PrefixSame
  <2> QED BY <2>4 DEF b, p, c, g
<1>8. CASE p = << >>
  <2>1. f \o p = f /\ Len(p) = 0
    BY <1>8
  <2>2. Len(h) = c
    <3>1. 2 * (Len(h) - c) = 0
      BY <1>2, <2>1
    <3>2. c \in Nat /\ Len(h) \in Nat
      BY <1>1
    <3> HIDE DEF c
    <3> QED BY <3>1, <3>2
  <2>3. Len(h) <= Len(a)
    <3>1. Len(f) % 2 = 0 => c = Len(a)
      BY <1>4, <1>5, ReadableCount
    <3>2. Len(f) % 2 = 1 => c = Len(a) - 1 \/ c = 0
      BY <1>4, <1>5, ReadableCount
    <3>3. Len(f) % 2 \in {0, 1} /\ Len(a) \in Nat
      BY <1>5
    <3> HIDE DEF c, a
    <3> QED BY <1>1, <2>2, <3>1, <3>2, <3>3
  <2>4. IsPrefix(a, h)
    OBVIOUS
  <2> HIDE DEF a
  <2>5. a = h
    BY <1>5, <2>3, <2>4, PrefixSame
  <2> QED BY <2>1, <2>5 DEF a
<1> QED BY <1>7, <1>8

\* Appending whole lines to a file whose last line is ended.
Ended(f) == Readable(f) /\ Len(f) % 2 = 0

LEMMA WholeEnded ==
  ASSUME NEW h \in Seq(Message)
  PROVE  Ended(Whole(h))
<1>1. Len(Whole(h)) = 2 * Len(h) + 2 /\ Len(h) \in Nat
  BY WholeIs
<1> QED BY <1>1, WholeSays DEF Ended

LEMMA GrowEnded ==
  ASSUME NEW f \in Seq(Piece), Ended(f), NEW g \in Seq(Message)
  PROVE  Ended(f \o Lines(g))
<1> DEFINE L == Lines(g)
           r == f \o L
<1>1. /\ L \in Seq(Piece) /\ Len(L) = 2 * Len(g) /\ Len(g) \in Nat
      /\ \A k \in 1 .. Len(L) : IF k % 2 = 0 THEN L[k] = NL ELSE L[k] \in Message
  BY LinesAre
<1>2. Len(f) \in Nat /\ Len(f) >= 1 /\ Len(f) % 2 = 0 /\ DOMAIN f = 1 .. Len(f)
  BY ReadableCount DEF Ended
<1> HIDE DEF L
<1>3. /\ r \in Seq(Piece) /\ Len(r) = Len(f) + Len(L) /\ DOMAIN r = 1 .. Len(r)
      /\ \A k \in 1 .. Len(f) : r[k] = f[k]
      /\ \A k \in Len(f) + 1 .. Len(r) : r[k] = L[k - Len(f)]
  BY <1>1
<1> HIDE DEF r
<1>4. \A k \in Len(f) + 1 .. Len(r) : k # 1 /\ (IF k % 2 = 0 THEN r[k] = NL ELSE r[k] \in Message)
  <2> SUFFICES ASSUME NEW k \in Len(f) + 1 .. Len(r)
               PROVE  k # 1 /\ (IF k % 2 = 0 THEN r[k] = NL ELSE r[k] \in Message)
      OBVIOUS
  <2>1. k - Len(f) \in 1 .. Len(L) /\ k # 1
    BY <1>1, <1>2, <1>3
  <2>2. (k - Len(f)) % 2 = 0 <=> k % 2 = 0
    BY <1>2, <2>1
  <2> QED BY <1>1, <1>3, <2>1, <2>2
<1>5. \A k \in 1 .. Len(f) : IF k = 1 THEN r[k] = Header ELSE IF k % 2 = 0 THEN r[k] = NL ELSE r[k] \in Message
  BY <1>2, <1>3 DEF Ended, Readable
<1>6. Len(r) % 2 = 0 /\ Len(r) \in Nat /\ Len(r) >= 1
  BY <1>1, <1>2, <1>3
<1>7. r # << >> /\ r # Absent
  BY <1>3, <1>6, FileIsThere
<1>8. \A k \in 1 .. Len(r) : IF k = 1 THEN r[k] = Header ELSE IF k % 2 = 0 THEN r[k] = NL ELSE r[k] \in Message
  <2> SUFFICES ASSUME NEW k \in 1 .. Len(r)
               PROVE  IF k = 1 THEN r[k] = Header ELSE IF k % 2 = 0 THEN r[k] = NL ELSE r[k] \in Message
      OBVIOUS
  <2>1. k \in 1 .. Len(f) \/ k \in Len(f) + 1 .. Len(r)
    BY <1>2, <1>6
  <2> QED BY <1>4, <1>5, <2>1
<1>9. Ended(r)
  BY <1>3, <1>6, <1>7, <1>8 DEF Ended, Readable
<1> QED BY <1>9 DEF r, L

LEMMA EndedCount ==
  ASSUME NEW f \in Seq(Piece), Ended(f)
  PROVE  CountMessages(f) = Len(LoadMsgs(f))
BY ReadableCount, LoadsIs DEF Ended

----------------------------------------------------------------------------
(* The inductive invariant *)

\* Where Save is, and what it has seen.
InSave ==
  /\ pc # "idle" => mine # Absent /\ tried = mine
  /\ pc = "write" => file = << >>
  /\ pc = "append" => file # Absent /\ onDisk = CountMessages(file) /\ onDisk <= Len(mine)
  /\ file = Absent => acked = << >>

\* A file that loads never holds more than the longest history.
LoadsShort == Readable(file) => Len(LoadMsgs(file)) <= MaxLen

\* As long as every write was complete.
WholeFile ==
  faults = 0 /\ pc \in {"idle", "append"} /\ file # Absent =>
    /\ Ended(file) /\ LoadMsgs(file) = acked
    /\ pc = "idle" => mine \in {Absent, acked}
    /\ pc = "append" => IsPrefix(acked, mine)

\* As long as the history was only extended.
GrownFile ==
  ~shrunk =>
    /\ pc \in {"truncate", "write"} => acked = << >>
    /\ mine # Absent /\ file # Absent => Cardinality(Newlines(file)) <= Len(mine) + 1
    /\ Readable(file) =>
         /\ IsPrefix(acked, LoadMsgs(file)) /\ IsPrefix(LoadMsgs(file), tried)
         /\ mine # Absent => IsPrefix(LoadMsgs(file), mine)

IInv == TypeOK /\ InSave /\ LoadsShort /\ WholeFile /\ GrownFile

LEMMA EmptyIsHistory == << >> \in History
<1> DEFINE h == << >>
<1>1. h \in Seq(Message) /\ Len(h) = 0
  OBVIOUS
<1> HIDE DEF h
<1>2. Len(h) <= MaxLen
  BY <1>1, PiecesDiffer
<1>3. h \in History
  BY <1>1, <1>2, SeqIsHistory
<1> QED BY <1>3 DEF h

LEMMA InitIInv == Init => IInv
<1> SUFFICES ASSUME Init PROVE IInv
    OBVIOUS
<1>1. ~Readable(file)
  BY DEF Init, Readable
<1>2. 0 \in 0 .. MaxFaults
  BY FileStoreAssumption DEF FileStoreAssumption
<1>3. TypeOK
  <2>1. file = Absent /\ mine \in History \cup {Absent} /\ pc \in {"idle", "truncate", "write", "append"}
    BY DEF Init
  <2>2. onDisk \in Int /\ faults \in 0 .. MaxFaults
    BY <1>2 DEF Init
  <2>3. shrunk \in BOOLEAN
    BY DEF Init
  <2>4. acked \in History /\ tried \in History
    BY EmptyIsHistory DEF Init
  <2> QED BY <2>1, <2>2, <2>3, <2>4 DEF TypeOK
<1>4. InSave /\ LoadsShort /\ WholeFile /\ GrownFile
  BY <1>1 DEF Init, InSave, LoadsShort, WholeFile, GrownFile
<1> QED BY <1>3, <1>4 DEF IInv

\* What the invariant says of the values, in the words of the lemmas above.
LEMMA Values ==
  ASSUME IInv
  PROVE  /\ file # Absent => file \in Seq(Piece)
         /\ mine # Absent => mine \in History /\ mine \in Seq(Message) /\ Len(mine) \in 0 .. MaxLen
         /\ acked \in Seq(Message) /\ tried \in Seq(Message)
         /\ Readable(file) => file # Absent /\ file \in Seq(Piece)
BY HistoryIsSeq DEF IInv, TypeOK, Piece, Readable

LEMMA NewSessionStep ==
  ASSUME IInv, NewSession
  PROVE  IInv'
<1>1. << >> \in History
  BY EmptyIsHistory
<1>2. ~Readable(file)
  BY DEF NewSession, Readable
<1> QED BY <1>1, <1>2 DEF NewSession, IInv, TypeOK, InSave, LoadsShort, WholeFile, GrownFile

LEMMA LoadSessionStep ==
  ASSUME IInv, LoadSession
  PROVE  IInv'
<1> DEFINE h == LoadMsgs(file)
<1>1. file # Absent /\ file \in Seq(Piece) /\ Readable(file)
  BY Values DEF LoadSession
<1>2. h \in Seq(Message) /\ Len(h) <= MaxLen
  BY <1>1, LoadsIs DEF IInv, LoadsShort
<1>3. h \in History /\ h # Absent
  BY <1>2, SeqIsHistory, HistoryIsSeq
<1>4. Cardinality(Newlines(file)) <= Len(h) + 1
  BY <1>1, ReadableCount, LoadsIs
<1>5. IsPrefix(h, h)
  BY <1>2, PrefixRefl
<1>6. /\ pc = "idle" /\ mine' = h
      /\ UNCHANGED <<file, pc, onDisk, acked, tried, shrunk, faults>>
  BY DEF LoadSession
<1>7. TypeOK'
  BY <1>3, <1>6 DEF IInv, TypeOK
<1>8. InSave' /\ LoadsShort'
  BY <1>6 DEF IInv, InSave, LoadsShort
<1>9. WholeFile'
  BY <1>6 DEF IInv, WholeFile
<1>10. GrownFile'
  BY <1>4, <1>5, <1>6 DEF IInv, GrownFile
<1> QED BY <1>7, <1>8, <1>9, <1>10 DEF IInv

\* Save is called with the history h, which is at least as long only when it extends
\* the one before.
LEMMA BeginSaveStep ==
  ASSUME IInv, NEW h \in History, mine # Absent, BeginSave(h),
         Len(h) >= Len(mine) => IsPrefix(mine, h)
  PROVE  IInv'
<1> DEFINE c == CountMessages(file)
<1>1. /\ pc = "idle" /\ mine' = h /\ tried' = h /\ onDisk' = c
      /\ shrunk' = (shrunk \/ Len(h) < Len(mine))
      /\ pc' = IF MustRewrite(c, h) THEN "truncate" ELSE "append"
      /\ UNCHANGED <<file, acked, faults>>
  BY DEF BeginSave
<1>2. /\ h \in Seq(Message) /\ Len(h) \in Nat /\ h # Absent
      /\ mine \in Seq(Message) /\ Len(mine) \in Nat /\ acked \in Seq(Message)
  BY Values, HistoryIsSeq
<1>3. file = Absent => c = -1
  BY DEF CountMessages
<1>4. file # Absent => file \in Seq(Piece) /\ c \in Nat
  BY Values, CountIs
<1> HIDE DEF c
<1>5. pc' \in {"truncate", "append"} /\ (pc' = "append" => c >= 0 /\ c <= Len(h))
  BY <1>1, <1>2, <1>3, <1>4 DEF MustRewrite
<1>6. shrunk' \in BOOLEAN /\ (~shrunk' => ~shrunk /\ Len(h) >= Len(mine))
  <2>1. shrunk \in BOOLEAN
    BY DEF IInv, TypeOK
  <2>2. ~(Len(h) < Len(mine)) => Len(h) >= Len(mine)
    BY <1>2
  <2> QED BY <1>1, <2>1, <2>2, Zenon
<1>7. TypeOK'
  <2>1. onDisk' \in Int
    BY <1>1, <1>3, <1>4
  <2> QED BY <1>1, <1>5, <1>6, <2>1 DEF IInv, TypeOK
<1>8. InSave'
  <2>1. pc' = "append" => file # Absent
    BY <1>3, <1>5
  <2>2. pc' = "append" => onDisk' = CountMessages(file') /\ onDisk' <= Len(mine')
    BY <1>1, <1>5 DEF c
  <2>3. file' = Absent => acked' = << >>
    BY <1>1 DEF IInv, InSave
  <2> QED BY <1>1, <1>2, <1>5, <2>1, <2>2, <2>3 DEF InSave
<1>9. LoadsShort'
  BY <1>1 DEF IInv, LoadsShort
<1>10. WholeFile'
  <2> SUFFICES ASSUME faults = 0, pc' = "append", file # Absent
               PROVE  Ended(file) /\ LoadMsgs(file) = acked /\ IsPrefix(acked, h)
      BY <1>1, <1>5 DEF WholeFile
  <2>1. Ended(file) /\ LoadMsgs(file) = acked /\ mine = acked
    BY <1>1 DEF IInv, WholeFile
  <2>2. c = Len(acked)
    BY <1>4, <2>1, EndedCount DEF c
  <2> QED BY <1>2, <1>5, <2>1, <2>2
<1>11. GrownFile'
  <2> SUFFICES ASSUME ~shrunk'
               PROVE  GrownFile'
      BY DEF GrownFile
  <2>1. ~shrunk /\ IsPrefix(mine, h) /\ Len(h) >= Len(mine)
    BY <1>6
  <2>2. file # Absent => Cardinality(Newlines(file)) <= Len(mine) + 1 /\ Cardinality(Newlines(file)) \in Nat
    BY <1>4, <2>1, NewlinesFinite DEF IInv, GrownFile
  <2>3. file # Absent => c <= Len(mine)
    BY <1>2, <1>4, <2>2, CountIs DEF c
  <2>4. pc' = "truncate" => acked = << >>
    <3>1. CASE file = Absent
      BY <3>1 DEF IInv, InSave
    <3>2. CASE file # Absent
      BY <1>1, <1>2, <1>4, <2>1, <2>3, <3>2 DEF MustRewrite
    <3> QED BY <3>1, <3>2
  <2>5. file # Absent => Cardinality(Newlines(file)) <= Len(h) + 1
    BY <1>2, <2>1, <2>2
  <2>6. Readable(file) => /\ IsPrefix(acked, LoadMsgs(file))
                          /\ IsPrefix(LoadMsgs(file), h)
    <3> SUFFICES ASSUME Readable(file)
                 PROVE  IsPrefix(acked, LoadMsgs(file)) /\ IsPrefix(LoadMsgs(file), h)
        OBVIOUS
    <3>1. IsPrefix(acked, LoadMsgs(file)) /\ IsPrefix(LoadMsgs(file), mine)
      BY <2>1 DEF IInv, GrownFile
    <3>2. LoadMsgs(file) \in Seq(Message)
      BY Values, LoadsIs
    <3> QED BY <1>2, <2>1, <3>1, <3>2, PrefixTrans
  <2> QED BY <1>1, <1>5, <2>4, <2>5, <2>6 DEF GrownFile
<1> QED BY <1>7, <1>8, <1>9, <1>10, <1>11 DEF IInv

LEMMA SaveAgainStep ==
  ASSUME IInv, SaveAgain
  PROVE  IInv'
<1>1. mine # Absent /\ BeginSave(mine)
  BY DEF SaveAgain
<1>2. mine \in History /\ mine \in Seq(Message)
  BY <1>1, Values
<1> QED BY <1>1, <1>2, PrefixRefl, BeginSaveStep

LEMMA SaveMoreStep ==
  ASSUME IInv, SaveMore
  PROVE  IInv'
<1>1. mine # Absent /\ Len(mine) < MaxLen
  BY DEF SaveMore
<1>2. PICK m \in Message : BeginSave(Append(mine, m))
  BY DEF SaveMore
<1> DEFINE h == Append(mine, m)
<1>3. mine \in Seq(Message) /\ Len(mine) \in Nat
  BY <1>1, Values
<1>4. h \in Seq(Message) /\ Len(h) = Len(mine) + 1 /\ \A k \in 1 .. Len(mine) : h[k] = mine[k]
  BY <1>3
<1>5. h \in History
  <2>1. h \in Seq(Message) /\ Len(h) <= MaxLen
    BY <1>1, <1>3, <1>4, PiecesDiffer
  <2> HIDE DEF h
  <2> QED BY <2>1, SeqIsHistory
<1>6. IsPrefix(mine, h)
  BY <1>3, <1>4 DEF IsPrefix
<1> QED BY <1>1, <1>2, <1>5, <1>6, BeginSaveStep

LEMMA SaveShrunkStep ==
  ASSUME IInv, SaveShrunk
  PROVE  IInv'
<1>1. mine # Absent
  BY DEF SaveShrunk
<1>2. PICK h \in History : Len(h) < Len(mine) /\ BeginSave(h)
  BY DEF SaveShrunk
<1>3. Len(h) \in Nat /\ Len(mine) \in Nat
  BY <1>1, Values, HistoryIsSeq
<1> QED BY <1>1, <1>2, <1>3, BeginSaveStep

LEMMA TruncateStep ==
  ASSUME IInv, Truncate
  PROVE  IInv'
<1>1. << >> \in Seq(Piece) /\ ~Readable(<< >>)
  BY DEF Readable
<1>2. << >> # Absent /\ Cardinality(Newlines(<< >>)) = 0
  <2>1. Newlines(<< >>) = {}
    BY DEF Newlines
  <2> QED BY <1>1, <2>1, FileIsThere, FS_EmptySet
<1>3. /\ pc = "truncate" /\ file' = << >> /\ pc' = "write"
      /\ UNCHANGED <<mine, onDisk, acked, tried, shrunk, faults>>
  BY DEF Truncate
<1>4. mine # Absent => Len(mine) \in Nat
  BY Values
<1>5. TypeOK'
  BY <1>1, <1>3 DEF IInv, TypeOK, Piece
<1>6. InSave'
  BY <1>2, <1>3 DEF IInv, InSave
<1>7. LoadsShort' /\ WholeFile'
  BY <1>1, <1>3 DEF LoadsShort, WholeFile
<1>8. GrownFile'
  BY <1>1, <1>2, <1>3, <1>4 DEF IInv, GrownFile
<1> QED BY <1>5, <1>6, <1>7, <1>8 DEF IInv

\* What a write has before it.
LEMMA BeforeWrite ==
  ASSUME IInv, pc \in {"write", "append"}
  PROVE  /\ mine \in Seq(Message) /\ mine \in History /\ Len(mine) \in 0 .. MaxLen
         /\ mine # Absent /\ tried = mine
         /\ file \in Seq(Piece) /\ Pending \in Seq(Piece)
         /\ pc = "write" => file = << >> /\ Pending = Whole(mine)
         /\ pc = "append" => /\ CountMessages(file) \in Nat /\ CountMessages(file) <= Len(mine)
                             /\ SubSeq(mine, CountMessages(file) + 1, Len(mine)) \in Seq(Message)
                             /\ Len(SubSeq(mine, CountMessages(file) + 1, Len(mine))) = Len(mine) - CountMessages(file)
                             /\ Pending = Lines(SubSeq(mine, CountMessages(file) + 1, Len(mine)))
<1>1. mine # Absent /\ tried = mine
  BY DEF IInv, InSave
<1>2. mine \in Seq(Message) /\ mine \in History /\ Len(mine) \in 0 .. MaxLen
  BY <1>1, Values
<1>3. CASE pc = "write"
  <2>1. << >> \in Seq(Piece)
    OBVIOUS
  <2>2. file = << >> /\ Pending = Whole(mine)
    BY <1>3 DEF IInv, InSave, Pending
  <2> QED BY <1>1, <1>2, <1>3, <2>1, <2>2, WholeIs
<1>4. CASE pc = "append"
  <2> DEFINE c == CountMessages(file)
             g == SubSeq(mine, c + 1, Len(mine))
  <2>1. file # Absent /\ onDisk = c /\ c <= Len(mine)
    BY <1>4 DEF IInv, InSave
  <2>2. file \in Seq(Piece) /\ c \in Nat
    BY <2>1, Values, CountIs
  <2>3. g \in Seq(Message) /\ Len(g) = Len(mine) - c
    BY <1>2, <2>1, <2>2, RestIs
  <2>4. Pending = Lines(g)
    BY <1>4, <2>1 DEF Pending
  <2>5. Lines(g) \in Seq(Piece)
    BY <2>3, LinesAre
  <2> QED BY <1>1, <1>2, <1>4, <2>1, <2>2, <2>3, <2>4, <2>5
<1> QED BY <1>3, <1>4

\* What any write, whole or torn, leaves on disk.
LEMMA AfterWrite ==
  ASSUME IInv, pc \in {"write", "append"}, NEW p, TornFrom(p, Pending)
  PROVE  /\ file \o p \in Seq(Piece)
         /\ Cardinality(Newlines(file \o p)) <= Len(mine) + 1
         /\ Readable(file \o p) =>
              /\ Len(LoadMsgs(file \o p)) <= MaxLen
              /\ ~shrunk => IsPrefix(acked, LoadMsgs(file \o p)) /\ IsPrefix(LoadMsgs(file \o p), mine)
<1> DEFINE r == file \o p
<1>1. /\ mine \in Seq(Message) /\ Len(mine) \in 0 .. MaxLen /\ mine # Absent
      /\ file \in Seq(Piece) /\ p \in Seq(Piece) /\ MaxLen \in Nat
  BY BeforeWrite, PiecesDiffer DEF TornFrom
<1>2. r \in Seq(Piece)
  BY <1>1
<1>3. acked \in Seq(Message)
  BY Values
<1>4. CASE pc = "write"
  <2>1. file = << >> /\ TornFrom(p, Whole(mine))
    BY <1>4, BeforeWrite
  <2>2. r = p
    BY <1>1, <2>1
  <2>3. Cardinality(Newlines(p)) <= Len(mine) + 1
    BY <1>1, <2>1, TornWholeNewlines
  <2>4. ASSUME Readable(p)
        PROVE  LoadMsgs(p) \in Seq(Message) /\ IsPrefix(LoadMsgs(p), mine)
    BY <1>1, <2>1, <2>4, TornWholeLoads, LoadsIs
  <2>5. ~shrunk => acked = << >>
    BY <1>4 DEF IInv, GrownFile
  <2>6. Readable(p) => Len(LoadMsgs(p)) <= MaxLen
    BY <1>1, <2>4 DEF IsPrefix
  <2>7. Readable(p) /\ ~shrunk => IsPrefix(acked, LoadMsgs(p))
    BY <2>4, <2>5, PrefixRefl
  <2> HIDE DEF r
  <2> QED BY <1>2, <2>2, <2>3, <2>4, <2>6, <2>7 DEF r
<1>5. CASE pc = "append"
  <2> DEFINE c == CountMessages(file)
             g == SubSeq(mine, c + 1, Len(mine))
  <2>1. /\ c \in Nat /\ c <= Len(mine) /\ g \in Seq(Message) /\ Len(g) = Len(mine) - c
        /\ TornFrom(p, Lines(g))
    BY <1>5, BeforeWrite
  <2>2. Cardinality(Newlines(r)) <= Len(mine) + 1
    <3>1. Cardinality(Newlines(r)) <= Cardinality(Newlines(file)) + Cardinality(Newlines(p))
      BY <1>1, NewlinesGrow
    <3>2. Cardinality(Newlines(p)) \in Nat /\ Cardinality(Newlines(p)) <= Len(mine) - c
      BY <2>1, TornNewlines
    <3>3. Cardinality(Newlines(file)) \in Nat /\ Cardinality(Newlines(file)) <= c + 1
      BY <1>1, CountIs, NewlinesFinite
    <3>4. Cardinality(Newlines(r)) \in Nat
      BY <1>2, NewlinesFinite
    <3> HIDE DEF c, r
    <3> QED BY <1>1, <2>1, <3>1, <3>2, <3>3, <3>4
  <2>3. ASSUME Readable(r)
        PROVE  Len(LoadMsgs(r)) <= MaxLen
    <3>1. CASE p = << >>
      <4>1. r = file
        BY <1>1, <3>1
      <4> HIDE DEF r
      <4> QED BY <2>3, <4>1 DEF IInv, LoadsShort
    <3>2. CASE p # << >>
      <4>1. Len(LoadMsgs(r)) <= Len(mine) /\ LoadMsgs(r) \in Seq(Message)
        BY <1>1, <2>1, <2>3, <3>2, GrowLoads
      <4> QED BY <1>1, <4>1
    <3> QED BY <3>1, <3>2
  <2>4. ASSUME Readable(r), ~shrunk
        PROVE  IsPrefix(acked, LoadMsgs(r)) /\ IsPrefix(LoadMsgs(r), mine)
    <3>1. Readable(file)
      BY <1>1, <2>1, <2>4, GrowReads
    <3>2. IsPrefix(acked, LoadMsgs(file)) /\ IsPrefix(LoadMsgs(file), mine)
      BY <1>1, <2>4, <3>1 DEF IInv, GrownFile
    <3>3. IsPrefix(LoadMsgs(file), LoadMsgs(r)) /\ IsPrefix(LoadMsgs(r), mine)
      BY <1>1, <2>1, <2>4, <3>2, GrowKeeps
    <3>4. LoadMsgs(file) \in Seq(Message) /\ LoadMsgs(r) \in Seq(Message)
      BY <1>1, <1>2, <2>4, <3>1, LoadsIs
    <3> QED BY <1>3, <3>2, <3>3, <3>4, PrefixTrans
  <2> QED BY <1>2, <2>2, <2>3, <2>4
<1> QED BY <1>4, <1>5

LEMMA WriteStep ==
  ASSUME IInv, Write
  PROVE  IInv'
<1> DEFINE r == file \o Pending
<1>1. /\ pc \in {"write", "append"} /\ file' = r /\ acked' = mine /\ pc' = "idle"
      /\ UNCHANGED <<mine, onDisk, tried, shrunk, faults>>
  BY DEF Write
<1>2. /\ mine \in Seq(Message) /\ mine \in History /\ mine # Absent /\ tried = mine
      /\ file \in Seq(Piece) /\ Pending \in Seq(Piece)
  BY <1>1, BeforeWrite
<1>3. /\ r \in Seq(Piece) /\ Cardinality(Newlines(r)) <= Len(mine) + 1
      /\ Readable(r) => Len(LoadMsgs(r)) <= MaxLen
  BY <1>1, <1>2, WholeIsTorn, AfterWrite
<1>4. faults = 0 => Ended(r) /\ LoadMsgs(r) = mine
  <2> SUFFICES ASSUME faults = 0
               PROVE  Ended(r) /\ LoadMsgs(r) = mine
      OBVIOUS
  <2>1. CASE pc = "write"
    <3>1. r = Whole(mine)
      BY <1>2, <2>1, BeforeWrite
    <3> HIDE DEF r
    <3> QED BY <1>2, <3>1, WholeSays, WholeEnded
  <2>2. CASE pc = "append"
    <3>1. file # Absent
      BY <1>2, FileIsThere
    <3>2. Ended(file) /\ LoadMsgs(file) = acked /\ IsPrefix(acked, mine)
      BY <2>2, <3>1 DEF IInv, WholeFile
    <3>3. Ended(r)
      BY <1>2, <2>2, <3>2, BeforeWrite, GrowEnded
    <3>4. Readable(r)
      BY <3>3 DEF Ended
    <3>5. LoadMsgs(r) = mine
      BY <1>2, <2>2, <3>2, <3>4, BeforeWrite, GrowCompletes
    <3> QED BY <3>3, <3>5
  <2> QED BY <1>1, <2>1, <2>2
<1>5. ~shrunk /\ Readable(r) => LoadMsgs(r) = mine
  <2> SUFFICES ASSUME ~shrunk, Readable(r)
               PROVE  LoadMsgs(r) = mine
      OBVIOUS
  <2>1. CASE pc = "write"
    <3>1. r = Whole(mine)
      BY <1>2, <2>1, BeforeWrite
    <3> HIDE DEF r
    <3> QED BY <1>2, <3>1, WholeSays
  <2>2. CASE pc = "append"
    <3>1. Readable(file)
      BY <1>2, <2>2, BeforeWrite, WholeIsTorn, GrowReads
    <3>2. IsPrefix(LoadMsgs(file), mine)
      BY <1>2, <3>1 DEF IInv, GrownFile
    <3> QED BY <1>2, <2>2, <3>2, BeforeWrite, GrowCompletes
  <2> QED BY <1>1, <2>1, <2>2
<1>6. r # Absent /\ IsPrefix(mine, mine)
  BY <1>2, <1>3, FileIsThere, PrefixRefl
<1> HIDE DEF r
<1>7. TypeOK'
  BY <1>1, <1>2, <1>3 DEF IInv, TypeOK, Piece
<1>8. InSave'
  BY <1>1, <1>6 DEF IInv, InSave
<1>9. LoadsShort'
  BY <1>1, <1>3 DEF LoadsShort
<1>10. WholeFile'
  BY <1>1, <1>4 DEF WholeFile
<1>11. GrownFile'
  <2>1. ~shrunk' /\ Readable(r) => LoadMsgs(r) = mine
    BY <1>1, <1>5
  <2> QED BY <1>1, <1>2, <1>3, <1>6, <2>1 DEF GrownFile
<1> QED BY <1>7, <1>8, <1>9, <1>10, <1>11 DEF IInv

LEMMA TornWriteStep ==
  ASSUME IInv, TornWrite
  PROVE  IInv'
<1>1. /\ pc \in {"write", "append"} /\ faults < MaxFaults /\ pc' = "idle" /\ faults' = faults + 1
      /\ UNCHANGED <<mine, onDisk, acked, tried, shrunk>>
  BY DEF TornWrite
<1>2. PICK p \in TornPrefixes(Pending) : file' = file \o p
  BY DEF TornWrite
<1>3. /\ mine # Absent /\ tried = mine
      /\ file \in Seq(Piece) /\ Pending \in Seq(Piece)
  BY <1>1, BeforeWrite
<1> DEFINE r == file \o p
<1>4. /\ r \in Seq(Piece) /\ Cardinality(Newlines(r)) <= Len(mine) + 1
      /\ Readable(r) =>
           /\ Len(LoadMsgs(r)) <= MaxLen
           /\ ~shrunk => IsPrefix(acked, LoadMsgs(r)) /\ IsPrefix(LoadMsgs(r), mine)
  BY <1>1, <1>3, TornIs, AfterWrite
<1>5. file' = r /\ r # Absent
  BY <1>2, <1>4, FileIsThere
<1> HIDE DEF r
<1>6. faults \in Nat /\ faults' \in 0 .. MaxFaults /\ faults' # 0
  BY <1>1, FileStoreAssumption DEF IInv, TypeOK, FileStoreAssumption
<1>7. TypeOK'
  BY <1>1, <1>4, <1>5, <1>6 DEF IInv, TypeOK, Piece
<1>8. InSave'
  BY <1>1, <1>5 DEF IInv, InSave
<1>9. LoadsShort' /\ WholeFile'
  BY <1>4, <1>5, <1>6 DEF LoadsShort, WholeFile
<1>10. GrownFile'
  BY <1>1, <1>3, <1>4, <1>5 DEF GrownFile
<1> QED BY <1>7, <1>8, <1>9, <1>10 DEF IInv

LEMMA CrashStep ==
  ASSUME IInv, Crash
  PROVE  IInv'
<1>1. /\ faults < MaxFaults /\ mine' = Absent /\ pc' = "idle" /\ faults' = faults + 1
      /\ UNCHANGED <<file, onDisk, acked, tried, shrunk>>
  BY DEF Crash
<1>2. faults' \in 0 .. MaxFaults /\ faults' # 0
  BY <1>1, FileStoreAssumption DEF IInv, TypeOK, FileStoreAssumption
<1>3. TypeOK'
  BY <1>1, <1>2 DEF IInv, TypeOK
<1>4. InSave' /\ LoadsShort' /\ WholeFile'
  BY <1>1, <1>2 DEF IInv, InSave, LoadsShort, WholeFile
<1>5. GrownFile'
  BY <1>1 DEF IInv, GrownFile
<1> QED BY <1>3, <1>4, <1>5 DEF IInv

LEMMA DeleteStep ==
  ASSUME IInv, Delete
  PROVE  IInv'
<1>1. /\ pc = "idle" /\ file' = Absent /\ acked' = << >> /\ tried' = << >>
      /\ UNCHANGED <<mine, pc, onDisk, shrunk, faults>>
  BY DEF Delete
<1>2. ~Readable(Absent)
  BY DEF Readable
<1>3. TypeOK'
  BY <1>1, EmptyIsHistory DEF IInv, TypeOK
<1>4. InSave' /\ LoadsShort' /\ WholeFile' /\ GrownFile'
  BY <1>1, <1>2 DEF InSave, LoadsShort, WholeFile, GrownFile
<1> QED BY <1>3, <1>4 DEF IInv

LEMMA StutterStep ==
  ASSUME IInv, UNCHANGED vars
  PROVE  IInv'
BY DEF vars, IInv, TypeOK, InSave, LoadsShort, WholeFile, GrownFile

----------------------------------------------------------------------------
(* Theorems *)

LEMMA Invariance == Spec => []IInv
<1>1. IInv /\ [Next]_vars => IInv'
  <2> SUFFICES ASSUME IInv, [Next]_vars
               PROVE  IInv'
      OBVIOUS
  <2> QED BY NewSessionStep, LoadSessionStep, SaveAgainStep, SaveMoreStep, SaveShrunkStep,
             TruncateStep, WriteStep, TornWriteStep, CrashStep, DeleteStep, StutterStep DEF Next
<1> QED BY InitIInv, <1>1, PTL DEF Spec

\* The values keep their types: what Load puts in memory is a history within the bound
\* too, whatever the writes before it left in the file.
THEOREM FileTypes == Spec => []TypeOK
<1>1. IInv => TypeOK
  BY DEF IInv
<1> QED BY Invariance, <1>1, PTL

\* Save counts newlines only, and still, without torn writes and crashes, Load returns
\* what the last Save was given: for any messages and histories of any length.
THEOREM SavedTheorem == Spec => []SavedLoads
<1>1. IInv => SavedLoads
  BY DEF IInv, WholeFile, Ended, SavedLoads
<1> QED BY Invariance, <1>1, PTL

\* A session that only grows: a file that loads has lost nothing a Save reported as
\* written, after any number of torn writes, crashes and repeated Saves.
THEOREM SilentTheorem == Spec => []NothingLostSilently
<1>1. IInv => NothingLostSilently
  BY DEF IInv, GrownFile, NothingLostSilently
<1> QED BY Invariance, <1>1, PTL
=============================================================================
