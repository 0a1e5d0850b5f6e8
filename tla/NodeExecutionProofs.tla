-------------------------- MODULE NodeExecutionProofs --------------------------
(***************************************************************************)
(* What holds of the nodes of a batch and their agents for every file,     *)
(* every list of blocks and checks, every number of agents at once and     *)
(* every interleaving of them.                                             *)
(***************************************************************************)
EXTENDS NodeExecution, ListTheorems

-------------------------------------------------------------------------------
(***************************************************************************)
(* Dependencies                                                            *)
(***************************************************************************)
\* Ancestors are the least set that holds the dependencies and theirs.
LEMMA AncestorsAreLeast ==
    ASSUME NEW n \in Node, NEW S \in SUBSET Node, Depends[n] \subseteq S,
           \A x \in S : Depends[x] \subseteq S
    PROVE  Ancestors[n] \subseteq S
  BY DEF Ancestors

LEMMA AncestorsAreNodes == \A n \in Node : Ancestors[n] \subseteq Node
  BY DEF Ancestors

LEMMA BlocksAreLists ==
    ASSUME NEW n \in Node
    PROVE  /\ IsList(Blocks[n]) /\ DOMAIN Blocks[n] = 1 .. Len(Blocks[n])
           /\ Len(Blocks[n]) \in Nat
           /\ \A i \in 1 .. Len(Blocks[n]) :
                 IF Blocks[n][i].action = "command"
                 THEN Blocks[n][i].needs \in Nat /\ ~IsFileBlock(n, i)
                 ELSE /\ Blocks[n][i].action \in FileAction /\ Blocks[n][i].target \in File
                      /\ IsFileBlock(n, i)
  <1>1. IsList(Blocks[n])
    BY NodeExecutionAssumption, InList
  <1>2. \A i \in 1 .. Len(Blocks[n]) : Blocks[n][i] \in ToSet(Blocks[n])
    BY <1>1 DEF IsList
  <1>3. "command" \notin FileAction
    BY DEF FileAction
  <1>4. DOMAIN Blocks[n] = 1 .. Len(Blocks[n]) /\ Len(Blocks[n]) \in Nat
    BY <1>1 DEF IsList
  <1>5. ASSUME NEW i \in 1 .. Len(Blocks[n])
        PROVE  IF Blocks[n][i].action = "command"
               THEN Blocks[n][i].needs \in Nat /\ ~IsFileBlock(n, i)
               ELSE /\ Blocks[n][i].action \in FileAction /\ Blocks[n][i].target \in File
                    /\ IsFileBlock(n, i)
    <2>1. IF Blocks[n][i].action = "command" THEN Blocks[n][i].needs \in Nat
          ELSE Blocks[n][i].action \in FileAction /\ Blocks[n][i].target \in File
      BY <1>2, NodeExecutionAssumption
    <2> QED
      BY <1>3, <1>4, <2>1 DEF IsFileBlock
  <1> QED
    BY <1>1, <1>4, <1>5

LEMMA IdOrder ==
    ASSUME NEW S \in SUBSET Node
    PROVE  Lists(InIdOrder(S), S)
  <1>1. S \in SUBSET Nat /\ IsFiniteSet(S)
    BY NodeExecutionAssumption, FS_Subset
  <1> QED
    BY <1>1, NumberedLists DEF InIdOrder, Numbered

-------------------------------------------------------------------------------
(***************************************************************************)
(* Texts                                                                   *)
(***************************************************************************)
\* A piece of text has its node and its block, which are counted from 1: no text
\* is taken for a missing file.
Piece == Node \X (Nat \ {0})
Text == Seq(Piece)

Count(text, piece) == Cardinality(Occurrences(text, piece))

LEMMA PositionsAreFinite ==
    ASSUME NEW text \in Text, NEW q
    PROVE  /\ IsFiniteSet(Occurrences(text, q)) /\ Count(text, q) \in Nat
           /\ Occurrences(text, q) \subseteq 1 .. Len(text)
           /\ Occurrences(text, q) = {i \in 1 .. Len(text) : text[i] = q}
  <1>1. DOMAIN text = 1 .. Len(text) /\ Len(text) \in Nat
    BY InList DEF Text, IsList
  <1>2. Occurrences(text, q) \in SUBSET (1 .. Len(text))
    BY <1>1 DEF Occurrences
  <1>3. IsFiniteSet(1 .. Len(text))
    BY <1>1, FS_Interval
  <1> QED
    BY <1>1, <1>2, <1>3, FS_Subset, FS_CardinalityType DEF Count, Occurrences

LEMMA NothingWritten ==
    ASSUME NEW q \in Piece
    PROVE  /\ Occurrences(NoFile, q) = {} /\ Count(NoFile, q) = 0
           /\ Occurrences(<<>>, q) = {} /\ Count(<<>>, q) = 0
           /\ NoFile \notin Text /\ <<>> \in Text
  <1>1. DOMAIN NoFile = {1} /\ NoFile[1] = <<0, 0>>
    BY DEF NoFile
  <1>2. <<0, 0>> \notin Piece
    BY DEF Piece
  <1>3. Occurrences(NoFile, q) = {}
    BY <1>1, <1>2 DEF Occurrences
  <1>4. Occurrences(<<>>, q) = {}
    BY DEF Occurrences
  <1>5. NoFile \notin Text
    BY <1>1, <1>2, ElementOfSeq, LenProperties DEF Text
  <1> QED
    BY <1>3, <1>4, <1>5, FS_EmptySet, EmptySeq DEF Count, Text

\* A text with a piece put in at a position.
IsPutIn(text, k, p, new) ==
    /\ new \in Text /\ Len(new) = Len(text) + 1
    /\ k \in 1 .. Len(new) /\ new[k] = p
    /\ \A i \in 1 .. k - 1 : new[i] = text[i]
    /\ \A i \in k + 1 .. Len(new) : new[i] = text[i - 1]

LEMMA PutInKeeps ==
    ASSUME NEW text \in Text, NEW k, NEW p \in Piece, NEW new, IsPutIn(text, k, p, new), NEW q
    PROVE  /\ Occurrences(new, p) # {}
           /\ Occurrences(text, q) # {} => Occurrences(new, q) # {}
           /\ Count(new, q) <= Count(text, q) + (IF q = p THEN 1 ELSE 0)
  <1>1. /\ Len(text) \in Nat /\ k \in 1 .. Len(text) + 1 /\ new \in Text
        /\ Len(new) = Len(text) + 1 /\ new[k] = p
        /\ \A i \in 1 .. k - 1 : new[i] = text[i]
        /\ \A i \in k + 1 .. Len(new) : new[i] = text[i - 1]
    BY LenProperties DEF IsPutIn, Text
  <1>2. /\ Occurrences(new, q) = {i \in 1 .. Len(new) : new[i] = q}
        /\ Occurrences(new, p) = {i \in 1 .. Len(new) : new[i] = p}
        /\ Occurrences(text, q) = {i \in 1 .. Len(text) : text[i] = q}
    BY <1>1, PositionsAreFinite
  <1>3. k \in Occurrences(new, p)
    BY <1>1, <1>2
  <1>4. ASSUME NEW i \in Occurrences(text, q)
        PROVE  Occurrences(new, q) # {}
    <2>1. CASE i < k
      <3>1. i \in 1 .. k - 1 /\ i \in 1 .. Len(new)
        BY <1>1, <1>2, <2>1
      <3> QED
        BY <1>1, <1>2, <3>1
    <2>2. CASE ~(i < k)
      <3>1. i + 1 \in k + 1 .. Len(new) /\ i + 1 \in 1 .. Len(new) /\ (i + 1) - 1 = i
        BY <1>1, <1>2, <2>2
      <3>2. new[i + 1] = text[i]
        BY <1>1, <3>1
      <3> QED
        BY <1>2, <3>1, <3>2
    <2> QED
      BY <2>1, <2>2
  <1> DEFINE O == Occurrences(new, q) \ {k}
             f == [i \in O |-> IF i < k THEN i ELSE i - 1]
  <1>5. f \in Injection(O, Occurrences(text, q))
    <2>1. ASSUME NEW i \in O
          PROVE  f[i] \in Occurrences(text, q)
      <3>1. i \in 1 .. Len(new) /\ i # k /\ new[i] = q
        BY <1>2
      <3>2. CASE i < k
        <4>1. i \in 1 .. k - 1 /\ i \in 1 .. Len(text)
          BY <1>1, <3>1, <3>2
        <4>2. text[i] = q
          BY <1>1, <3>1, <4>1
        <4> QED
          BY <1>2, <3>2, <4>1, <4>2
      <3>3. CASE ~(i < k)
        <4>1. i \in k + 1 .. Len(new) /\ i - 1 \in 1 .. Len(text)
          BY <1>1, <3>1, <3>3
        <4>2. text[i - 1] = q
          BY <1>1, <3>1, <4>1
        <4> QED
          BY <1>2, <3>3, <4>1, <4>2
      <3> QED
        BY <3>2, <3>3
    <2>2. ASSUME NEW i \in O, NEW j \in O, f[i] = f[j]
          PROVE  i = j
      <3>1. i \in Nat /\ j \in Nat /\ i # k /\ j # k /\ k \in Nat
        BY <1>1, <1>2
      <3> QED
        BY <2>2, <3>1
    <2> QED
      BY <2>1, <2>2 DEF Injection, IsInjective
  <1>6. /\ IsFiniteSet(Occurrences(text, q)) /\ IsFiniteSet(Occurrences(new, q))
        /\ Count(text, q) \in Nat /\ Count(new, q) \in Nat
    BY <1>1, PositionsAreFinite
  <1> HIDE DEF f
  <1>7. Cardinality(O) <= Count(text, q)
    BY <1>5, <1>6, FS_Injection DEF Count
  <1>8. CASE q = p
    <2>1. k \in Occurrences(new, q)
      BY <1>3, <1>8
    <2>2. Cardinality(O) = Count(new, q) - 1
      BY <1>6, <2>1, FS_RemoveElement DEF Count
    <2>3. Cardinality(O) \in Nat
      BY <1>6, <2>2, FS_RemoveElement, FS_CardinalityType
    <2> QED
      BY <1>3, <1>4, <1>6, <1>7, <1>8, <2>2
  <1>9. CASE q # p
    <2>1. O = Occurrences(new, q)
      BY <1>1, <1>2, <1>9
    <2>2. Count(new, q) <= Count(text, q)
      BY <1>7, <2>1 DEF Count
    <2> QED
      BY <1>3, <1>4, <1>6, <1>9, <2>2
  <1> QED
    BY <1>8, <1>9

LEMMA SmallestOf ==
    ASSUME NEW S \in SUBSET Nat, S # {}
    PROVE  Min(S) \in S
  <1>1. \E x \in S : \A y \in S : x <= y
    BY LeastNumber
  <1> QED
    BY <1>1 DEF Min

LEMMA PuttingIn ==
    ASSUME NEW text \in Text, NEW p \in Piece
    PROVE  /\ IsPutIn(text, Len(text) + 1, p, Append(text, p))
           /\ IsPutIn(text, 1, p, <<p>> \o text)
           /\ \A k \in 1 .. Len(text) + 1 : IsPutIn(text, k, p, InsertAt(text, k, p))
  <1>1. text \in Seq(Piece) /\ Len(text) \in Nat
    BY LenProperties DEF Text
  <1>2. IsPutIn(text, Len(text) + 1, p, Append(text, p))
    <2>1. /\ Append(text, p) \in Seq(Piece) /\ Len(Append(text, p)) = Len(text) + 1
          /\ \A i \in 1 .. Len(text) : Append(text, p)[i] = text[i]
          /\ Append(text, p)[Len(text) + 1] = p
      BY <1>1, AppendProperties
    <2> QED
      BY <1>1, <2>1 DEF IsPutIn, Text
  <1>3. <<p>> \in Seq(Piece) /\ Len(<<p>>) = 1 /\ <<p>>[1] = p
    OBVIOUS
  <1>4. IsPutIn(text, 1, p, <<p>> \o text)
    <2>1. /\ <<p>> \o text \in Seq(Piece) /\ Len(<<p>> \o text) = Len(text) + 1
          /\ \A i \in 1 .. Len(text) + 1 :
                (<<p>> \o text)[i] = IF i <= 1 THEN <<p>>[i] ELSE text[i - 1]
      BY <1>1, <1>3, ConcatProperties
    <2> QED
      BY <1>1, <1>3, <2>1 DEF IsPutIn, Text
  <1>5. ASSUME NEW k \in 1 .. Len(text) + 1
        PROVE  IsPutIn(text, k, p, InsertAt(text, k, p))
    <2> DEFINE a == SubSeq(text, 1, k - 1)
               c == SubSeq(text, k, Len(text))
               new == InsertAt(text, k, p)
    <2>1. /\ a \in Seq(Piece) /\ Len(a) = k - 1
          /\ \A i \in 1 .. k - 1 : a[i] = text[i]
      BY <1>1, SubSeqProperties
    <2>2. /\ c \in Seq(Piece) /\ Len(c) = Len(text) + 1 - k
          /\ \A i \in 1 .. Len(text) + 1 - k : c[i] = text[k + i - 1]
      BY <1>1, SubSeqProperties
    <2> HIDE DEF a, c
    <2>3. /\ a \o <<p>> \in Seq(Piece) /\ Len(a \o <<p>>) = k
          /\ \A i \in 1 .. k : (a \o <<p>>)[i] = IF i < k THEN a[i] ELSE p
      BY <1>1, <1>3, <2>1, ConcatProperties
    <2>4. /\ (a \o <<p>>) \o c \in Seq(Piece) /\ Len((a \o <<p>>) \o c) = Len(text) + 1
          /\ \A i \in 1 .. Len(text) + 1 :
                ((a \o <<p>>) \o c)[i] = IF i <= k THEN (a \o <<p>>)[i] ELSE c[i - k]
      <3> DEFINE b == a \o <<p>>
      <3>0. b \in Seq(Piece) /\ Len(b) = k
        BY <2>3
      <3> HIDE DEF b
      <3>1. b \in Seq(Piece) /\ Len(b) = k /\ k \in Nat /\ Len(b) + Len(c) = Len(text) + 1
        BY <1>1, <2>2, <3>0
      <3>2. /\ b \o c \in Seq(Piece) /\ Len(b \o c) = Len(b) + Len(c)
            /\ \A i \in 1 .. Len(b) + Len(c) :
                  (b \o c)[i] = IF i <= Len(b) THEN b[i] ELSE c[i - Len(b)]
        BY <2>2, <3>1, ConcatProperties
      <3> QED
        BY <3>1, <3>2 DEF b
    <2>5. new = (a \o <<p>>) \o c
      BY DEF InsertAt, a, c
    <2> HIDE DEF new
    <2>6. ASSUME NEW i \in k + 1 .. Len(text) + 1
          PROVE  new[i] = text[i - 1]
      <3>1. i - k \in 1 .. Len(text) + 1 - k /\ k + (i - k) - 1 = i - 1
        BY <1>1
      <3>2. new[i] = c[i - k]
        BY <1>1, <2>4, <2>5
      <3> QED
        BY <2>2, <3>1, <3>2
    <2>7. \A i \in 1 .. k - 1 : new[i] = text[i]
      BY <1>1, <2>1, <2>3, <2>4, <2>5
    <2>8. new[k] = p /\ new \in Text /\ Len(new) = Len(text) + 1
      BY <1>1, <2>3, <2>4, <2>5 DEF Text
    <2> QED
      BY <2>6, <2>7, <2>8 DEF IsPutIn, new
  <1> QED
    BY <1>2, <1>4, <1>5

LEMMA ReplaceKeeps ==
    ASSUME NEW text \in Text, NEW p \in Piece, NEW at, NEW k \in Occurrences(text, at), NEW q
    PROVE  LET new == ReplaceAt(text, k, p)
           IN  /\ new \in Text /\ Occurrences(new, p) # {}
               /\ q # at /\ Occurrences(text, q) # {} => Occurrences(new, q) # {}
               /\ Count(new, q) <= Count(text, q) + (IF q = p THEN 1 ELSE 0)
  <1> DEFINE new == ReplaceAt(text, k, p)
  <1>1. text \in Seq(Piece) /\ Len(text) \in Nat /\ k \in 1 .. Len(text) /\ text[k] = at
    BY PositionsAreFinite, LenProperties DEF Text
  <1>2. /\ new \in Text /\ Len(new) = Len(text) /\ new[k] = p
        /\ \A i \in 1 .. Len(text) : i # k => new[i] = text[i]
    BY <1>1, ExceptSeq DEF ReplaceAt, Text
  <1> HIDE DEF new
  <1>3. /\ Occurrences(new, q) = {i \in 1 .. Len(text) : new[i] = q}
        /\ Occurrences(new, p) = {i \in 1 .. Len(text) : new[i] = p}
        /\ Occurrences(text, q) = {i \in 1 .. Len(text) : text[i] = q}
        /\ IsFiniteSet(Occurrences(text, q)) /\ Count(text, q) \in Nat
        /\ IsFiniteSet(Occurrences(new, q)) /\ Count(new, q) \in Nat
    BY <1>2, PositionsAreFinite
  <1>4. k \in Occurrences(new, p)
    BY <1>1, <1>2, <1>3
  <1>5. ASSUME q # at
        PROVE  Occurrences(text, q) \subseteq Occurrences(new, q)
    BY <1>1, <1>2, <1>3, <1>5
  <1>6. CASE q = p
    <2>1. Occurrences(new, q) \subseteq Occurrences(text, q) \cup {k}
      BY <1>2, <1>3
    <2>2. /\ IsFiniteSet(Occurrences(text, q) \cup {k})
          /\ Cardinality(Occurrences(text, q) \cup {k}) <= Count(text, q) + 1
      <3> DEFINE O == Occurrences(text, q)
      <3>1. IsFiniteSet(O) /\ Cardinality(O) \in Nat
        BY <1>3 DEF Count
      <3> HIDE DEF O
      <3>2. /\ IsFiniteSet(O \cup {k})
            /\ Cardinality(O \cup {k}) = IF k \in O THEN Cardinality(O) ELSE Cardinality(O) + 1
        BY <3>1, FS_AddElement
      <3>3. Cardinality(O \cup {k}) <= Cardinality(O) + 1
        BY <3>1, <3>2
      <3> QED
        BY <3>2, <3>3 DEF O, Count
    <2>3. Count(new, q) <= Cardinality(Occurrences(text, q) \cup {k})
      BY <2>1, <2>2, FS_Subset DEF Count
    <2>4. Cardinality(Occurrences(text, q) \cup {k}) \in Nat
      BY <2>2, FS_CardinalityType
    <2>5. Count(new, q) <= Count(text, q) + 1
      BY <1>3, <2>2, <2>3, <2>4
    <2> QED
      BY <1>2, <1>4, <1>5, <1>6, <2>5 DEF new
  <1>7. CASE q # p
    <2>1. Occurrences(new, q) \subseteq Occurrences(text, q)
      BY <1>2, <1>3, <1>7
    <2>2. Count(new, q) <= Count(text, q)
      BY <1>3, <2>1, FS_Subset DEF Count
    <2> QED
      BY <1>2, <1>3, <1>4, <1>5, <1>7, <2>2 DEF new
  <1> QED
    BY <1>6, <1>7

\* What an edit has seen in its target when it was read.
EditFits(b, text) ==
    /\ b.action = "create" => text = <<>>
    /\ b.action \in {"replace", "insert_before", "insert_after"} => Occurrences(text, b.at) # {}

LEMMA EditKeeps ==
    ASSUME NEW text \in Text, NEW p \in Piece, NEW b, b.action \in FileAction, EditFits(b, text)
    PROVE  LET new == Edited(b, text, p)
           IN  /\ new \in Text /\ Occurrences(new, p) # {}
               /\ \A q : b.action # "full" /\ ~(b.action = "replace" /\ b.at = q)
                          /\ Occurrences(text, q) # {} => Occurrences(new, q) # {}
               /\ \A q : Count(new, q) <= Count(text, q) + (IF q = p THEN 1 ELSE 0)
  <1> DEFINE new == Edited(b, text, p)
  <1>1. CASE \E k : IsPutIn(text, k, p, new)
    <2>1. new \in Text
      BY <1>1 DEF IsPutIn
    <2>2. \A q : /\ Occurrences(new, p) # {}
                 /\ Occurrences(text, q) # {} => Occurrences(new, q) # {}
                 /\ Count(new, q) <= Count(text, q) + (IF q = p THEN 1 ELSE 0)
      BY <1>1, PutInKeeps
    <2> QED
      BY <2>1, <2>2
  <1>2. CASE b.action \in {"create", "full"}
    <2>1. new = <<p>>
      BY <1>2 DEF Edited
    <2>2. /\ <<p>> \in Text /\ DOMAIN <<p>> = {1} /\ <<p>>[1] = p
      BY DEF Text
    <2>3. Occurrences(new, p) = {1}
      BY <2>1, <2>2 DEF Occurrences
    <2>4. \A q : q # p => Occurrences(new, q) = {}
      BY <2>1, <2>2 DEF Occurrences
    <2>5. Cardinality({1}) = 1 /\ Cardinality({}) = 0
      BY FS_Singleton, FS_EmptySet
    <2>6. \A q : Count(text, q) \in Nat
      BY PositionsAreFinite
    <2>7. \A q : Count(new, q) = IF q = p THEN 1 ELSE 0
      BY <2>3, <2>4, <2>5 DEF Count
    <2>8. b.action = "create" => \A q : Occurrences(text, q) = {}
      BY DEF EditFits, Occurrences
    <2> HIDE DEF new
    <2>9. \A q : Count(new, q) <= Count(text, q) + (IF q = p THEN 1 ELSE 0)
      BY <2>6, <2>7
    <2> QED
      BY <1>2, <2>1, <2>2, <2>3, <2>8, <2>9 DEF new
  <1>3. CASE b.action = "append"
    <2>1. new = Append(text, p)
      BY <1>3 DEF Edited
    <2> QED
      BY <1>1, <2>1, PuttingIn
  <1>4. CASE b.action = "prepend"
    <2>1. new = <<p>> \o text
      BY <1>4 DEF Edited
    <2> QED
      BY <1>1, <2>1, PuttingIn
  <1>5. ASSUME b.action \in {"replace", "insert_before", "insert_after"}
        PROVE  LET k == Min(Occurrences(text, b.at))
               IN  /\ k \in Occurrences(text, b.at) /\ k \in 1 .. Len(text)
                   /\ Len(text) \in Nat
    <2>1. Occurrences(text, b.at) # {} /\ Occurrences(text, b.at) \in SUBSET Nat
      BY <1>5, PositionsAreFinite DEF EditFits
    <2> QED
      BY <2>1, SmallestOf, PositionsAreFinite, LenProperties DEF Text
  <1>6. CASE b.action = "replace"
    <2>1. new = ReplaceAt(text, Min(Occurrences(text, b.at)), p)
      BY <1>6 DEF Edited
    <2>2. Min(Occurrences(text, b.at)) \in Occurrences(text, b.at)
      BY <1>5, <1>6
    <2>3. \A q : /\ new \in Text /\ Occurrences(new, p) # {}
                 /\ q # b.at /\ Occurrences(text, q) # {} => Occurrences(new, q) # {}
                 /\ Count(new, q) <= Count(text, q) + (IF q = p THEN 1 ELSE 0)
      BY <2>1, <2>2, ReplaceKeeps
    <2> HIDE DEF new
    <2>4. QED
      BY <1>6, <2>3 DEF new
  <1>7. CASE b.action = "insert_before"
    <2>1. new = InsertAt(text, Min(Occurrences(text, b.at)), p)
      BY <1>7 DEF Edited
    <2>2. Min(Occurrences(text, b.at)) \in 1 .. Len(text) + 1
      BY <1>5, <1>7
    <2> QED
      BY <1>1, <2>1, <2>2, PuttingIn
  <1>8. CASE b.action = "insert_after"
    <2>1. new = InsertAt(text, Min(Occurrences(text, b.at)) + 1, p)
      BY <1>8 DEF Edited
    <2>2. Min(Occurrences(text, b.at)) + 1 \in 1 .. Len(text) + 1
      BY <1>5, <1>8
    <2> QED
      BY <1>1, <2>1, <2>2, PuttingIn
  <1> QED
    BY <1>2, <1>3, <1>4, <1>6, <1>7, <1>8 DEF FileAction

\* A part of a text, and two texts one after the other.
LEMMA PartOfText ==
    ASSUME NEW text \in Text, NEW a \in 1 .. Len(text) + 1, NEW c \in 0 .. Len(text), NEW q
    PROVE  SubSeq(text, a, c) \in Text /\ Count(SubSeq(text, a, c), q) <= Count(text, q)
  <1> DEFINE s == SubSeq(text, a, c)
             O == Occurrences(s, q)
             f == [i \in O |-> a + i - 1]
  <1>1. text \in Seq(Piece) /\ Len(text) \in Nat /\ a \in Int /\ c \in Int
    BY LenProperties DEF Text
  <1>2. \A i \in a .. c : text[i] \in Piece
    BY <1>1, ElementOfSeq
  <1>3. /\ s \in Seq(Piece) /\ Len(s) = IF a <= c THEN c - a + 1 ELSE 0
        /\ \A i \in 1 .. c - a + 1 : s[i] = text[a + i - 1]
    BY <1>1, <1>2, SubSeqProperties
  <1> HIDE DEF s
  <1>4. /\ O = {i \in 1 .. Len(s) : s[i] = q} /\ Count(s, q) = Cardinality(O)
        /\ Occurrences(text, q) = {i \in 1 .. Len(text) : text[i] = q}
        /\ IsFiniteSet(Occurrences(text, q))
    BY <1>1, <1>3, PositionsAreFinite DEF Text, Count
  <1>5. f \in Injection(O, Occurrences(text, q))
    <2>1. ASSUME NEW i \in O
          PROVE  a + i - 1 \in Occurrences(text, q) /\ i \in Nat
      <3>1. i \in 1 .. c - a + 1 /\ s[i] = q
        BY <1>1, <1>3, <1>4
      <3>2. text[a + i - 1] = q
        BY <1>3, <3>1
      <3>3. a + i - 1 \in 1 .. Len(text)
        <4>1. a >= 1 /\ c <= Len(text) /\ i >= 1 /\ i <= c - a + 1 /\ i \in Int
          BY <1>1, <3>1
        <4> QED
          BY <1>1, <4>1
      <3> QED
        BY <1>4, <3>1, <3>2, <3>3
    <2>2. \A i, j \in O : a + i - 1 = a + j - 1 => i = j
      BY <1>1, <2>1
    <2> QED
      BY <2>1, <2>2 DEF Injection, IsInjective
  <1>6. Cardinality(O) <= Count(text, q)
    BY <1>4, <1>5, FS_Injection DEF Count
  <1> QED
    BY <1>3, <1>4, <1>6 DEF s, Text

LEMMA JoinedText ==
    ASSUME NEW x \in Text, NEW y \in Text, NEW q
    PROVE  /\ x \o y \in Text /\ Count(x \o y, q) <= Count(x, q) + Count(y, q)
           /\ q \in ToSet(x) => q \in ToSet(x \o y)
  <1> DEFINE z == x \o y
             O == Occurrences(z, q) \ Occurrences(x, q)
             f == [i \in O |-> i - Len(x)]
  <1>1. /\ x \in Seq(Piece) /\ y \in Seq(Piece) /\ Len(x) \in Nat /\ Len(y) \in Nat
        /\ DOMAIN x = 1 .. Len(x)
    BY LenProperties DEF Text
  <1>2. /\ z \in Text /\ Len(z) = Len(x) + Len(y)
        /\ \A i \in 1 .. Len(x) + Len(y) : z[i] = IF i <= Len(x) THEN x[i] ELSE y[i - Len(x)]
    BY <1>1, ConcatProperties DEF Text
  <1> HIDE DEF z
  <1>3. /\ Occurrences(z, q) = {i \in 1 .. Len(z) : z[i] = q} /\ IsFiniteSet(Occurrences(z, q))
        /\ Occurrences(x, q) = {i \in 1 .. Len(x) : x[i] = q} /\ IsFiniteSet(Occurrences(x, q))
        /\ Occurrences(y, q) = {i \in 1 .. Len(y) : y[i] = q} /\ IsFiniteSet(Occurrences(y, q))
        /\ Count(x, q) \in Nat /\ Count(y, q) \in Nat /\ Count(z, q) \in Nat
        /\ DOMAIN z = 1 .. Len(z)
    BY <1>2, PositionsAreFinite, LenProperties DEF Text
  <1>4. f \in Injection(O, Occurrences(y, q))
    <2>1. ASSUME NEW i \in O
          PROVE  i - Len(x) \in Occurrences(y, q) /\ i \in Nat
      <3>1. i \in 1 .. Len(x) + Len(y) /\ z[i] = q /\ ~(i <= Len(x))
        BY <1>1, <1>2, <1>3
      <3>2. i - Len(x) \in 1 .. Len(y) /\ y[i - Len(x)] = q
        BY <1>1, <1>2, <3>1
      <3> QED
        BY <1>3, <3>1, <3>2
    <2>2. \A i, j \in O : i - Len(x) = j - Len(x) => i = j
      BY <1>1, <2>1
    <2> QED
      BY <2>1, <2>2 DEF Injection, IsInjective
  <1>5. IsFiniteSet(O) /\ Cardinality(O) <= Count(y, q) /\ Cardinality(O) \in Nat
    BY <1>3, <1>4, FS_Injection, FS_CardinalityType DEF Count
  <1> HIDE DEF O
  <1>6. Count(z, q) <= Count(x, q) + Count(y, q)
    <2> DEFINE X == Occurrences(x, q)
    <2>1. /\ IsFiniteSet(X \cup O) /\ Cardinality(X \cup O) \in Nat
          /\ Cardinality(X \cup O) = Cardinality(X) + Cardinality(O) - Cardinality(X \cap O)
      BY <1>3, <1>5, FS_Union, FS_CardinalityType
    <2>2. Cardinality(X \cap O) \in Nat
      <3>1. X \cap O \in SUBSET O
        OBVIOUS
      <3> QED
        BY <1>5, <3>1, FS_Subset, FS_CardinalityType
    <2>3. Occurrences(z, q) \in SUBSET (X \cup O)
      BY DEF O
    <2>4. Count(z, q) <= Cardinality(X \cup O)
      BY <2>1, <2>3, FS_Subset DEF Count
    <2>5. Cardinality(X) = Count(x, q)
      BY DEF Count
    <2> HIDE DEF X
    <2> QED
      BY <1>3, <1>5, <2>1, <2>2, <2>4, <2>5
  <1>7. ASSUME q \in ToSet(x)
        PROVE  q \in ToSet(z)
    <2>1. PICK i \in 1 .. Len(x) : x[i] = q
      BY <1>1, <1>7 DEF ToSet
    <2>2. i \in 1 .. Len(z) /\ z[i] = q
      BY <1>1, <1>2, <2>1
    <2> QED
      BY <1>3, <2>2 DEF ToSet
  <1> QED
    BY <1>2, <1>6, <1>7 DEF z

\* A text that is written over another one is whole.
LEMMA OverlayKeeps ==
    ASSUME NEW text \in Text, NEW under \in Text, NEW new \in Overlay(text, under), NEW q
    PROVE  /\ new \in Text /\ Count(new, q) <= Count(text, q) + Count(under, q)
           /\ q \in ToSet(text) => q \in ToSet(new)
  <1>1. PICK k \in 0 .. Len(under) : new = text \o SubSeq(under, k + 1, Len(under))
    BY DEF Overlay
  <1>2. Len(under) \in Nat
    BY LenProperties DEF Text
  <1>3. k + 1 \in 1 .. Len(under) + 1 /\ Len(under) \in 0 .. Len(under)
    BY <1>2
  <1> DEFINE rest == SubSeq(under, k + 1, Len(under))
  <1>4. rest \in Text /\ Count(rest, q) <= Count(under, q)
    BY <1>3, PartOfText
  <1> HIDE DEF rest
  <1>5. /\ text \o rest \in Text /\ Count(text \o rest, q) <= Count(text, q) + Count(rest, q)
        /\ q \in ToSet(text) => q \in ToSet(text \o rest)
    BY <1>4, JoinedText
  <1>6. /\ Count(text, q) \in Nat /\ Count(rest, q) \in Nat /\ Count(under, q) \in Nat
        /\ Count(text \o rest, q) \in Nat
    BY <1>4, <1>5, PositionsAreFinite
  <1>7. new = text \o rest
    BY <1>1 DEF rest
  <1> QED
    BY <1>4, <1>5, <1>6, <1>7

LEMMA PartsKeep ==
    ASSUME NEW text \in Text, NEW under \in Text, NEW new \in PartsOver(text, under), NEW q
    PROVE  new \in Text /\ Count(new, q) <= Count(text, q) + Count(under, q)
  <1>1. PICK j \in 0 .. Len(text) - 1 : new \in Overlay(SubSeq(text, 1, j), under)
    BY DEF PartsOver
  <1>2. Len(text) \in Nat
    BY LenProperties DEF Text
  <1>3. 1 \in 1 .. Len(text) + 1 /\ j \in 0 .. Len(text)
    BY <1>2
  <1> DEFINE part == SubSeq(text, 1, j)
  <1>4. part \in Text /\ Count(part, q) <= Count(text, q)
    BY <1>3, PartOfText
  <1> HIDE DEF part
  <1>5. new \in Text /\ Count(new, q) <= Count(part, q) + Count(under, q)
    BY <1>1, <1>4, OverlayKeeps DEF part
  <1>6. /\ Count(text, q) \in Nat /\ Count(part, q) \in Nat /\ Count(under, q) \in Nat
        /\ Count(new, q) \in Nat
    BY <1>4, <1>5, PositionsAreFinite
  <1> QED
    BY <1>4, <1>5, <1>6

-------------------------------------------------------------------------------
(***************************************************************************)
(* Types                                                                   *)
(***************************************************************************)
Phase == {"next", "write", "writing", "polling", "reading", "held", "done"}

Agent == [block : Nat \ {0}, phase : Phase, buffer : Text, spent : Nat, ran : Nat, ok : BOOLEAN]

\* the nodes of the batch that are not recorded yet
Running == ToSet(batch)

\* The nodes of the batch are in progress; a node that may still be started has an
\* attempt left.
TypeInv ==
    /\ fs \in [File -> Text \cup {NoFile}]
    /\ status \in [Node -> Status]
    /\ attempts \in [Node -> 0 .. MaxAttempts]
    /\ batch \in Seq(Node) /\ Len(batch) <= Concurrency /\ IsInjective(batch)
    /\ agent \in [Node -> Agent]
    /\ \A n \in Node :
          /\ agent[n].block \in 1 .. Len(Blocks[n]) + 1
          /\ n \in Running => status[n] = "in_progress" /\ attempts[n] > 0
          /\ status[n] \in {"pending", "ready", "blocked"} => attempts[n] < MaxAttempts
    /\ lost \subseteq Node \X Nat

IsCommand(n, i) == i \in 1 .. Len(Blocks[n]) /\ Blocks[n][i].action = "command"

\* What an agent is about to write back fits the block it is for, and the file that it
\* has emptied is there; only commands have children.
BlockInv ==
    \A n \in Running :
        /\ agent[n].phase \in {"write", "writing"} =>
              /\ IsFileBlock(n, agent[n].block) /\ Block(n).action # "append"
              /\ EditFits(Block(n), agent[n].buffer)
        /\ agent[n].phase = "writing" => IsThere(Block(n).target)
        /\ agent[n].phase \in {"polling", "reading", "held"} => IsCommand(n, agent[n].block)

(***************************************************************************)
(* The steps of an agent are of five kinds: it reads a file, empties it,   *)
(* puts its piece into it, drops what it has read, or changes no text.     *)
(***************************************************************************)
OnlyAgent(n) ==
    /\ n \in Running /\ agent[n].phase # "done"
    /\ agent' \in [Node -> Agent] /\ \A m \in Node \ {n} : agent'[m] = agent[m]
    /\ UNCHANGED <<status, attempts, batch, memory, context>>

ReadsText(n) ==
    /\ OnlyAgent(n)
    /\ IsFileBlock(n, agent[n].block) /\ Block(n).action # "append"
    /\ Block(n).action = "create" => ~IsThere(Block(n).target)
    /\ EditFits(Block(n), TextOf(Block(n).target))
    /\ agent[n].phase = "next"
    /\ agent'[n].block = agent[n].block /\ agent'[n].phase = "write"
    /\ agent'[n].buffer = TextOf(Block(n).target) /\ agent'[n].ok = agent[n].ok
    /\ UNCHANGED <<fs, lost>>

EmptiesFile(n) ==
    /\ OnlyAgent(n)
    /\ IsFileBlock(n, agent[n].block) /\ agent[n].phase = "write"
    /\ agent'[n] = [agent[n] EXCEPT !.phase = "writing"]
    /\ fs' = [fs EXCEPT ![Block(n).target] = <<>>]
    /\ UNCHANGED lost

\* The texts that a rewrite can leave when it succeeds, and when it does not.
Whole(n) == Overlay(Edited(Block(n), agent[n].buffer, Own(n)), TextOf(Block(n).target))
Partial(n) == PartsOver(Edited(Block(n), agent[n].buffer, Own(n)), TextOf(Block(n).target))

PutsPiece(n) ==
    /\ OnlyAgent(n)
    /\ IsFileBlock(n, agent[n].block)
    /\ agent'[n].block = agent[n].block + 1 /\ agent'[n].phase = "next"
    /\ agent'[n].ok = agent[n].ok
    /\ lost' = lost \ {Own(n)}
    /\ \E new \in Text :
          /\ fs' = [fs EXCEPT ![Block(n).target] = new]
          /\ \/ Block(n).action = "append" /\ agent[n].phase = "next"
                  /\ new = Append(TextOf(Block(n).target), Own(n))
             \/ agent[n].phase = "writing" /\ new \in Whole(n)

DropsText(n) ==
    /\ OnlyAgent(n)
    /\ IsFileBlock(n, agent[n].block) /\ agent[n].phase = "writing"
    /\ agent'[n].block = agent[n].block /\ agent'[n].phase = "done" /\ ~agent'[n].ok
    /\ \E new \in Text :
          /\ fs' = [fs EXCEPT ![Block(n).target] = new]
          /\ new \in Partial(n)
          /\ lost' = lost \cup (ToSet(agent[n].buffer) \ ToSet(new))

\* An append that fails may have made the file.
TouchesNothing(n) ==
    /\ OnlyAgent(n)
    /\ agent[n].phase # "writing" /\ agent'[n].phase \notin {"write", "writing"}
    /\ \/ agent'[n].block = agent[n].block
       \/ /\ agent'[n].block = agent[n].block + 1
          /\ agent[n].block <= Len(Blocks[n]) /\ ~IsFileBlock(n, agent[n].block)
    /\ agent'[n].phase \in {"polling", "reading", "held"} => IsCommand(n, agent'[n].block)
    /\ agent'[n].phase = "done" /\ agent'[n].ok => agent'[n].block > Len(Blocks[n])
    /\ agent'[n].ok => agent[n].ok
    /\ fs' \in [File -> Text \cup {NoFile}]
    /\ \A f \in File : TextOf(f)' = TextOf(f) /\ (IsThere(f) => IsThere(f)')
    /\ UNCHANGED lost

LEMMA OnDisk ==
    ASSUME TypeInv, NEW f \in File
    PROVE  /\ TextOf(f) \in Text /\ (IsThere(f) => fs[f] = TextOf(f))
           /\ \A q \in Piece : /\ Occurrences(fs[f], q) = Occurrences(TextOf(f), q)
                               /\ Occurrences(fs[f], q) # {} => IsThere(f)
                               /\ HasText(f, q) <=> q \in ToSet(TextOf(f))
  <1>1. /\ fs[f] \in Text \cup {NoFile}
        /\ \A q \in Piece : Occurrences(NoFile, q) = Occurrences(<<>>, q)
        /\ \A q \in Piece : Occurrences(NoFile, q) = {}
        /\ <<>> \in Text
    BY NothingWritten, EmptySeq DEF TypeInv, Text
  <1>2. /\ TextOf(f) \in Text /\ (IsThere(f) => fs[f] = TextOf(f))
        /\ \A q \in Piece : /\ Occurrences(fs[f], q) = Occurrences(TextOf(f), q)
                            /\ Occurrences(fs[f], q) # {} => IsThere(f)
    BY <1>1 DEF TextOf, IsThere
  <1>3. \A q : q \in ToSet(TextOf(f)) <=> Occurrences(TextOf(f), q) # {}
    BY DEF ToSet, Occurrences
  <1> QED
    BY <1>2, <1>3 DEF HasText

LEMMA AppliesFits ==
    ASSUME NEW b, Applies(b)
    PROVE  /\ EditFits(b, TextOf(b.target))
           /\ b.action = "create" => ~IsThere(b.target)
  <1>1. Cardinality({}) = 0
    BY FS_EmptySet
  <1>2. b.action = "create" => ~IsThere(b.target)
    BY DEF Applies
  <1>3. b.action \in {"replace", "insert_before", "insert_after"} =>
            IsThere(b.target) /\ Occurrences(fs[b.target], b.at) # {}
    BY <1>1 DEF Applies
  <1> QED
    BY <1>2, <1>3 DEF EditFits, TextOf

LEMMA NewPhase ==
    ASSUME TypeInv, NEW n \in Node, NEW a \in Agent, agent' = [agent EXCEPT ![n] = a],
           Working(n), UNCHANGED <<status, attempts, batch, memory, context>>
    PROVE  OnlyAgent(n) /\ agent'[n] = a
  BY DEF TypeInv, OnlyAgent, Working, Running

LEMMA AgentFacts ==
    ASSUME TypeInv, NEW n \in Node
    PROVE  /\ agent[n] \in Agent /\ agent[n].block \in Nat \ {0}
           /\ Own(n) \in Piece /\ Own(n) = <<n, agent[n].block>>
           /\ Proceed(n) \in Agent /\ Proceed(n).block = agent[n].block + 1
           /\ Proceed(n).phase = "next" /\ Proceed(n).ok = agent[n].ok
           /\ Stop(n) \in Agent /\ Stop(n).block = agent[n].block
           /\ Stop(n).phase = "done" /\ ~Stop(n).ok
  <1>1. <<>> \in Text /\ agent[n] \in Agent
    BY EmptySeq DEF TypeInv, Text
  <1>2. /\ agent[n].block \in Nat \ {0} /\ agent[n].buffer \in Text /\ agent[n].phase \in Phase
        /\ agent[n].spent \in Nat /\ agent[n].ran \in Nat /\ agent[n].ok \in BOOLEAN
    BY <1>1 DEF Agent
  <1>3. Own(n) \in Piece /\ Own(n) = <<n, agent[n].block>>
    BY <1>2 DEF Piece, Own
  <1>4. /\ Proceed(n) \in Agent /\ Proceed(n).block = agent[n].block + 1
        /\ Proceed(n).phase = "next" /\ Proceed(n).ok = agent[n].ok
    <2>1. agent[n].block + 1 \in Nat \ {0}
      BY <1>2
    <2> QED
      BY <1>1, <1>2, <2>1 DEF Agent, Proceed, Phase
  <1>5. /\ Stop(n) \in Agent /\ Stop(n).block = agent[n].block
        /\ Stop(n).phase = "done" /\ ~Stop(n).ok
    BY <1>1, <1>2 DEF Agent, Stop, Phase
  <1> QED
    BY <1>1, <1>2, <1>3, <1>4, <1>5

LEMMA AtFileBlock ==
    ASSUME TypeInv, NEW n \in Node, NEW phase, AtBlock(n, phase)
    PROVE  /\ Working(n) /\ n \in Running /\ agent[n].phase = phase
           /\ agent[n].block \in 1 .. Len(Blocks[n])
           /\ IF Block(n).action = "command"
              THEN Block(n).needs \in Nat /\ ~IsFileBlock(n, agent[n].block)
              ELSE /\ Block(n).action \in FileAction /\ Block(n).target \in File
                   /\ IsFileBlock(n, agent[n].block)
  BY BlocksAreLists DEF AtBlock, Working, Running, Block

\* A text that a rewrite leaves is one: whole, with the piece and all that was read and
\* is not there to be replaced, or a part.
LEMMA WritesOf ==
    ASSUME TypeInv, BlockInv, NEW n \in Node, n \in Running, agent[n].phase = "writing",
           NEW new \in Whole(n) \cup Partial(n), NEW q
    PROVE  LET b == Block(n)
               f == b.target
           IN  /\ new \in Text
               /\ Count(new, q) <= (IF q = Own(n) THEN 1 ELSE 0)
                     + (IF WritesBack(b) THEN Count(agent[n].buffer, q) ELSE 0)
                     + Count(TextOf(f), q)
               /\ new \in Whole(n) =>
                     /\ Own(n) \in ToSet(new)
                     /\ b.action # "full" /\ ~(b.action = "replace" /\ b.at = q)
                           /\ q \in ToSet(agent[n].buffer) => q \in ToSet(new)
  <1> DEFINE b == Block(n)
             f == b.target
             buffer == agent[n].buffer
             text == Edited(b, buffer, Own(n))
             under == TextOf(f)
  <1>0. "command" \notin FileAction /\ \A s : q \in ToSet(s) <=> Occurrences(s, q) # {}
    BY DEF FileAction, ToSet, Occurrences
  <1>1. /\ IsFileBlock(n, agent[n].block) /\ EditFits(b, buffer) /\ b.action # "append"
        /\ b.action \in FileAction
    BY DEF BlockInv, IsFileBlock, Block
  <1>2. f \in File /\ buffer \in Text /\ Own(n) \in Piece
    <2>1. agent[n].block \in 1 .. Len(Blocks[n])
      BY <1>1, BlocksAreLists DEF IsFileBlock
    <2>2. f \in File
      BY <1>0, <1>1, <2>1, BlocksAreLists DEF Block
    <2> QED
      BY <2>2, AgentFacts DEF Agent
  <1>3. under \in Text
    BY <1>2, OnDisk
  <1> HIDE DEF under
  <1>4. /\ text \in Text /\ Occurrences(text, Own(n)) # {}
        /\ b.action # "full" /\ ~(b.action = "replace" /\ b.at = q)
              /\ q \in ToSet(buffer) => q \in ToSet(text)
        /\ Count(text, q) <= Count(buffer, q) + (IF q = Own(n) THEN 1 ELSE 0)
    BY <1>0, <1>1, <1>2, EditKeeps
  <1>5. Own(n) \in ToSet(text)
    BY <1>4 DEF ToSet, Occurrences
  <1>6. Count(buffer, q) \in Nat /\ Count(text, q) \in Nat /\ Count(under, q) \in Nat
    BY <1>2, <1>3, <1>4, PositionsAreFinite
  <1>7. Count(text, q) <= (IF q = Own(n) THEN 1 ELSE 0)
                            + (IF WritesBack(b) THEN Count(buffer, q) ELSE 0)
    <2>1. CASE WritesBack(b)
      BY <1>4, <1>6, <2>1
    <2>2. CASE ~WritesBack(b)
      <3>1. b.action \in {"create", "full"}
        BY <1>1, <2>2 DEF WritesBack, FileAction
      <3>2. text = <<Own(n)>>
        BY <3>1 DEF Edited
      <3>3. <<>> \in Text /\ <<>> \o <<Own(n)>> = <<Own(n)>> /\ Count(<<>>, q) = 0
        BY <1>2, FS_EmptySet, EmptySeq DEF Text, Count, Occurrences
      <3>4. IsPutIn(<<>>, 1, Own(n), <<Own(n)>> \o <<>>)
        BY <1>2, <3>3, PuttingIn
      <3>5. <<Own(n)>> \o <<>> = <<Own(n)>>
        OBVIOUS
      <3>6. Count(text, q) <= Count(<<>>, q) + (IF q = Own(n) THEN 1 ELSE 0)
        BY <1>2, <3>2, <3>3, <3>4, <3>5, PutInKeeps
      <3> QED
        BY <1>6, <2>2, <3>3, <3>6
    <2> QED
      BY <2>1, <2>2
  <1> HIDE DEF text
  <1>8. CASE new \notin Whole(n)
    <2>1. new \in PartsOver(text, under)
      BY <1>8 DEF Partial, text, under
    <2>2. new \in Text /\ Count(new, q) <= Count(text, q) + Count(under, q)
      BY <1>3, <1>4, <2>1, PartsKeep
    <2>3. Count(new, q) \in Nat
      BY <2>2, PositionsAreFinite
    <2> QED
      BY <1>6, <1>7, <1>8, <2>2, <2>3 DEF under
  <1>9. CASE new \in Whole(n)
    <2>1. new \in Overlay(text, under)
      BY <1>9 DEF Whole, text, under
    <2>2. /\ new \in Text /\ Count(new, q) <= Count(text, q) + Count(under, q)
          /\ q \in ToSet(text) => q \in ToSet(new)
          /\ Own(n) \in ToSet(text) => Own(n) \in ToSet(new)
      BY <1>3, <1>4, <2>1, OverlayKeeps
    <2>3. Count(new, q) \in Nat
      BY <2>2, PositionsAreFinite
    <2> QED
      BY <1>4, <1>5, <1>6, <1>7, <2>2, <2>3 DEF under
  <1> QED
    BY <1>8, <1>9

AgentDoes(n) ==
    ReadsText(n) \/ EmptiesFile(n) \/ PutsPiece(n) \/ DropsText(n) \/ TouchesNothing(n)

LEMMA AgentSteps ==
    ASSUME TypeInv, BlockInv, NEW n \in Node, AgentStep(n)
    PROVE  AgentDoes(n)
  <1> DEFINE i == agent[n].block
             b == Block(n)
             f == b.target
  <1>0. /\ agent[n] \in Agent /\ i \in 1 .. Len(Blocks[n]) + 1 /\ Len(Blocks[n]) \in Nat
        /\ DOMAIN Blocks[n] = 1 .. Len(Blocks[n])
        /\ agent \in [Node -> Agent]
    BY BlocksAreLists, AgentFacts DEF TypeInv
  <1>00. "command" \notin FileAction
    BY DEF FileAction
  <1>a. fs \in [File -> Text \cup {NoFile}] /\ \A g \in File : TextOf(g) \in Text
    BY OnDisk DEF TypeInv
  \* A step that leaves every text as it is.
  <1>b. ASSUME UNCHANGED fs
        PROVE  /\ fs' \in [File -> Text \cup {NoFile}]
               /\ \A g \in File : TextOf(g)' = TextOf(g) /\ (IsThere(g) => IsThere(g)')
    BY <1>a, <1>b DEF TextOf, IsThere
  <1>4. ASSUME Working(n), agent[n].phase # "writing", GiveUp(n),
               fs' \in [File -> Text \cup {NoFile}],
               \A g \in File : TextOf(g)' = TextOf(g) /\ (IsThere(g) => IsThere(g)'),
               UNCHANGED <<status, attempts, batch, memory, context, lost>>
        PROVE  TouchesNothing(n)
    <2>1. OnlyAgent(n) /\ agent'[n] = Stop(n)
      BY <1>4, AgentFacts, NewPhase DEF GiveUp
    <2> QED
      BY <1>4, <2>1, AgentFacts DEF TouchesNothing
  <1>1. CASE AppendBlock(n)
    <2>1. AtBlock(n, "next") /\ b.action = "append"
      BY <1>1 DEF AppendBlock, AppendsInPlace
    <2>2. Working(n) /\ IsFileBlock(n, i) /\ f \in File /\ agent[n].phase = "next"
      BY <2>1, AtFileBlock
    <2>3. CASE GiveUp(n)
      <3>0. UNCHANGED <<status, attempts, batch, memory, context>>
        BY <1>1 DEF AppendBlock
      <3>1. CASE /\ fs' \in {fs, [fs EXCEPT ![f] = TextOf(f)]}
                 /\ UNCHANGED lost
        <4>1. CASE UNCHANGED fs
          BY <1>4, <1>b, <2>2, <2>3, <3>0, <3>1, <4>1 DEF AgentDoes
        <4>2. CASE fs' = [fs EXCEPT ![f] = TextOf(f)]
          <5>1. fs' \in [File -> Text \cup {NoFile}]
            BY <1>a, <2>2, <4>2
          <5>2. NoFile \notin Text
            BY AgentFacts, NothingWritten
          <5>3. ASSUME NEW g \in File
                PROVE  TextOf(g)' = TextOf(g) /\ (IsThere(g) => IsThere(g)')
            <6>1. CASE g = f
              <7>1. fs'[g] = TextOf(g) /\ TextOf(g) # NoFile
                BY <1>a, <2>2, <4>2, <5>2, <6>1
              <7> QED
                BY <7>1 DEF IsThere, TextOf
            <6>2. CASE g # f
              <7>1. fs'[g] = fs[g]
                BY <1>a, <4>2, <6>2
              <7> QED
                BY <7>1 DEF IsThere, TextOf
            <6> QED
              BY <6>1, <6>2
          <5> QED
            BY <1>4, <2>2, <2>3, <3>0, <3>1, <5>1, <5>3 DEF AgentDoes
        <4> QED
          BY <3>1, <4>1, <4>2
      <3>2. CASE agent' = [agent EXCEPT ![n] = Proceed(n)]
        <4>1. Proceed(n) = Stop(n)
          BY <1>0, <2>3, <3>2 DEF GiveUp
        <4> QED
          BY <4>1, AgentFacts
      <3> QED
        BY <1>1, <3>1, <3>2 DEF AppendBlock
    <2>4. CASE ~GiveUp(n)
      <3>1. Append(TextOf(f), Own(n)) \in Text
        BY <1>a, <2>2, PuttingIn, AgentFacts DEF IsPutIn
      <3>2. /\ fs' = [fs EXCEPT ![f] = Append(TextOf(f), Own(n))]
            /\ agent' = [agent EXCEPT ![n] = Proceed(n)]
            /\ lost' = lost \ {Own(n)}
            /\ UNCHANGED <<status, attempts, batch, memory, context>>
        BY <1>1, <2>4 DEF AppendBlock
      <3>3. OnlyAgent(n) /\ agent'[n] = Proceed(n)
        BY <2>2, <3>2, AgentFacts, NewPhase
      <3> QED
        BY <2>1, <2>2, <3>1, <3>2, <3>3, AgentFacts DEF PutsPiece, AgentDoes
    <2> QED
      BY <2>3, <2>4
  <1>2. CASE WriteTarget(n)
    <2>1. AtBlock(n, "writing")
      BY <1>2 DEF WriteTarget
    <2>2. Working(n) /\ n \in Running /\ agent[n].phase = "writing"
      BY <2>1, AtFileBlock
    <2>3. IsFileBlock(n, i)
      BY <2>2 DEF BlockInv
    <2>4. UNCHANGED <<status, attempts, batch, memory, context>>
      BY <1>2 DEF WriteTarget
    <2>5. ASSUME NEW new \in Whole(n), fs' = [fs EXCEPT ![f] = new],
                 agent' = [agent EXCEPT ![n] = Proceed(n)], lost' = lost \ {Own(n)}
          PROVE  PutsPiece(n)
      <3>1. new \in Text
        BY <2>2, WritesOf
      <3>2. OnlyAgent(n) /\ agent'[n] = Proceed(n)
        BY <2>2, <2>4, <2>5, AgentFacts, NewPhase
      <3> QED
        BY <2>2, <2>3, <2>5, <3>1, <3>2, AgentFacts DEF PutsPiece
    <2>6. ASSUME NEW new \in Partial(n), fs' = [fs EXCEPT ![f] = new], GiveUp(n),
                 lost' = lost \cup (ToSet(agent[n].buffer) \ ToSet(new))
          PROVE  DropsText(n)
      <3>1. new \in Text
        BY <2>2, WritesOf
      <3>2. OnlyAgent(n) /\ agent'[n] = Stop(n)
        BY <2>2, <2>4, <2>6, AgentFacts, NewPhase DEF GiveUp
      <3> QED
        BY <2>2, <2>3, <2>6, <3>1, <3>2, AgentFacts DEF DropsText
    <2>7. \/ \E new \in Whole(n) : /\ fs' = [fs EXCEPT ![f] = new]
                                   /\ agent' = [agent EXCEPT ![n] = Proceed(n)]
                                   /\ lost' = lost \ {Own(n)}
          \/ \E new \in Partial(n) : /\ fs' = [fs EXCEPT ![f] = new] /\ GiveUp(n)
                                     /\ lost' = lost \cup (ToSet(agent[n].buffer) \ ToSet(new))
      BY <1>2 DEF WriteTarget, Whole, Partial
    <2> QED
      BY <2>5, <2>6, <2>7 DEF AgentDoes
  <1>3. CASE ReadTarget(n) /\ ~GiveUp(n)
    <2>1. AtBlock(n, "next") /\ b.action \in FileAction /\ b.action # "append" /\ Applies(b)
      BY <1>3 DEF ReadTarget, AppendsInPlace
    <2>2. Working(n) /\ IsFileBlock(n, i) /\ f \in File /\ agent[n].phase = "next"
      BY <1>00, <2>1, AtFileBlock
    <2> DEFINE a == [agent[n] EXCEPT !.phase = "write", !.buffer = TextOf(f)]
    <2>3. a \in Agent /\ a.block = i /\ a.phase = "write" /\ a.buffer = TextOf(f)
          /\ a.ok = agent[n].ok
      BY <1>0, <2>2, OnDisk DEF Agent, Phase
    <2>4. /\ agent' = [agent EXCEPT ![n] = a]
          /\ UNCHANGED <<fs, status, attempts, batch, memory, context, lost>>
      BY <1>0, <1>3 DEF ReadTarget
    <2> HIDE DEF a
    <2>5. OnlyAgent(n) /\ agent'[n] = a
      BY <2>2, <2>3, <2>4, NewPhase
    <2>6. EditFits(b, TextOf(f)) /\ (b.action = "create" => ~IsThere(f))
      BY <2>1, AppliesFits
    <2> QED
      BY <2>1, <2>2, <2>3, <2>4, <2>5, <2>6 DEF ReadsText, AgentDoes
  <1>12. CASE EmptyTarget(n) /\ ~GiveUp(n)
    <2>1. AtBlock(n, "write")
      BY <1>12 DEF EmptyTarget
    <2>2. Working(n) /\ n \in Running /\ agent[n].phase = "write"
      BY <2>1, AtFileBlock
    <2> DEFINE a == [agent[n] EXCEPT !.phase = "writing"]
    <2>3. a \in Agent
      BY <1>0 DEF Agent, Phase
    <2>4. /\ agent' = [agent EXCEPT ![n] = a]
          /\ fs' = [fs EXCEPT ![f] = <<>>]
          /\ UNCHANGED <<status, attempts, batch, memory, context, lost>>
      BY <1>0, <1>12 DEF EmptyTarget
    <2>5. OnlyAgent(n) /\ agent'[n] = a
      BY <2>2, <2>3, <2>4, NewPhase
    <2>6. IsFileBlock(n, i)
      BY <2>2 DEF BlockInv
    <2> QED
      BY <2>2, <2>4, <2>5, <2>6 DEF EmptiesFile, AgentDoes
  <1>5. CASE \/ (ReadTarget(n) \/ EmptyTarget(n)) /\ GiveUp(n)
             \/ Kill(n)
    <2>1. PICK phase \in {"next", "write", "polling"} : AtBlock(n, phase)
      BY <1>5 DEF ReadTarget, EmptyTarget, Kill
    <2>2. Working(n) /\ agent[n].phase # "writing"
      BY <2>1, AtFileBlock
    <2>3. UNCHANGED <<status, attempts, batch, memory, context, lost>> /\ GiveUp(n)
      BY <1>5 DEF ReadTarget, EmptyTarget, Kill
    <2>4. UNCHANGED fs
      <3>1. CASE EmptyTarget(n) /\ ~UNCHANGED fs
        <4>1. agent' = [agent EXCEPT ![n].phase = "writing"] /\ agent' = [agent EXCEPT ![n] = Stop(n)]
          BY <2>3, <3>1 DEF EmptyTarget, GiveUp
        <4>2. agent'[n].phase = "writing" /\ agent'[n].phase = "done"
          BY <1>0, <4>1, AgentFacts DEF Agent
        <4> QED
          BY <4>2
      <3> QED
        BY <1>5, <3>1 DEF ReadTarget, Kill
    <2> QED
      BY <1>4, <1>b, <2>2, <2>3, <2>4 DEF AgentDoes
  <1>6. ASSUME Working(n), agent[n].phase # "writing",
               NEW a \in Agent, a.block = i, a.phase \in {"polling", "reading", "held"},
               a.ok = agent[n].ok, IsCommand(n, i),
               agent' = [agent EXCEPT ![n] = a],
               UNCHANGED <<fs, status, attempts, batch, memory, context, lost>>
        PROVE  TouchesNothing(n)
    <2>1. OnlyAgent(n) /\ agent'[n] = a
      BY <1>6, NewPhase
    <2> QED
      BY <1>6, <1>b, <2>1 DEF TouchesNothing
  <1>7. CASE Spawn(n)
    <2> DEFINE a == [agent[n] EXCEPT !.phase = "polling"]
    <2>1. a \in Agent /\ a.block = i /\ a.phase = "polling" /\ a.ok = agent[n].ok
      BY <1>0 DEF Agent, Phase
    <2>2. agent' = [agent EXCEPT ![n] = a] /\ AtBlock(n, "next")
      BY <1>0, <1>7 DEF Spawn
    <2>3. Working(n) /\ IsCommand(n, i) /\ agent[n].phase # "writing"
      BY <1>7, <2>2, AtFileBlock DEF Spawn, IsCommand, Block
    <2>4. UNCHANGED <<fs, status, attempts, batch, memory, context, lost>>
      BY <1>7 DEF Spawn
    <2> HIDE DEF a
    <2>5. TouchesNothing(n)
      BY <1>6, <2>1, <2>2, <2>3, <2>4
    <2> QED
      BY <2>5 DEF AgentDoes
  <1>8. CASE Tick(n)
    <2> DEFINE a == [agent[n] EXCEPT !.spent = @ + 1, !.ran = @ + 1]
    <2>0. agent[n].spent + 1 \in Nat /\ agent[n].ran + 1 \in Nat
      BY <1>0 DEF Agent
    <2>1. a \in Agent /\ a.block = i /\ a.phase = agent[n].phase /\ a.ok = agent[n].ok
      BY <1>0, <2>0 DEF Agent
    <2>2. agent' = [agent EXCEPT ![n] = a] /\ AtBlock(n, "polling")
      BY <1>0, <1>8 DEF Tick
    <2>3. agent[n].phase = "polling" /\ Working(n) /\ IsCommand(n, i)
      BY <2>2, AtFileBlock DEF BlockInv
    <2>4. UNCHANGED <<fs, status, attempts, batch, memory, context, lost>>
      BY <1>8 DEF Tick
    <2> HIDE DEF a
    <2>5. TouchesNothing(n)
      BY <1>6, <2>1, <2>2, <2>3, <2>4
    <2> QED
      BY <2>5 DEF AgentDoes
  <1>9. CASE ChildExits(n)
    <2>1. PICK held \in Block(n).holds :
             agent' = [agent EXCEPT ![n].phase = IF held THEN "held" ELSE "reading"]
      BY <1>9 DEF ChildExits
    <2> DEFINE a == [agent[n] EXCEPT !.phase = IF held THEN "held" ELSE "reading"]
    <2>2. a \in Agent /\ a.block = i /\ a.phase \in {"held", "reading"} /\ a.ok = agent[n].ok
      BY <1>0 DEF Agent, Phase
    <2>3. agent' = [agent EXCEPT ![n] = a] /\ AtBlock(n, "polling")
      BY <1>0, <1>9, <2>1 DEF ChildExits
    <2>4. Working(n) /\ IsCommand(n, i) /\ agent[n].phase # "writing"
      BY <2>3, AtFileBlock DEF BlockInv
    <2>5. UNCHANGED <<fs, status, attempts, batch, memory, context, lost>>
      BY <1>9 DEF ChildExits
    <2> HIDE DEF a
    <2>6. TouchesNothing(n)
      BY <1>6, <2>2, <2>3, <2>4, <2>5
    <2> QED
      BY <2>6 DEF AgentDoes
  <1>10. CASE ReadOutput(n)
    <2>1. PICK code \in Block(n).exits :
             agent' = [agent EXCEPT ![n] = IF code = 0 THEN Proceed(n) ELSE Stop(n)]
      BY <1>10 DEF ReadOutput
    <2>2. Working(n) /\ i \in 1 .. Len(Blocks[n]) /\ agent[n].phase # "writing"
      BY <1>10, AtFileBlock DEF ReadOutput
    <2>3. UNCHANGED <<fs, status, attempts, batch, memory, context, lost>>
      BY <1>10 DEF ReadOutput
    <2>6. IsCommand(n, i)
      BY <1>10, AtFileBlock DEF ReadOutput, BlockInv
    <2>4. CASE code = 0
      <3>1. OnlyAgent(n) /\ agent'[n] = Proceed(n)
        BY <2>1, <2>2, <2>3, <2>4, AgentFacts, NewPhase
      <3>2. ~IsFileBlock(n, i)
        BY <1>0, <1>00, <2>6 DEF IsCommand, IsFileBlock
      <3>3. agent'[n].block = i + 1 /\ agent'[n].phase = "next" /\ agent'[n].ok = agent[n].ok
        <4>1. Proceed(n).block = i + 1 /\ Proceed(n).phase = "next" /\ Proceed(n).ok = agent[n].ok
          BY AgentFacts
        <4> QED
          BY <3>1, <4>1
      <3>4. i <= Len(Blocks[n])
        BY <1>0, <2>2
      <3> QED
        BY <1>b, <2>2, <2>3, <3>1, <3>2, <3>3, <3>4 DEF TouchesNothing, AgentDoes
    <2>5. CASE code # 0
      BY <1>4, <1>b, <2>1, <2>2, <2>3, <2>5 DEF GiveUp, AgentDoes
    <2> QED
      BY <2>4, <2>5
  <1>11. CASE Answer(n)
    <2> DEFINE a == [agent[n] EXCEPT !.phase = "done"]
    <2>1. a \in Agent /\ a.block = i /\ a.phase = "done" /\ a.ok = agent[n].ok
      BY <1>0 DEF Agent, Phase
    <2>2. agent' = [agent EXCEPT ![n] = a] /\ Working(n) /\ i > Len(Blocks[n])
          /\ agent[n].phase # "writing"
      BY <1>0, <1>11 DEF Answer
    <2>3. OnlyAgent(n) /\ agent'[n] = a
      BY <1>11, <2>1, <2>2, NewPhase DEF Answer
    <2> QED
      BY <1>11, <1>b, <2>1, <2>2, <2>3 DEF TouchesNothing, Answer, AgentDoes
  <1> QED
    BY <1>1, <1>2, <1>3, <1>5, <1>7, <1>8, <1>9, <1>10, <1>11, <1>12 DEF AgentStep

LEMMA OnlyItsAgent ==
    ASSUME NEW n, AgentDoes(n)
    PROVE  OnlyAgent(n) /\ Running' = Running /\ n \in Running
  BY DEF AgentDoes, ReadsText, EmptiesFile, PutsPiece, DropsText, TouchesNothing, OnlyAgent, Running

(***************************************************************************)
(* What the other steps do.                                                *)
(***************************************************************************)
LEMMA StartFacts ==
    ASSUME TypeInv, StartBatch
    PROVE  /\ Running = {} /\ Running' \subseteq Ready
           /\ batch' \in Seq(Node) /\ Len(batch') <= Concurrency /\ IsInjective(batch')
           /\ status' = [n \in Node |-> IF n \in Running' THEN "in_progress" ELSE status[n]]
           /\ attempts' = [n \in Node |-> IF n \in Running' THEN attempts[n] + 1 ELSE attempts[n]]
           /\ agent' = [n \in Node |-> IF n \in Running' THEN NewAgent ELSE agent[n]]
           /\ UNCHANGED <<fs, memory, lost>>
  <1> DEFINE order == InIdOrder(Ready)
             k == Min({Concurrency, Len(order)})
  <1>1. Ready \subseteq Node
    BY DEF Ready
  <1>2. order \in Seq(Ready) /\ IsInjective(order)
    BY <1>1, IdOrder DEF Lists
  <1> HIDE DEF order
  <1>3. IsList(order) /\ Len(order) \in Nat
    BY <1>2, InList DEF IsList
  <1>4. k \in 0 .. Len(order) /\ k <= Concurrency
    <2>1. {Concurrency, Len(order)} \subseteq Nat
      BY <1>3, NodeExecutionAssumption
    <2>2. \E x \in {Concurrency, Len(order)} : \A y \in {Concurrency, Len(order)} : x <= y
      BY <2>1, LeastNumber
    <2>3. k \in {Concurrency, Len(order)} /\ \A y \in {Concurrency, Len(order)} : k <= y
      BY <2>2 DEF Min
    <2> QED
      BY <1>3, <2>1, <2>3
  <1> HIDE DEF k
  <1>5. batch' = SubSeq(order, 1, k)
    BY DEF StartBatch, order, k
  <1>6. /\ batch' \in Seq(Ready) /\ Len(batch') = k
        /\ \A i \in 1 .. k : batch'[i] = order[i]
    BY <1>2, <1>3, <1>4, <1>5, SubSeqProperties
  <1>7. IsList(batch')
    BY <1>6, InList
  <1>8. IsInjective(batch')
    BY <1>2, <1>3, <1>4, <1>6, <1>7 DEF IsList
  <1>9. Running' \subseteq Ready /\ batch' \in Seq(Node)
    <2>1. ToSet(batch') \subseteq Ready
      BY <1>6, ElementsOf
    <2> QED
      BY <1>1, <1>6, <2>1, SeqOfElements DEF Running
  <1>10. Running = {}
    BY NoElements DEF StartBatch, Running
  <1>11. /\ status' = [n \in Node |-> IF n \in Running' THEN "in_progress" ELSE status[n]]
         /\ attempts' = [n \in Node |-> IF n \in Running' THEN attempts[n] + 1 ELSE attempts[n]]
         /\ agent' = [n \in Node |-> IF n \in Running' THEN NewAgent ELSE agent[n]]
         /\ UNCHANGED <<fs, memory, lost>>
    BY <1>5 DEF StartBatch, Running, order, k
  <1> QED
    BY <1>4, <1>6, <1>8, <1>9, <1>10, <1>11

LEMMA RecordFacts ==
    ASSUME TypeInv, RecordResult
    PROVE  \E n \in Running :
              /\ n \in Node /\ Running' = Running \ {n}
              /\ batch' \in Seq(Node) /\ Len(batch') <= Concurrency /\ IsInjective(batch')
              /\ \A m \in Running : agent[m].phase = "done"
              /\ status' \in [Node -> Status]
              /\ status'[n] \in {"completed", "failed"}
              /\ status'[n] = "completed" => agent[n].ok /\ VerifyNode(n)
              /\ \A m \in Node \ {n} :
                    \/ status'[m] = status[m]
                    \/ status[m] \in {"pending", "ready"} /\ status'[m] = "blocked"
              /\ UNCHANGED <<fs, attempts, agent, context, lost>>
  <1> DEFINE n == Head(batch)
  <1>1. batch \in Seq(Node) /\ batch # <<>> /\ IsInjective(batch) /\ batch' = Tail(batch)
    BY DEF TypeInv, RecordResult
  <1>2. /\ n \in Node /\ batch' \in Seq(Node) /\ IsInjective(batch')
        /\ Running = {n} \cup Running' /\ n \notin Running'
    BY <1>1, HeadAndTail DEF Running
  <1>3. Len(batch') <= Concurrency
    <2>1. Len(batch) \in Nat /\ Len(batch) <= Concurrency /\ Len(batch') = Len(batch) - 1
      BY <1>1, HeadTailProperties, LenProperties DEF TypeInv
    <2> QED
      BY <2>1, NodeExecutionAssumption
  <1>4. \A m \in Running : agent[m].phase = "done"
    BY DEF RecordResult, AllAnswered, Running
  <1>5. /\ status' = [m \in Node |->
                 IF m = n THEN (IF agent[n].ok /\ VerifyNode(n) THEN "completed" ELSE "failed")
                 ELSE IF /\ ~(agent[n].ok /\ VerifyNode(n)) /\ m \in Dependents(n)
                         /\ status[m] \in {"pending", "ready"}
                      THEN "blocked" ELSE status[m]]
        /\ UNCHANGED <<fs, attempts, agent, context, lost>>
    BY DEF RecordResult
  <1> HIDE DEF n
  <1>6. /\ status'[n] \in {"completed", "failed"}
        /\ status'[n] = "completed" => agent[n].ok /\ VerifyNode(n)
        /\ \A m \in Node \ {n} :
              \/ status'[m] = status[m]
              \/ status[m] \in {"pending", "ready"} /\ status'[m] = "blocked"
    BY <1>2, <1>5
  <1>7. status' \in [Node -> Status]
    BY <1>5 DEF TypeInv, Status
  <1> QED
    BY <1>2, <1>3, <1>4, <1>5, <1>6, <1>7

LEMMA UserFacts ==
    ASSUME TypeInv, NEW n \in Node, Retry(n) \/ Release(n)
    PROVE  /\ Running = {} /\ Running' = {}
           /\ status[n] \in {"failed", "blocked", "in_progress"} /\ attempts[n] < MaxAttempts
           /\ \E s \in {"ready", "pending"} : status' = [status EXCEPT ![n] = s]
           /\ UNCHANGED <<fs, attempts, batch, agent, context, lost>>
  <1>1. Running = {}
    BY NoElements DEF Retry, Release, Running
  <1>2. /\ status[n] \in {"failed", "blocked", "in_progress"} /\ attempts[n] < MaxAttempts
        /\ \E s \in {"ready", "pending"} : status' = [status EXCEPT ![n] = s]
        /\ UNCHANGED <<fs, attempts, batch, agent, context, lost>>
    BY DEF Retry, Release
  <1> QED
    BY <1>1, <1>2 DEF Running

LEMMA CrashFacts ==
    ASSUME TypeInv, Crash
    PROVE  /\ Running' = {} /\ batch' = <<>>
           /\ \A n \in Running : attempts[n] < MaxAttempts
           /\ \E s \in {"pending", "ready", "in_progress"} :
                 status' = [n \in Node |-> IF n \in Running THEN s ELSE status[n]]
           /\ lost' = lost \cup UNION {InHand(n) : n \in Node}
           /\ UNCHANGED <<fs, attempts, agent, context>>
  BY NoElements DEF Crash, Running

LEMMA AgentTypes ==
    ASSUME TypeInv, NEW n \in Node, AgentDoes(n)
    PROVE  TypeInv'
  <1>1. OnlyAgent(n) /\ Running' = Running
    BY OnlyItsAgent
  <1>2. Len(Blocks[n]) \in Nat /\ DOMAIN Blocks[n] = 1 .. Len(Blocks[n])
    BY BlocksAreLists
  <1>3. agent'[n].block \in 1 .. Len(Blocks[n]) + 1
    <2>1. agent[n].block \in 1 .. Len(Blocks[n]) + 1 /\ agent[n] \in Agent
      BY DEF TypeInv
    <2>2. CASE PutsPiece(n)
      BY <1>2, <2>1, <2>2 DEF PutsPiece, IsFileBlock
    <2>3. CASE ReadsText(n) \/ DropsText(n)
      BY <2>1, <2>3 DEF ReadsText, DropsText
    <2>4. CASE TouchesNothing(n)
      BY <1>2, <2>1, <2>4 DEF TouchesNothing
    <2>5. CASE EmptiesFile(n)
      BY <2>1, <2>5 DEF EmptiesFile, Agent
    <2> QED
      BY <2>2, <2>3, <2>4, <2>5 DEF AgentDoes
  <1>4. fs' \in [File -> Text \cup {NoFile}]
    <2>1. CASE PutsPiece(n) \/ DropsText(n)
      BY <2>1 DEF PutsPiece, DropsText, TypeInv
    <2>2. CASE EmptiesFile(n)
      <3>1. <<>> \in Text
        BY EmptySeq DEF Text
      <3> QED
        BY <2>2, <3>1 DEF EmptiesFile, TypeInv
    <2> QED
      BY <2>1, <2>2 DEF AgentDoes, ReadsText, TouchesNothing, TypeInv
  <1>5. \A m \in Node : agent'[m].block \in 1 .. Len(Blocks[m]) + 1
    BY <1>1, <1>3 DEF OnlyAgent, TypeInv
  <1>6. lost' \subseteq Node \X Nat
    <2>1. CASE DropsText(n)
      <3>1. agent[n].buffer \in Text
        BY DEF TypeInv, Agent
      <3>2. ToSet(agent[n].buffer) \subseteq Piece
        BY <3>1, ElementsOf DEF Text
      <3>3. Piece \subseteq Node \X Nat
        BY DEF Piece
      <3> QED
        BY <2>1, <3>2, <3>3 DEF DropsText, TypeInv
    <2> QED
      BY <2>1 DEF AgentDoes, ReadsText, EmptiesFile, PutsPiece, TouchesNothing, TypeInv
  <1> QED
    BY <1>1, <1>4, <1>5, <1>6 DEF OnlyAgent, TypeInv

LEMMA NewAgentType == /\ NewAgent \in Agent /\ NewAgent.block = 1 /\ NewAgent.phase = "next"
                      /\ NewAgent.spent = 0 /\ NewAgent.ran = 0 /\ NewAgent.ok
  <1>1. <<>> \in Text
    BY EmptySeq DEF Text
  <1> QED
    BY <1>1 DEF NewAgent, Agent, Phase

LEMMA InitTypes == Init => TypeInv
  <1> SUFFICES ASSUME Init PROVE TypeInv
    OBVIOUS
  <1>1. Running = {} /\ IsInjective(batch) /\ batch \in Seq(Node)
    BY NoElements DEF Init, Running
  <1>2. Len(batch) = 0 /\ Concurrency \in Nat /\ 0 <= Concurrency /\ 0 < MaxAttempts
        /\ 0 \in 0 .. MaxAttempts
    BY NodeExecutionAssumption DEF Init
  <1>3. [NewAgent EXCEPT !.phase = "done"] \in Agent /\ [NewAgent EXCEPT !.phase = "done"].block = 1
    BY NewAgentType DEF Agent, Phase
  <1>4. \A n \in Node : 1 \in 1 .. Len(Blocks[n]) + 1
    BY BlocksAreLists
  <1>5. agent \in [Node -> Agent] /\ \A n \in Node : agent[n].block = 1
    BY <1>3 DEF Init
  <1>6. status \in [Node -> Status] /\ \A n \in Node : status[n] # "in_progress"
    BY DEF Init, Status
  <1> QED
    BY <1>1, <1>2, <1>4, <1>5, <1>6 DEF Init, TypeInv

LEMMA NextTypes == TypeInv /\ BlockInv /\ [Next]_vars => TypeInv'
  <1> SUFFICES ASSUME TypeInv, BlockInv, [Next]_vars PROVE TypeInv'
    OBVIOUS
  <1>1. CASE StartBatch
    <2>1. /\ status' \in [Node -> Status] /\ attempts' \in [Node -> 0 .. MaxAttempts]
          /\ \A n \in Node : n \in Running' => attempts'[n] > 0
      <3>1. \A n \in Ready : n \in Node /\ attempts[n] \in 0 .. MaxAttempts /\ attempts[n] < MaxAttempts
        BY DEF TypeInv, Ready
      <3>2. \A n \in Running' : attempts[n] + 1 \in 0 .. MaxAttempts /\ attempts[n] + 1 > 0
        BY <1>1, <3>1, StartFacts, NodeExecutionAssumption
      <3>3. /\ status' = [n \in Node |-> IF n \in Running' THEN "in_progress" ELSE status[n]]
            /\ attempts' = [n \in Node |-> IF n \in Running' THEN attempts[n] + 1 ELSE attempts[n]]
        BY <1>1, StartFacts
      <3> QED
        BY <3>2, <3>3 DEF TypeInv, Status
    <2>2. agent' \in [Node -> Agent] /\ \A n \in Node : agent'[n].block \in 1 .. Len(Blocks[n]) + 1
      <3>1. \A n \in Node : 1 \in 1 .. Len(Blocks[n]) + 1
        BY BlocksAreLists
      <3> QED
        BY <1>1, <3>1, StartFacts, NewAgentType DEF TypeInv
    <2>3. \A n \in Node :
             /\ n \in Running' => status'[n] = "in_progress"
             /\ status'[n] \in {"pending", "ready", "blocked"} => attempts'[n] < MaxAttempts
      BY <1>1, StartFacts DEF TypeInv
    <2> QED
      BY <1>1, <2>1, <2>2, <2>3, StartFacts DEF TypeInv
  <1>2. ASSUME NEW n \in Node, AgentStep(n)
        PROVE  TypeInv'
    BY <1>2, AgentSteps, AgentTypes
  <1>3. CASE RecordResult
    <2>1. PICK n \in Running :
              /\ n \in Node /\ Running' = Running \ {n}
              /\ batch' \in Seq(Node) /\ Len(batch') <= Concurrency /\ IsInjective(batch')
              /\ status' \in [Node -> Status]
              /\ status'[n] \in {"completed", "failed"}
              /\ \A m \in Node \ {n} :
                    \/ status'[m] = status[m]
                    \/ status[m] \in {"pending", "ready"} /\ status'[m] = "blocked"
              /\ UNCHANGED <<fs, attempts, agent, context, lost>>
      BY <1>3, RecordFacts
    <2>2. \A m \in Node :
             /\ m \in Running' => status'[m] = "in_progress"
             /\ status'[m] \in {"pending", "ready", "blocked"} => attempts[m] < MaxAttempts
      BY <2>1 DEF TypeInv
    <2> QED
      BY <2>1, <2>2 DEF TypeInv
  <1>4. ASSUME NEW n \in Node, Retry(n) \/ Release(n)
        PROVE  TypeInv'
    <2>1. PICK s \in {"ready", "pending"} : status' = [status EXCEPT ![n] = s]
      BY <1>4, UserFacts
    <2>2. Running' = {}
      BY <1>4, UserFacts DEF Running
    <2> QED
      BY <1>4, <2>1, <2>2, UserFacts DEF TypeInv, Status
  <1>5. CASE UNCHANGED vars
    BY <1>5 DEF vars, TypeInv, Running
  <1>6. CASE Crash
    <2>1. PICK s \in {"pending", "ready", "in_progress"} :
             status' = [n \in Node |-> IF n \in Running THEN s ELSE status[n]]
      BY <1>6, CrashFacts
    <2>2. \A n \in Node : status'[n] \in Status
                          /\ (status'[n] \in {"pending", "ready", "blocked"} => attempts[n] < MaxAttempts)
      BY <1>6, <2>1, CrashFacts DEF TypeInv, Status
    <2>3. /\ batch' \in Seq(Node) /\ IsInjective(batch') /\ Len(batch') <= Concurrency
          /\ Running' = {}
      <3>1. Len(<<>>) = 0 /\ 0 <= Concurrency
        BY NodeExecutionAssumption
      <3> QED
        BY <1>6, <3>1, CrashFacts, NoElements
    <2>4. ASSUME NEW n \in Node
          PROVE  InHand(n) \subseteq Node \X Nat
      <3>1. agent[n].buffer \in Text /\ Piece \subseteq Node \X Nat
        BY DEF TypeInv, Agent, Piece
      <3>2. ToSet(agent[n].buffer) \subseteq Piece
        BY <3>1, ElementsOf DEF Text
      <3> QED
        BY <3>1, <3>2 DEF InHand
    <2> QED
      BY <1>6, <2>1, <2>2, <2>3, <2>4, CrashFacts DEF TypeInv
  <1> QED
    BY <1>1, <1>2, <1>3, <1>4, <1>5, <1>6 DEF Next

\* A file stays there: an emptied one is not a missing one.
LEMMA FilesStay ==
    ASSUME TypeInv, BlockInv, [Next]_vars, NEW f \in File, IsThere(f)
    PROVE  IsThere(f)'
  <1>1. CASE fs' = fs
    BY <1>1 DEF IsThere
  <1>2. ASSUME NEW n \in Node, AgentStep(n)
        PROVE  IsThere(f)'
    <2>1. NoFile \notin Text /\ <<>> \in Text
      BY AgentFacts, NothingWritten
    <2>2. CASE PutsPiece(n) \/ DropsText(n) \/ EmptiesFile(n)
      <3>1. PICK new \in Text : fs' = [fs EXCEPT ![Block(n).target] = new]
        BY <2>1, <2>2 DEF PutsPiece, DropsText, EmptiesFile
      <3>2. fs'[f] = fs[f] \/ fs'[f] \in Text
        BY <3>1 DEF TypeInv
      <3> QED
        BY <2>1, <3>2 DEF IsThere
    <2>3. CASE TouchesNothing(n)
      BY <2>3 DEF TouchesNothing
    <2>4. CASE ReadsText(n)
      BY <1>1, <2>4 DEF ReadsText
    <2> QED
      BY <1>2, <2>2, <2>3, <2>4, AgentSteps DEF AgentDoes
  <1>3. CASE StartBatch \/ RecordResult \/ Crash \/ \E n \in Node : Retry(n) \/ Release(n)
    BY <1>1, <1>3 DEF StartBatch, RecordResult, Crash, Retry, Release
  <1> QED
    BY <1>1, <1>2, <1>3 DEF Next, vars

LEMMA FileIsThere ==
    ASSUME NEW n \in Node, IsFileBlock(n, agent[n].block)
    PROVE  Block(n).target \in File
  <1>1. "command" \notin FileAction
    BY DEF FileAction
  <1> QED
    BY <1>1, BlocksAreLists DEF IsFileBlock, Block

LEMMA NextBlocks == TypeInv /\ BlockInv /\ [Next]_vars => BlockInv'
  <1> SUFFICES ASSUME TypeInv, BlockInv, [Next]_vars PROVE BlockInv'
    OBVIOUS
  <1>1. CASE StartBatch
    BY <1>1, StartFacts, NewAgentType DEF BlockInv, Ready
  <1>2. ASSUME NEW n \in Node, AgentStep(n)
        PROVE  BlockInv'
    <2>1. AgentDoes(n) /\ agent[n] \in Agent
      BY <1>2, AgentSteps DEF TypeInv
    <2>2. /\ Running' = Running /\ Running \subseteq Node /\ n \in Running
          /\ \A m \in Running \ {n} : agent'[m] = agent[m]
      BY <2>1, OnlyItsAgent, ElementsOf DEF OnlyAgent, Running, TypeInv
    <2>3. /\ agent'[n].phase \in {"write", "writing"} =>
                /\ IsFileBlock(n, agent'[n].block) /\ Blocks[n][agent'[n].block].action # "append"
                /\ EditFits(Blocks[n][agent'[n].block], agent'[n].buffer)
          /\ agent'[n].phase \in {"polling", "reading", "held"} => IsCommand(n, agent'[n].block)
          /\ agent'[n].phase = "writing" => fs'[Blocks[n][agent'[n].block].target] # NoFile
      <3>1. CASE EmptiesFile(n)
        <4>1. /\ agent'[n].phase = "writing" /\ agent'[n].block = agent[n].block
              /\ agent'[n].buffer = agent[n].buffer /\ agent[n].phase = "write"
              /\ IsFileBlock(n, agent[n].block) /\ fs' = [fs EXCEPT ![Block(n).target] = <<>>]
          BY <2>1, <3>1 DEF EmptiesFile, Agent
        <4>2. Block(n).action # "append" /\ EditFits(Block(n), agent[n].buffer)
          BY <2>2, <4>1 DEF BlockInv
        <4>3. Block(n).target \in File /\ <<>> # NoFile
          BY <4>1, FileIsThere, AgentFacts, NothingWritten
        <4>4. fs'[Block(n).target] = <<>>
          BY <4>1, <4>3 DEF TypeInv
        <4> QED
          BY <4>1, <4>2, <4>3, <4>4 DEF Block
      <3> QED
        BY <2>1, <3>1 DEF AgentDoes, PutsPiece, ReadsText, DropsText, TouchesNothing, Block
    <2>4. \A m \in Running \ {n} :
             agent'[m].phase = "writing" => fs'[Blocks[m][agent'[m].block].target] # NoFile
      <3>1. ASSUME NEW m \in Running \ {n}, agent[m].phase = "writing"
            PROVE  fs'[Blocks[m][agent[m].block].target] # NoFile
        <4>1. m \in Node /\ IsFileBlock(m, agent[m].block) /\ IsThere(Block(m).target)
          BY <2>2, <3>1 DEF BlockInv
        <4>2. Block(m).target \in File
          BY <4>1, FileIsThere
        <4>3. IsThere(Block(m).target)'
          <5>1. \A f \in File : IsThere(f) => fs'[f] # NoFile
            BY FilesStay DEF IsThere
          <5> QED
            BY <2>2, <4>1, <4>2, <5>1 DEF Block, IsThere
        <4> QED
          BY <2>2, <4>3 DEF Block, IsThere
      <3> QED
        BY <2>2, <3>1
    <2> QED
      BY <2>2, <2>3, <2>4 DEF BlockInv, Block, IsThere
  <1>3. CASE RecordResult
    BY <1>3, RecordFacts DEF BlockInv, Block, IsThere
  <1>4. ASSUME NEW n \in Node, Retry(n) \/ Release(n)
        PROVE  BlockInv'
    BY <1>4, UserFacts DEF BlockInv
  <1>5. CASE UNCHANGED vars
    BY <1>5 DEF vars, BlockInv, Block, Running, IsThere
  <1>6. CASE Crash
    BY <1>6, CrashFacts DEF BlockInv
  <1> QED
    BY <1>1, <1>2, <1>3, <1>4, <1>5, <1>6 DEF Next

LEMMA AlwaysTyped == Spec => [](TypeInv /\ BlockInv)
  <1>1. Init => BlockInv
    BY NoElements DEF Init, BlockInv, Running
  <1> QED
    BY <1>1, InitTypes, NextTypes, NextBlocks, PTL DEF Spec

\* Every variable has its type: pieces of text are edits of nodes, a node has no more
\* attempts than it may have, a batch has no more nodes than the limit, and its nodes are
\* in progress.
THEOREM TypeCorrect == Spec => []TypeOK
  <1>1. TypeInv => TypeOK
    <2> SUFFICES ASSUME TypeInv PROVE TypeOK
      OBVIOUS
    <2>1. ASSUME NEW f \in File, IsThere(f)
          PROVE  \A i \in DOMAIN fs[f] : fs[f][i] \in Node \X Nat
      <3>1. fs[f] \in Seq(Piece)
        BY <2>1 DEF TypeInv, IsThere, Text
      <3>2. \A i \in DOMAIN fs[f] : fs[f][i] \in Piece
        BY <3>1, InList, ElementOfSeq DEF IsList
      <3>3. Piece \subseteq Node \X Nat
        BY DEF Piece
      <3> QED
        BY <3>2, <3>3
    <2> QED
      BY <2>1 DEF TypeInv, TypeOK, Agent, Phase, Running
  <1> QED
    BY <1>1, AlwaysTyped, PTL

-------------------------------------------------------------------------------
(***************************************************************************)
(* What is never undone: a node stays completed, and a file stays there    *)
(***************************************************************************)
LEMMA CompletedStays ==
    ASSUME TypeInv, BlockInv, [Next]_vars, NEW n \in Node, status[n] = "completed"
    PROVE  status'[n] = "completed" /\ agent'[n] = agent[n] /\ n \notin Running /\ n \notin Running'
  <1>0. n \notin Running /\ status \in [Node -> Status]
    BY DEF TypeInv
  <1>1. CASE StartBatch
    BY <1>0, <1>1, StartFacts DEF Ready, TypeInv
  <1>2. ASSUME NEW m \in Node, AgentStep(m)
        PROVE  status'[n] = "completed" /\ agent'[n] = agent[n] /\ n \notin Running'
    BY <1>0, <1>2, AgentSteps, OnlyItsAgent DEF OnlyAgent
  <1>3. CASE RecordResult
    BY <1>0, <1>3, RecordFacts
  <1>4. ASSUME NEW m \in Node, Retry(m) \/ Release(m)
        PROVE  status'[n] = "completed" /\ agent'[n] = agent[n] /\ n \notin Running'
    BY <1>0, <1>4, UserFacts DEF Running
  <1>5. CASE UNCHANGED vars
    BY <1>0, <1>5 DEF vars, Running
  <1>6. CASE Crash
    BY <1>0, <1>6, CrashFacts
  <1> QED
    BY <1>0, <1>1, <1>2, <1>3, <1>4, <1>5, <1>6 DEF Next

\* The checks of a completed node that nothing may undo have passed, and still do.
\* (PassedChecksStillHold does not say that the node of a check exists, but the
\* verifier asks for it, and without it the check could not be known to stay true.)
CheckInv ==
    \A n \in Node : status[n] = "completed" =>
        \A check \in ToSet(Checks[n]) :
            /\ check.kind = "file_exists" => IsThere(check.file)
            /\ check.kind = "node_status" /\ check.status = "completed" =>
                  check.node \in Node /\ status[check.node] = "completed"

LEMMA OnlyRecorded ==
    ASSUME TypeInv, BlockInv, [Next]_vars, NEW n \in Node,
           status[n] # "completed", status'[n] = "completed"
    PROVE  /\ VerifyNode(n) /\ agent[n].ok /\ agent[n].phase = "done" /\ n \in Running
           /\ UNCHANGED <<fs, agent, attempts>> /\ Running' \subseteq Running /\ RecordResult
  <1>0. status \in [Node -> Status]
    BY DEF TypeInv
  <1>1. ~StartBatch
    BY StartFacts
  <1>2. ASSUME NEW m \in Node, AgentStep(m)
        PROVE  FALSE
    BY <1>2, AgentSteps, OnlyItsAgent DEF OnlyAgent
  <1>3. ASSUME NEW m \in Node, Retry(m) \/ Release(m)
        PROVE  FALSE
    BY <1>0, <1>3, UserFacts
  <1>4. status' # status
    OBVIOUS
  <1>5. ~Crash
    BY CrashFacts
  <1>6. RecordResult
    BY <1>1, <1>2, <1>3, <1>4, <1>5 DEF Next, vars
  <1> QED
    BY <1>6, RecordFacts

LEMMA ChecksStay == TypeInv /\ BlockInv /\ CheckInv /\ [Next]_vars => CheckInv'
  <1> SUFFICES ASSUME TypeInv, BlockInv, CheckInv, [Next]_vars,
                      NEW n \in Node, status'[n] = "completed",
                      NEW check \in ToSet(Checks[n])
               PROVE  /\ check.kind = "file_exists" => IsThere(check.file)'
                      /\ check.kind = "node_status" /\ check.status = "completed" =>
                            check.node \in Node /\ status'[check.node] = "completed"
    BY DEF CheckInv, IsThere
  <1>1. check.kind = "file_exists" => check.file \in File
    BY NodeExecutionAssumption
  <1>2. /\ check.kind = "file_exists" => IsThere(check.file)
        /\ check.kind = "node_status" /\ check.status = "completed" =>
              check.node \in Node /\ status[check.node] = "completed"
    <2>1. CASE status[n] = "completed"
      BY <2>1 DEF CheckInv
    <2>2. CASE status[n] # "completed"
      <3>1. Passes(check)
        BY <2>2, OnlyRecorded DEF VerifyNode
      <3>2. check.kind = "file_exists" => IsThere(check.file)
        BY <3>1 DEF Passes
      <3>3. check.kind = "node_status" => NodeStatusPasses(check)
        BY <3>1 DEF Passes
      <3> QED
        BY <3>2, <3>3 DEF NodeStatusPasses
    <2> QED
      BY <2>1, <2>2
  <1> QED
    BY <1>1, <1>2, CompletedStays, FilesStay

\* What a completed node was checked for and cannot be undone still holds, whatever
\* agents of its batch and of later ones, retries and resets do: recording comes after
\* all agents of a batch, a node never stops being completed, and a file that is emptied
\* to be written, or that a rewrite has not finished, is still there.
THEOREM PassedChecksLast == Spec => []PassedChecksStillHold
  <1>1. Init => CheckInv
    BY DEF Init, CheckInv
  <1>2. CheckInv => PassedChecksStillHold
    BY DEF CheckInv, PassedChecksStillHold
  <1> QED
    BY <1>1, <1>2, ChecksStay, AlwaysTyped, PTL DEF Spec

-------------------------------------------------------------------------------
(***************************************************************************)
(* Attempts and edits                                                      *)
(***************************************************************************)
\* The agents that have read a file to rewrite it, and those that have emptied it.
Readers(f) == {n \in Running : agent[n].phase \in {"write", "writing"} /\ Block(n).target = f}
Writers(f) == {n \in Running : agent[n].phase = "writing" /\ Block(n).target = f}

\* The attempts that can have applied a block: a running one that has not come to it
\* does not count.
Allowed(n, i) ==
    IF n \in Running /\ agent[n].phase # "done" /\ agent[n].block <= i
    THEN attempts[n] - 1 ELSE attempts[n]

\* No block is in a file more often than that, nor in what an agent has read of it, nor
\* in what is in the file again after an agent has emptied it and will put what it has
\* read over it.
CountInv ==
    \A n \in Node : \A i \in DOMAIN Blocks[n] : IsFileBlock(n, i) =>
        LET f == Blocks[n][i].target
            q == <<n, i>>
        IN  ~MayMix(f) =>
                /\ Count(TextOf(f), q) <= Allowed(n, i)
                /\ \A m \in Readers(f) : Count(agent[m].buffer, q) <= Allowed(n, i)
                /\ \A m \in Writers(f) : WritesBack(Block(m)) =>
                      Count(agent[m].buffer, q) + Count(TextOf(f), q) <= Allowed(n, i)

LEMMA FileBlock ==
    ASSUME NEW n \in Node, NEW i \in DOMAIN Blocks[n], IsFileBlock(n, i)
    PROVE  <<n, i>> \in Piece /\ Blocks[n][i].target \in File /\ i \in Nat
           /\ Blocks[n][i].action \in FileAction /\ ~IsCommand(n, i)
  <1>1. "command" \notin FileAction
    BY DEF FileAction
  <1> QED
    BY <1>1, BlocksAreLists DEF Piece, IsFileBlock, IsCommand

LEMMA ReadersRead ==
    ASSUME TypeInv, NEW f
    PROVE  /\ Readers(f) \subseteq Node /\ Writers(f) \subseteq Readers(f) /\ Running \subseteq Node
           /\ \A m \in Readers(f) : agent[m].buffer \in Text /\ m \in Running
  <1>1. Running \subseteq Node
    BY ElementsOf DEF TypeInv, Running
  <1> QED
    BY <1>1 DEF TypeInv, Readers, Writers, Agent

\* A step of an agent and one file: the others stay what they are to it, and the agent
\* does nothing that it shows, reads it, empties it or writes it.
LEMMA OnFile ==
    ASSUME TypeInv, TypeInv', BlockInv, NEW n \in Node, AgentDoes(n), NEW f \in File
    PROVE  /\ \A m \in Node \ {n} :
                 /\ agent'[m] = agent[m] /\ Block(m)' = Block(m)
                 /\ m \in Readers(f)' <=> m \in Readers(f)
                 /\ m \in Writers(f)' <=> m \in Writers(f)
           /\ \/ TextOf(f)' = TextOf(f) /\ n \notin Readers(f)' /\ n \notin Writers(f)
              \/ /\ ReadsText(n) /\ Block(n).target = f /\ TextOf(f)' = TextOf(f)
                 /\ n \notin Writers(f) /\ n \notin Writers(f)' /\ Block(n)' = Block(n)
              \/ /\ EmptiesFile(n) /\ Block(n).target = f /\ TextOf(f)' = <<>>
                 /\ n \in Readers(f) /\ n \in Writers(f)'
                 /\ agent'[n].buffer = agent[n].buffer /\ Block(n)' = Block(n)
              \/ /\ PutsPiece(n) \/ DropsText(n)
                 /\ Block(n).target = f /\ n \notin Readers(f)'
                 /\ \/ /\ PutsPiece(n) /\ Block(n).action = "append" /\ n \notin Writers(f)
                       /\ TextOf(f)' = Append(TextOf(f), Own(n))
                    \/ PutsPiece(n) /\ n \in Writers(f) /\ TextOf(f)' \in Whole(n)
                    \/ /\ DropsText(n) /\ n \in Writers(f) /\ TextOf(f)' \in Partial(n)
                       /\ lost' = lost \cup (ToSet(agent[n].buffer) \ ToSet(TextOf(f)'))
  <1> DEFINE g == Block(n).target
  <1>0. OnlyAgent(n) /\ Running' = Running /\ n \in Running /\ agent[n] \in Agent
    BY OnlyItsAgent DEF TypeInv
  <1>1. ASSUME NEW m \in Node \ {n}
        PROVE  /\ agent'[m] = agent[m] /\ Block(m)' = Block(m)
               /\ m \in Readers(f)' <=> m \in Readers(f)
               /\ m \in Writers(f)' <=> m \in Writers(f)
    BY <1>0 DEF OnlyAgent, Readers, Writers, Block
  <1>2. <<>> \in Text /\ NoFile \notin Text
    BY AgentFacts, NothingWritten
  <1>3. ASSUME NEW new \in Text, fs' = [fs EXCEPT ![g] = new], g = f
        PROVE  TextOf(f)' = new
    <2>1. fs'[f] = new /\ new # NoFile
      BY <1>2, <1>3 DEF TypeInv
    <2> QED
      BY <2>1 DEF TextOf, IsThere
  <1>4. ASSUME fs' = fs \/ \E new : fs' = [fs EXCEPT ![g] = new], g # f
        PROVE  TextOf(f)' = TextOf(f)
    <2>1. fs'[f] = fs[f]
      BY <1>4 DEF TypeInv
    <2> QED
      BY <2>1 DEF TextOf, IsThere
  <1>5. CASE TouchesNothing(n)
    <2>1. TextOf(f)' = TextOf(f) /\ n \notin Readers(f)' /\ n \notin Writers(f)
      BY <1>5 DEF TouchesNothing, Readers, Writers
    <2> QED
      BY <1>1, <2>1
  <1>6. CASE ReadsText(n)
    <2>1. /\ Block(n)' = Block(n) /\ UNCHANGED fs /\ agent[n].phase = "next"
          /\ agent'[n].phase = "write"
      BY <1>6 DEF ReadsText, Block
    <2>2. TextOf(f)' = TextOf(f) /\ n \notin Writers(f) /\ n \notin Writers(f)'
          /\ (g # f => n \notin Readers(f)')
      BY <2>1 DEF TextOf, IsThere, Writers, Readers
    <2> QED
      BY <1>1, <1>6, <2>1, <2>2
  <1>7. CASE EmptiesFile(n)
    <2>1. /\ agent'[n].phase = "writing" /\ agent'[n].block = agent[n].block
          /\ agent'[n].buffer = agent[n].buffer /\ agent[n].phase = "write"
          /\ fs' = [fs EXCEPT ![g] = <<>>]
      BY <1>0, <1>7 DEF EmptiesFile, Agent
    <2>2. Block(n)' = Block(n)
      BY <2>1 DEF Block
    <2>3. CASE g = f
      <3>1. TextOf(f)' = <<>> /\ n \in Readers(f) /\ n \in Writers(f)'
        BY <1>0, <1>2, <1>3, <2>1, <2>2, <2>3 DEF Readers, Writers
      <3> QED
        BY <1>1, <1>7, <2>1, <2>2, <2>3, <3>1
    <2>4. CASE g # f
      <3>1. TextOf(f)' = TextOf(f) /\ n \notin Readers(f)' /\ n \notin Writers(f)
        BY <1>4, <2>1, <2>2, <2>4 DEF Readers, Writers
      <3> QED
        BY <1>1, <3>1
    <2> QED
      BY <2>3, <2>4
  <1>8. CASE PutsPiece(n)
    <2>1. PICK new \in Text :
             /\ fs' = [fs EXCEPT ![g] = new]
             /\ \/ Block(n).action = "append" /\ agent[n].phase = "next"
                      /\ new = Append(TextOf(g), Own(n))
                \/ agent[n].phase = "writing" /\ new \in Whole(n)
      BY <1>8 DEF PutsPiece
    <2>2. n \notin Readers(f)'
      BY <1>8 DEF PutsPiece, Readers
    <2>3. CASE g = f
      <3>1. TextOf(f)' = new
        BY <1>3, <2>1, <2>3
      <3>2. agent[n].phase = "next" => n \notin Writers(f)
        BY DEF Writers
      <3>3. agent[n].phase = "writing" => n \in Writers(f)
        BY <1>0, <2>3 DEF Writers
      <3> QED
        BY <1>1, <1>8, <2>1, <2>2, <2>3, <3>1, <3>2, <3>3
    <2>4. CASE g # f
      <3>1. TextOf(f)' = TextOf(f) /\ n \notin Writers(f)
        BY <1>4, <2>1, <2>4 DEF Writers
      <3> QED
        BY <1>1, <2>2, <3>1
    <2> QED
      BY <2>3, <2>4
  <1>9. CASE DropsText(n)
    <2>1. PICK new \in Text :
             /\ fs' = [fs EXCEPT ![g] = new] /\ new \in Partial(n)
             /\ lost' = lost \cup (ToSet(agent[n].buffer) \ ToSet(new))
      BY <1>9 DEF DropsText
    <2>2. n \notin Readers(f)' /\ agent[n].phase = "writing"
      BY <1>9 DEF DropsText, Readers
    <2>3. CASE g = f
      <3>1. TextOf(f)' = new /\ n \in Writers(f)
        BY <1>0, <1>3, <2>1, <2>2, <2>3 DEF Writers
      <3> QED
        BY <1>1, <1>9, <2>1, <2>2, <2>3, <3>1
    <2>4. CASE g # f
      <3>1. TextOf(f)' = TextOf(f) /\ n \notin Writers(f)
        BY <1>4, <2>1, <2>4 DEF Writers
      <3> QED
        BY <1>1, <2>2, <3>1
    <2> QED
      BY <2>3, <2>4
  <1> QED
    BY <1>5, <1>6, <1>7, <1>8, <1>9 DEF AgentDoes

\* Between the steps of agents no file changes; the agents of a batch are all done when
\* the first of them is recorded, and none is left after a kill.
LEMMA BetweenSteps ==
    ASSUME TypeInv, BlockInv, [Next]_vars, ~\E n \in Node : AgentStep(n)
    PROVE  /\ UNCHANGED fs
           /\ \A f : /\ TextOf(f)' = TextOf(f)
                     /\ Readers(f)' \subseteq Readers(f) /\ Writers(f)' \subseteq Writers(f)
                     /\ \A m \in Readers(f)' : agent'[m] = agent[m] /\ Block(m)' = Block(m)
                     /\ Writers(f) # {} => UNCHANGED vars \/ Crash
           /\ ~Crash => UNCHANGED lost
  <1>a. UNCHANGED fs => \A f : TextOf(f)' = TextOf(f)
    BY DEF TextOf, IsThere
  <1>1. CASE StartBatch
    <2>1. UNCHANGED <<fs, lost>> /\ Running = {} /\ \A f : Readers(f)' = {}
      BY <1>1, StartFacts, NewAgentType DEF Readers, Ready
    <2> QED
      BY <1>a, <2>1 DEF Readers, Writers
  <1>2. CASE RecordResult
    <2>1. UNCHANGED <<fs, agent, lost>> /\ Running' \subseteq Running
          /\ \A m \in Running : agent[m].phase = "done"
      BY <1>2, RecordFacts
    <2> QED
      BY <1>a, <2>1 DEF Readers, Writers
  <1>3. ASSUME NEW n \in Node, Retry(n) \/ Release(n)
        PROVE  UNCHANGED <<fs, lost>> /\ Running = {} /\ Running' = {}
    BY <1>3, UserFacts
  <1>4. CASE Crash
    BY <1>4, <1>a, CrashFacts DEF Readers, Writers
  <1>5. CASE UNCHANGED vars
    BY <1>5, <1>a DEF vars, Readers, Writers, Running, Block
  <1>6. CASE \E n \in Node : Retry(n) \/ Release(n)
    BY <1>a, <1>3, <1>6 DEF Readers, Writers
  <1> QED
    BY <1>1, <1>2, <1>4, <1>5, <1>6 DEF Next

LEMMA AttemptsGrow ==
    ASSUME TypeInv, BlockInv, [Next]_vars, NEW n \in Node
    PROVE  attempts[n] > 0 => attempts'[n] > 0
  <1>0. attempts[n] \in Nat
    BY NodeExecutionAssumption DEF TypeInv
  <1>1. CASE StartBatch
    BY <1>0, <1>1, StartFacts
  <1>2. CASE RecordResult \/ Crash \/ UNCHANGED vars \/ \E m \in Node : Retry(m) \/ Release(m)
    <2>1. UNCHANGED attempts
      BY <1>2 DEF RecordResult, Crash, vars, Retry, Release
    <2> QED
      BY <2>1
  <1>3. ASSUME NEW m \in Node, AgentStep(m)
        PROVE  attempts' = attempts
    BY <1>3, AgentSteps, OnlyItsAgent DEF OnlyAgent
  <1> QED
    BY <1>1, <1>2, <1>3 DEF Next

LEMMA ExcusesStay ==
    ASSUME TypeInv, BlockInv, [Next]_vars
    PROVE  /\ \A f \in File : MayMix(f) => MayMix(f)'
           /\ \A n \in Node : \A i \in DOMAIN Blocks[n] : MayErase(n, i) => MayErase(n, i)'
  <1>1. ASSUME NEW f \in File, MayMix(f)
        PROVE  MayMix(f)'
    <2>1. PICK m1, m2 \in Rewriters[f] : Unordered(m1, m2) /\ attempts[m1] > 0 /\ attempts[m2] > 0
      BY <1>1 DEF MayMix
    <2>2. m1 \in Node /\ m2 \in Node
      BY DEF Rewriters
    <2>3. attempts'[m1] > 0 /\ attempts'[m2] > 0
      BY <2>1, <2>2, AttemptsGrow
    <2> QED
      BY <2>1, <2>3 DEF MayMix
  <1>2. ASSUME NEW n \in Node, NEW i \in DOMAIN Blocks[n], MayErase(n, i)
        PROVE  MayErase(n, i)'
    <2>1. PICK m \in Erasers[n][i] : attempts[m] > 0
      BY <1>2 DEF MayErase
    <2>2. m \in Node
      BY DEF Erasers
    <2> QED
      BY <2>1, <2>2, AttemptsGrow DEF MayErase
  <1> QED
    BY <1>1, <1>2

\* What a block may have been applied never gets less, and one more when it is applied,
\* be it in part.
LEMMA AllowedGrows ==
    ASSUME TypeInv, TypeInv', BlockInv, [Next]_vars,
           NEW n \in Node, NEW i \in DOMAIN Blocks[n], IsFileBlock(n, i)
    PROVE  /\ Allowed(n, i) \in Int /\ Allowed(n, i)' \in Int
           /\ Allowed(n, i) <= Allowed(n, i)'
           /\ AgentDoes(n) /\ (PutsPiece(n) \/ DropsText(n)) /\ agent[n].block = i
                 => Allowed(n, i) + 1 <= Allowed(n, i)'
  <1>0. /\ attempts[n] \in Nat /\ attempts'[n] \in Nat /\ i \in Nat
        /\ agent[n].block \in Nat /\ agent'[n].block \in Nat
    <2>1. agent[n] \in Agent /\ agent'[n] \in Agent
      BY DEF TypeInv
    <2>2. agent[n].block \in Nat /\ agent'[n].block \in Nat
      BY <2>1 DEF Agent
    <2>3. attempts[n] \in Nat /\ attempts'[n] \in Nat
      BY NodeExecutionAssumption DEF TypeInv
    <2>4. i \in Nat
      BY FileBlock
    <2> QED
      BY <2>2, <2>3, <2>4
  <1>4. Allowed(n, i) \in Int /\ Allowed(n, i)' \in Int
    BY <1>0 DEF Allowed
  <1>5. ASSUME AgentDoes(n), PutsPiece(n) \/ DropsText(n), agent[n].block = i
        PROVE  Allowed(n, i) + 1 <= Allowed(n, i)'
    <2>1. n \in Running /\ agent[n].phase # "done" /\ agent[n].block <= i /\ attempts' = attempts
      BY <1>0, <1>5, OnlyItsAgent DEF OnlyAgent
    <2>2. agent'[n].phase = "done" \/ ~(agent'[n].block <= i)
      BY <1>0, <1>5 DEF PutsPiece, DropsText
    <2> QED
      BY <1>0, <2>1, <2>2 DEF Allowed
  <1>1. ASSUME StartBatch
        PROVE  Allowed(n, i) <= Allowed(n, i)'
    <2>1. n \notin Running /\ attempts'[n] = IF n \in Running' THEN attempts[n] + 1 ELSE attempts[n]
      BY <1>1, StartFacts
    <2> QED
      BY <1>0, <2>1 DEF Allowed
  <1>2. ASSUME NEW m \in Node, AgentStep(m)
        PROVE  Allowed(n, i) <= Allowed(n, i)'
    <2>1. AgentDoes(m) /\ OnlyAgent(m) /\ attempts' = attempts /\ Running' = Running
          /\ agent[m].phase # "done"
      BY <1>2, AgentSteps, OnlyItsAgent DEF OnlyAgent
    <2>2. agent'[n].block = agent[n].block \/ agent'[n].block = agent[n].block + 1
      <3>1. CASE m = n
        <4>1. EmptiesFile(n) => agent'[n].block = agent[n].block
          BY DEF EmptiesFile, TypeInv, Agent
        <4> QED
          BY <2>1, <3>1, <4>1 DEF AgentDoes, PutsPiece, ReadsText, DropsText, TouchesNothing
      <3> QED
        BY <2>1, <3>1 DEF OnlyAgent
    <2>3. agent'[n].phase = "done" \/ agent[n].phase # "done"
      BY <2>1 DEF OnlyAgent
    <2> QED
      BY <1>0, <2>1, <2>2, <2>3 DEF Allowed
  <1>3. ASSUME \/ RecordResult \/ UNCHANGED vars \/ Crash
               \/ \E m \in Node : Retry(m) \/ Release(m)
        PROVE  Allowed(n, i) <= Allowed(n, i)'
    <2>1. UNCHANGED <<agent, attempts>> /\ Running' \subseteq Running
      BY <1>3, RecordFacts, UserFacts, CrashFacts DEF vars, Running
    <2> QED
      BY <1>0, <2>1 DEF Allowed
  <1>6. Allowed(n, i) <= Allowed(n, i)'
    BY <1>1, <1>2, <1>3 DEF Next
  <1> QED
    BY <1>4, <1>5, <1>6

\* A node runs only after its dependencies, so the nodes of a batch are unordered.
OrderInv ==
    \A n \in Node : attempts[n] > 0 \/ status[n] \in {"in_progress", "completed"} =>
        \A d \in Depends[n] : status[d] = "completed"

LEMMA OrderStays == TypeInv /\ TypeInv' /\ BlockInv /\ OrderInv /\ [Next]_vars => OrderInv'
  <1> SUFFICES ASSUME TypeInv, TypeInv', BlockInv, OrderInv, [Next]_vars, NEW n \in Node,
                      attempts'[n] > 0 \/ status'[n] \in {"in_progress", "completed"},
                      NEW d \in Depends[n]
               PROVE  status'[d] = "completed"
    BY DEF OrderInv
  <1>0. d \in Node /\ status \in [Node -> Status]
    BY NodeExecutionAssumption DEF TypeInv
  <1>1. CASE attempts[n] > 0 \/ status[n] \in {"in_progress", "completed"}
    BY <1>0, <1>1, CompletedStays DEF OrderInv
  <1>2. CASE ~(attempts[n] > 0) /\ status[n] \notin {"in_progress", "completed"}
    <2>0. n \notin Running
      BY <1>2 DEF TypeInv
    <2>1. ~RecordResult
      <3>1. ASSUME RecordResult
            PROVE  FALSE
        BY <1>2, <2>0, <3>1, RecordFacts
      <3> QED
        BY <3>1
    <2>2. ASSUME NEW m \in Node, AgentStep(m)
          PROVE  FALSE
      BY <1>2, <2>2, AgentSteps, OnlyItsAgent DEF OnlyAgent
    <2>3. ASSUME NEW m \in Node, Retry(m) \/ Release(m)
          PROVE  FALSE
      BY <1>0, <1>2, <2>3, UserFacts
    <2>4. ~UNCHANGED vars
      BY <1>2 DEF vars
    <2>7. ~Crash
      BY <1>2, <2>0, CrashFacts
    <2>5. StartBatch
      BY <2>1, <2>2, <2>3, <2>4, <2>7 DEF Next
    <2>6. n \in Ready
      BY <1>2, <2>5, StartFacts
    <2> QED
      BY <1>0, <2>6, CompletedStays DEF Ready
  <1> QED
    BY <1>1, <1>2

LEMMA AncestorsDone ==
    ASSUME OrderInv, NEW n \in Node,
           attempts[n] > 0 \/ status[n] \in {"in_progress", "completed"}
    PROVE  \A m \in Ancestors[n] : status[m] = "completed"
  <1> DEFINE S == {m \in Node : status[m] = "completed"}
  <1>1. Depends[n] \subseteq S /\ \A x \in S : Depends[x] \subseteq S
    BY NodeExecutionAssumption DEF OrderInv
  <1>2. Ancestors[n] \subseteq S
    BY <1>1, AncestorsAreLeast
  <1> QED
    BY <1>2

LEMMA BatchIsUnordered ==
    ASSUME TypeInv, OrderInv, NEW n \in Running, NEW m \in Running, n # m
    PROVE  Unordered(n, m)
  <1>1. n \in Node /\ m \in Node
    BY ElementsOf DEF TypeInv, Running
  <1>2. status[n] = "in_progress" /\ status[m] = "in_progress"
    BY <1>1 DEF TypeInv
  <1>3. n \notin Ancestors[m] /\ m \notin Ancestors[n]
    BY <1>1, <1>2, AncestorsDone
  <1> QED
    BY <1>3 DEF Unordered

LEMMA NewTextOf ==
    ASSUME TypeInv', NEW f \in File
    PROVE  TextOf(f)' \in Text
  <1>1. <<>> \in Text
    BY EmptySeq DEF Text
  <1> QED
    BY <1>1 DEF TextOf, IsThere, TypeInv

\* Two agents that write back what they have read of one file mix their edits.
LEMMA WritersMix ==
    ASSUME TypeInv, BlockInv, OrderInv, NEW f \in File,
           NEW m1 \in Readers(f), NEW m2 \in Readers(f), m1 # m2,
           WritesBack(Block(m1)), WritesBack(Block(m2))
    PROVE  MayMix(f)
  <1>1. \A m \in Readers(f) : /\ m \in Node /\ m \in Running /\ Block(m).target = f
                              /\ agent[m].block \in DOMAIN Blocks[m]
    BY ReadersRead DEF Readers, BlockInv, IsFileBlock
  <1>2. m1 \in Rewriters[f] /\ m2 \in Rewriters[f]
    BY <1>1 DEF Rewriters, Block
  <1>3. Unordered(m1, m2) /\ attempts[m1] > 0 /\ attempts[m2] > 0
    BY <1>1, BatchIsUnordered DEF TypeInv
  <1> QED
    BY <1>2, <1>3 DEF MayMix

LEMMA CountsStay ==
    TypeInv /\ TypeInv' /\ BlockInv /\ OrderInv /\ CountInv /\ [Next]_vars => CountInv'
  <1> SUFFICES ASSUME TypeInv, TypeInv', BlockInv, OrderInv, CountInv, [Next]_vars,
                      NEW n \in Node, NEW i \in DOMAIN Blocks[n], IsFileBlock(n, i),
                      NEW f \in File, f = Blocks[n][i].target, NEW q, q = <<n, i>>,
                      ~MayMix(f)'
               PROVE  /\ Count(TextOf(f)', q) <= Allowed(n, i)'
                      /\ \A m \in Readers(f)' : Count(agent'[m].buffer, q) <= Allowed(n, i)'
                      /\ \A m \in Writers(f)' : WritesBack(Block(m)') =>
                            Count(agent'[m].buffer, q) + Count(TextOf(f)', q) <= Allowed(n, i)'
    BY FileBlock DEF CountInv, IsFileBlock
  <1>1. /\ Allowed(n, i) \in Int /\ Allowed(n, i)' \in Int
        /\ Allowed(n, i) <= Allowed(n, i)'
    BY AllowedGrows
  <1>2. /\ Count(TextOf(f), q) <= Allowed(n, i)
        /\ \A m \in Readers(f) : Count(agent[m].buffer, q) <= Allowed(n, i)
        /\ \A m \in Writers(f) : WritesBack(Block(m)) =>
              Count(agent[m].buffer, q) + Count(TextOf(f), q) <= Allowed(n, i)
    BY ExcusesStay DEF CountInv
  <1>3. /\ Count(TextOf(f), q) \in Nat /\ Count(TextOf(f)', q) \in Nat
        /\ \A m \in Node : Count(agent[m].buffer, q) \in Nat
        /\ Readers(f) \subseteq Node /\ Writers(f) \subseteq Readers(f)
    <2>1. TextOf(f) \in Text /\ TextOf(f)' \in Text
      BY OnDisk, NewTextOf
    <2>2. \A m \in Node : agent[m].buffer \in Text
      BY DEF TypeInv, Agent
    <2> QED
      BY <2>1, <2>2, PositionsAreFinite, ReadersRead
  <1>4. Readers(f)' \subseteq Node /\ Writers(f)' \subseteq Readers(f)'
    BY ElementsOf DEF TypeInv, Readers, Writers, Running
  \* What changes neither the file nor what was read of it.
  <1>5. ASSUME TextOf(f)' = TextOf(f),
               \A m \in Readers(f)' : /\ m \in Readers(f)
                                      /\ agent'[m] = agent[m] /\ Block(m)' = Block(m),
               Writers(f)' \subseteq Writers(f)
        PROVE  /\ Count(TextOf(f)', q) <= Allowed(n, i)'
               /\ \A m \in Readers(f)' : Count(agent'[m].buffer, q) <= Allowed(n, i)'
               /\ \A m \in Writers(f)' : WritesBack(Block(m)') =>
                     Count(agent'[m].buffer, q) + Count(TextOf(f)', q) <= Allowed(n, i)'
    <2>1. Count(TextOf(f)', q) <= Allowed(n, i)'
      BY <1>1, <1>2, <1>3, <1>5
    <2>2. ASSUME NEW m \in Readers(f)'
          PROVE  Count(agent'[m].buffer, q) <= Allowed(n, i)'
      <3>1. m \in Readers(f) /\ agent'[m] = agent[m] /\ Count(agent[m].buffer, q) \in Nat
        BY <1>3, <1>5
      <3> QED
        BY <1>1, <1>2, <3>1
    <2>3. ASSUME NEW m \in Writers(f)', WritesBack(Block(m)')
          PROVE  Count(agent'[m].buffer, q) + Count(TextOf(f)', q) <= Allowed(n, i)'
      <3>1. /\ m \in Writers(f) /\ agent'[m] = agent[m] /\ Block(m)' = Block(m)
            /\ Count(agent[m].buffer, q) \in Nat
        BY <1>3, <1>4, <1>5
      <3>2. Count(agent[m].buffer, q) + Count(TextOf(f), q) <= Allowed(n, i)
        BY <1>2, <2>3, <3>1
      <3> QED
        BY <1>1, <1>3, <1>5, <3>1, <3>2
    <2> QED
      BY <2>1, <2>2, <2>3
  <1>6. CASE ~\E m \in Node : AgentStep(m)
    <2>1. /\ TextOf(f)' = TextOf(f)
          /\ Readers(f)' \subseteq Readers(f) /\ Writers(f)' \subseteq Writers(f)
          /\ \A m \in Readers(f)' : agent'[m] = agent[m] /\ Block(m)' = Block(m)
      BY <1>6, BetweenSteps
    <2> QED
      BY <1>5, <2>1
  <1>7. ASSUME NEW m \in Node, AgentStep(m)
        PROVE  /\ Count(TextOf(f)', q) <= Allowed(n, i)'
               /\ \A x \in Readers(f)' : Count(agent'[x].buffer, q) <= Allowed(n, i)'
               /\ \A x \in Writers(f)' : WritesBack(Block(x)') =>
                     Count(agent'[x].buffer, q) + Count(TextOf(f)', q) <= Allowed(n, i)'
    <2>0. AgentDoes(m)
      BY <1>7, AgentSteps
    <2>1. \A x \in Node \ {m} :
             /\ agent'[x] = agent[x] /\ Block(x)' = Block(x)
             /\ x \in Readers(f)' <=> x \in Readers(f)
             /\ x \in Writers(f)' <=> x \in Writers(f)
      BY <2>0, OnFile
    <2>2. \A x \in Readers(f)' : x # m =>
             Count(agent'[x].buffer, q) <= Allowed(n, i)' /\ Count(agent'[x].buffer, q) \in Nat
      <3>1. ASSUME NEW x \in Readers(f)', x # m
            PROVE  Count(agent'[x].buffer, q) <= Allowed(n, i)' /\ Count(agent'[x].buffer, q) \in Nat
        <4>1. x \in Readers(f) /\ agent'[x] = agent[x] /\ Count(agent[x].buffer, q) \in Nat
          BY <1>3, <1>4, <2>1, <3>1
        <4> QED
          BY <1>1, <1>2, <4>1
      <3> QED
        BY <3>1
    <2>3. CASE TextOf(f)' = TextOf(f) /\ m \notin Readers(f)'
      BY <1>4, <1>5, <2>1, <2>3
    <2>4. CASE /\ ReadsText(m) /\ Block(m).target = f /\ TextOf(f)' = TextOf(f)
               /\ m \notin Writers(f)'
      <3>1. agent'[m].buffer = TextOf(f)
        BY <2>4 DEF ReadsText
      <3>2. \A x \in Readers(f)' : Count(agent'[x].buffer, q) <= Allowed(n, i)'
        BY <1>1, <1>2, <1>3, <2>2, <3>1
      <3>3. ASSUME NEW x \in Writers(f)', WritesBack(Block(x)')
            PROVE  Count(agent'[x].buffer, q) + Count(TextOf(f)', q) <= Allowed(n, i)'
        <4>1. /\ x \in Writers(f) /\ agent'[x] = agent[x] /\ Block(x)' = Block(x)
              /\ Count(agent[x].buffer, q) \in Nat
          BY <1>3, <1>4, <2>1, <2>4, <3>3
        <4>2. Count(agent[x].buffer, q) + Count(TextOf(f), q) <= Allowed(n, i)
          BY <1>2, <3>3, <4>1
        <4> QED
          BY <1>1, <1>3, <2>4, <4>1, <4>2
      <3>4. Count(TextOf(f)', q) <= Allowed(n, i)'
        BY <1>1, <1>2, <1>3, <2>4
      <3> QED
        BY <3>2, <3>3, <3>4
    <2>5. CASE /\ EmptiesFile(m) /\ TextOf(f)' = <<>> /\ m \in Readers(f)
               /\ agent'[m].buffer = agent[m].buffer
      <3>1. Count(TextOf(f)', q) = 0
        <4>1. Occurrences(<<>>, q) = {}
          BY DEF Occurrences
        <4> QED
          BY <2>5, <4>1, FS_EmptySet DEF Count
      <3>2. \A x \in Readers(f)' : Count(agent'[x].buffer, q) <= Allowed(n, i)'
                                   /\ Count(agent'[x].buffer, q) \in Nat
        BY <1>1, <1>2, <1>3, <2>2, <2>5
      <3>3. 0 <= Allowed(n, i)'
        BY <1>1, <1>2, <1>3
      <3> QED
        BY <1>1, <1>4, <3>1, <3>2, <3>3
    <2>6. CASE /\ PutsPiece(m) \/ DropsText(m)
               /\ Block(m).target = f /\ m \notin Readers(f)'
               /\ \/ /\ PutsPiece(m) /\ Block(m).action = "append" /\ m \notin Writers(f)
                     /\ TextOf(f)' = Append(TextOf(f), Own(m))
                  \/ m \in Writers(f) /\ TextOf(f)' \in Whole(m) \cup Partial(m)
      <3> DEFINE one == IF q = Own(m) THEN 1 ELSE 0
                 old == IF m \in Writers(f) /\ WritesBack(Block(m))
                        THEN Count(agent[m].buffer, q) ELSE 0
      <3>1. Allowed(n, i) + one <= Allowed(n, i)'
        <4>1. CASE q = Own(m)
          <5>1. m = n /\ agent[n].block = i
            BY <4>1 DEF Own
          <5> QED
            BY <2>0, <2>6, <4>1, <5>1, AllowedGrows
        <4>2. CASE q # Own(m)
          BY <1>1, <4>2
        <4> QED
          BY <4>1, <4>2
      <3>2. one \in Nat /\ old \in Nat
        BY <1>3
      <3>3. Count(TextOf(f)', q) <= one + old + Count(TextOf(f), q)
        <4>1. CASE TextOf(f)' = Append(TextOf(f), Own(m)) /\ m \notin Writers(f)
          <5>1. TextOf(f) \in Text /\ Own(m) \in Piece
            BY OnDisk, AgentFacts
          <5>2. IsPutIn(TextOf(f), Len(TextOf(f)) + 1, Own(m), TextOf(f)')
            BY <4>1, <5>1, PuttingIn
          <5>3. Count(TextOf(f)', q) <= Count(TextOf(f), q) + one
            BY <5>1, <5>2, PutInKeeps
          <5> QED
            BY <1>3, <3>2, <4>1, <5>3
        <4>2. CASE m \in Writers(f) /\ TextOf(f)' \in Whole(m) \cup Partial(m)
          <5>1. m \in Running /\ agent[m].phase = "writing"
            BY <4>2 DEF Writers
          <5>2. Count(TextOf(f)', q) <= (IF q = Own(m) THEN 1 ELSE 0)
                     + (IF WritesBack(Block(m)) THEN Count(agent[m].buffer, q) ELSE 0)
                     + Count(TextOf(f), q)
            BY <2>6, <4>2, <5>1, WritesOf
          <5> QED
            BY <4>2, <5>2
        <4> QED
          BY <2>6, <4>1, <4>2
      <3> HIDE DEF one
      <3>4. old + Count(TextOf(f), q) <= Allowed(n, i)
        BY <1>1, <1>2, <1>3
      <3>5. ASSUME NEW x \in Writers(f)', WritesBack(Block(x)')
            PROVE  Count(agent'[x].buffer, q) + Count(TextOf(f)', q) <= Allowed(n, i)'
        <4>1. /\ x \in Writers(f) /\ agent'[x] = agent[x] /\ Block(x)' = Block(x) /\ x # m
              /\ Count(agent[x].buffer, q) \in Nat
          BY <1>3, <1>4, <2>1, <2>6, <3>5
        <4>2. Count(agent[x].buffer, q) + Count(TextOf(f), q) <= Allowed(n, i)
          BY <1>2, <3>5, <4>1
        <4>3. ~(m \in Writers(f) /\ WritesBack(Block(m)))
          <5>1. ASSUME m \in Writers(f), WritesBack(Block(m))
                PROVE  FALSE
            <6>1. MayMix(f)
              BY <1>3, <3>5, <4>1, <5>1, WritersMix
            <6> QED
              BY <6>1, ExcusesStay
          <5> QED
            BY <5>1
        <4>4. old = 0
          BY <4>3
        <4> HIDE DEF old
        <4> QED
          BY <1>1, <1>3, <3>1, <3>2, <3>3, <4>1, <4>2, <4>4
      <3> HIDE DEF old
      <3>6. Count(TextOf(f)', q) <= Allowed(n, i)'
        BY <1>1, <1>3, <3>1, <3>2, <3>3, <3>4
      <3> QED
        BY <2>2, <2>6, <3>5, <3>6
    <2> QED
      BY <2>0, <2>3, <2>4, <2>5, <2>6, OnFile
  <1> QED
    BY <1>6, <1>7

\* Attempts add up: however often a node is tried and whatever other agents read, empty
\* and write back meanwhile, whether they finish or not, a file has no edit of a block
\* more often than the node had attempts, unless unordered nodes both rewrite it.
THEOREM EditsAddUp == Spec => []EditsAtMostOncePerAttempt
  <1>1. Init => OrderInv /\ CountInv
    <2> SUFFICES ASSUME Init PROVE OrderInv /\ CountInv
      OBVIOUS
    <2>1. Running = {} /\ \A n \in Node : /\ status[n] \notin {"in_progress", "completed"}
                                          /\ attempts[n] = 0
      BY NoElements DEF Init, Running
    <2>2. ASSUME NEW n \in Node, NEW i \in DOMAIN Blocks[n], IsFileBlock(n, i)
          PROVE  /\ Count(TextOf(Blocks[n][i].target), <<n, i>>) = 0 /\ Allowed(n, i) = 0
      <3>1. TextOf(Blocks[n][i].target) = <<>>
        BY <2>2, FileBlock DEF TextOf, IsThere, Init
      <3> QED
        BY <2>1, <2>2, <3>1, FileBlock, NothingWritten DEF Allowed
    <2> QED
      BY <2>1, <2>2 DEF OrderInv, CountInv, Readers, Writers
  <1>2. TypeInv /\ CountInv => EditsAtMostOncePerAttempt
    <2> SUFFICES ASSUME TypeInv, CountInv,
                        NEW n \in Node, NEW i \in DOMAIN Blocks[n], IsFileBlock(n, i),
                        ~MayMix(Blocks[n][i].target)
                 PROVE  LET f == Blocks[n][i].target
                        IN  IsThere(f) => Cardinality(Occurrences(fs[f], <<n, i>>)) <= attempts[n]
      BY DEF EditsAtMostOncePerAttempt
    <2> DEFINE f == Blocks[n][i].target
    <2>1. f \in File /\ <<n, i>> \in Piece
      BY FileBlock
    <2>2. TextOf(f) \in Text /\ Occurrences(fs[f], <<n, i>>) = Occurrences(TextOf(f), <<n, i>>)
      BY <2>1, OnDisk
    <2>3. Count(TextOf(f), <<n, i>>) <= Allowed(n, i)
      BY DEF CountInv
    <2>4. Count(TextOf(f), <<n, i>>) \in Nat /\ attempts[n] \in Nat
      BY <2>2, PositionsAreFinite DEF TypeInv
    <2>5. Count(TextOf(f), <<n, i>>) <= attempts[n]
      BY <2>3, <2>4 DEF Allowed
    <2> QED
      BY <2>2, <2>5 DEF Count
  <1> QED
    BY <1>1, <1>2, OrderStays, CountsStay, AlwaysTyped, PTL DEF Spec

-------------------------------------------------------------------------------
(***************************************************************************)
(* The edits of completed nodes                                            *)
(***************************************************************************)
\* An agent that has answered without an error has been through all its blocks.
DoneInv ==
    \A n \in Node :
        status[n] = "completed" \/ (n \in Running /\ agent[n].phase = "done" /\ agent[n].ok) =>
            agent[n].block > Len(Blocks[n])

LEMMA DoneStays == TypeInv /\ TypeInv' /\ BlockInv /\ DoneInv /\ [Next]_vars => DoneInv'
  <1> SUFFICES ASSUME TypeInv, TypeInv', BlockInv, DoneInv, [Next]_vars, NEW n \in Node,
                      \/ status'[n] = "completed"
                      \/ n \in Running' /\ agent'[n].phase = "done" /\ agent'[n].ok
               PROVE  agent'[n].block > Len(Blocks[n])
    BY DEF DoneInv, Running
  <1>1. CASE status[n] = "completed"
    BY <1>1, CompletedStays DEF DoneInv
  <1>2. CASE status[n] # "completed" /\ status'[n] = "completed"
    BY <1>2, OnlyRecorded DEF DoneInv
  <1>3. CASE status'[n] # "completed" /\ agent'[n] = agent[n] /\ n \in Running
    BY <1>3 DEF DoneInv
  <1>4. CASE status'[n] # "completed" /\ ~(agent'[n] = agent[n] /\ n \in Running)
    <2>1. ~StartBatch
      BY <1>4, StartFacts, NewAgentType
    <2>2. ~RecordResult
      BY <1>4, RecordFacts
    <2>3. ASSUME NEW m \in Node, Retry(m) \/ Release(m)
          PROVE  FALSE
      BY <1>4, <2>3, UserFacts
    <2>4. ~UNCHANGED vars /\ ~Crash
      BY <1>4, CrashFacts DEF vars, Running
    <2>5. PICK m \in Node : AgentStep(m)
      BY <2>1, <2>2, <2>3, <2>4 DEF Next
    <2>6. AgentDoes(m)
      BY <2>5, AgentSteps
    <2>7. m = n /\ agent'[n].phase = "done" /\ agent'[n].ok
      BY <1>4, <2>6, OnlyItsAgent DEF OnlyAgent
    <2>8. ~EmptiesFile(n)
      BY <2>7 DEF EmptiesFile, TypeInv, Agent
    <2> QED
      BY <2>6, <2>7, <2>8 DEF AgentDoes, PutsPiece, ReadsText, DropsText, TouchesNothing
  <1> QED
    BY <1>1, <1>2, <1>3, <1>4

\* The blocks that a running or completed node has been through are in their file, or in
\* what an agent is about to write there, and in all that agents have read of it, unless
\* a block is there that may take them away or a rewrite that stopped has dropped them.
Applied(n, i) ==
    ((n \in Running /\ agent[n].ok) \/ status[n] = "completed") /\ agent[n].block > i

Excused(n, i) == MayErase(n, i) \/ MayMix(Blocks[n][i].target) \/ <<n, i>> \in lost

Kept(f, q) ==
    /\ q \in ToSet(TextOf(f)) \/ \E m \in Writers(f) : q \in ToSet(agent[m].buffer)
    /\ \A m \in Readers(f) : Block(m).action # "full" => q \in ToSet(agent[m].buffer)

SurviveInv ==
    \A n \in Node : \A i \in DOMAIN Blocks[n] : IsFileBlock(n, i) /\ Applied(n, i) =>
        Excused(n, i) \/ Kept(Blocks[n][i].target, <<n, i>>)

\* Before a block has been gone through there is the step that puts its piece in.
LEMMA BecomesApplied ==
    ASSUME TypeInv, TypeInv', BlockInv, [Next]_vars, NEW n \in Node,
           NEW i \in DOMAIN Blocks[n], IsFileBlock(n, i), ~Applied(n, i), Applied(n, i)'
    PROVE  PutsPiece(n) /\ agent[n].block = i /\ AgentStep(n)
  <1>0. /\ i \in Nat \ {0} /\ ~IsCommand(n, i) /\ agent[n].block \in Nat /\ agent'[n].block \in Nat
        /\ i <= Len(Blocks[n]) /\ DOMAIN Blocks[n] = 1 .. Len(Blocks[n])
    <2>1. agent[n] \in Agent /\ agent'[n] \in Agent
      BY DEF TypeInv
    <2>2. agent[n].block \in Nat /\ agent'[n].block \in Nat
      BY <2>1 DEF Agent
    <2>3. DOMAIN Blocks[n] = 1 .. Len(Blocks[n]) /\ Len(Blocks[n]) \in Nat
      BY BlocksAreLists
    <2>4. ~IsCommand(n, i)
      BY FileBlock
    <2>5. i \in 1 .. Len(Blocks[n])
      BY <2>3
    <2>6. i \in Nat \ {0} /\ i <= Len(Blocks[n])
      BY <2>3, <2>5
    <2> QED
      BY <2>2, <2>3, <2>4, <2>6
  <1>1. status[n] # "completed"
    <2>1. ASSUME status[n] = "completed"
          PROVE  FALSE
      BY <2>1, CompletedStays DEF Applied
    <2> QED
      BY <2>1
  <1>2. status'[n] # "completed"
    <2>1. ASSUME status'[n] = "completed"
          PROVE  FALSE
      <3>1. n \in Running /\ agent[n].ok /\ agent'[n] = agent[n]
        BY <1>1, <2>1, OnlyRecorded
      <3> QED
        BY <3>1 DEF Applied
    <2> QED
      BY <2>1
  <1>3. n \in Running' /\ agent'[n].ok /\ agent'[n].block > i
    BY <1>2 DEF Applied
  <1>4. ~StartBatch
    BY <1>0, <1>3, StartFacts, NewAgentType
  <1>5. ~(Running' \subseteq Running /\ UNCHANGED agent)
    BY <1>3 DEF Applied
  <1>6. ~RecordResult /\ ~Crash
    BY <1>3, <1>5, RecordFacts, CrashFacts
  <1>7. ASSUME NEW m \in Node, Retry(m) \/ Release(m)
        PROVE  FALSE
    BY <1>3, <1>7, UserFacts
  <1>8. ~UNCHANGED vars
    BY <1>5 DEF vars, Running
  <1>9. PICK m \in Node : AgentStep(m)
    BY <1>4, <1>6, <1>7, <1>8 DEF Next
  <1>10. AgentDoes(m)
    BY <1>9, AgentSteps
  <1>11. OnlyAgent(m) /\ Running' = Running
    BY <1>10, OnlyItsAgent
  <1>12. ~(agent[n].ok /\ agent[n].block > i)
    BY <1>3, <1>11 DEF Applied
  <1>13. m = n
    BY <1>3, <1>11, <1>12 DEF OnlyAgent
  <1>14. ~EmptiesFile(n) /\ ~DropsText(n) /\ ~ReadsText(n)
    <2>1. EmptiesFile(n) => agent'[n].block = agent[n].block /\ agent'[n].ok = agent[n].ok
      BY AgentFacts DEF EmptiesFile, Agent
    <2> QED
      BY <1>3, <1>12, <2>1 DEF DropsText, ReadsText
  <1>15. PutsPiece(n) \/ TouchesNothing(n)
    BY <1>10, <1>13, <1>14 DEF AgentDoes
  <1>16. agent[n].ok
    BY <1>3, <1>15 DEF PutsPiece, TouchesNothing
  <1>17. agent[n].block = i /\ agent'[n].block = agent[n].block + 1
    BY <1>0, <1>3, <1>12, <1>15, <1>16 DEF PutsPiece, TouchesNothing
  <1>18. ~TouchesNothing(n)
    BY <1>0, <1>17 DEF TouchesNothing
  <1> QED
    BY <1>9, <1>13, <1>15, <1>17, <1>18

\* What has been dropped is applied again before it is there.
LEMMA LostStays ==
    ASSUME TypeInv, BlockInv, [Next]_vars, NEW q \in lost
    PROVE  q \in lost' \/ \E n \in Node : PutsPiece(n) /\ q = Own(n)
  <1>1. CASE ~\E m \in Node : AgentStep(m)
    BY <1>1, BetweenSteps, CrashFacts
  <1>2. ASSUME NEW m \in Node, AgentStep(m)
        PROVE  q \in lost' \/ (PutsPiece(m) /\ q = Own(m))
    <2>1. AgentDoes(m)
      BY <1>2, AgentSteps
    <2> QED
      BY <2>1 DEF AgentDoes, ReadsText, EmptiesFile, PutsPiece, DropsText, TouchesNothing
  <1> QED
    BY <1>1, <1>2

\* A block that runs takes the text of another one away only if it is one of its erasers.
LEMMA RunningErases ==
    ASSUME TypeInv, BlockInv, OrderInv, NEW n \in Node, NEW i \in DOMAIN Blocks[n],
           IsFileBlock(n, i), NEW m \in Running,
           IsFileBlock(m, agent[m].block), Block(m).target = Blocks[n][i].target,
           \/ Block(m).action = "full" /\ <<m, agent[m].block>> # <<n, i>>
           \/ Block(m).action = "replace" /\ Block(m).at = <<n, i>>
           \/ Block(m).action # "append" /\ Unordered(n, m)
    PROVE  MayErase(n, i)
  <1>1. m \in Node
    BY ElementsOf DEF TypeInv, Running
  <1>2. attempts[m] > 0 /\ agent[m].block \in DOMAIN Blocks[m]
    BY <1>1 DEF TypeInv, IsFileBlock
  <1>3. m \in Erasers[n][i]
    BY <1>1, <1>2 DEF Erasers, Block
  <1> QED
    BY <1>2, <1>3 DEF MayErase

\* No agent is writing a file that one has found missing, and `create` has read nothing.
LEMMA CreateReadsNothing ==
    ASSUME BlockInv, NEW f, NEW m \in Readers(f), Block(m).action = "create"
    PROVE  ToSet(agent[m].buffer) = {}
  BY DEF BlockInv, Readers, EditFits, ToSet

LEMMA ReadersKeep ==
    ASSUME TypeInv, BlockInv, NEW f, NEW m \in Readers(f)
    PROVE  /\ m \in Running /\ m \in Node /\ Block(m).target = f
           /\ IsFileBlock(m, agent[m].block) /\ Block(m).action # "append"
           /\ agent[m].block \in DOMAIN Blocks[m]
           /\ Block(m).action \in {"create", "full"} \/ WritesBack(Block(m))
  <1>1. /\ m \in Running /\ m \in Node /\ Block(m).target = f
        /\ IsFileBlock(m, agent[m].block) /\ Block(m).action # "append"
    BY ReadersRead DEF Readers, BlockInv
  <1>2. agent[m].block \in DOMAIN Blocks[m] /\ Block(m).action \in FileAction
    BY <1>1 DEF IsFileBlock, Block
  <1> QED
    BY <1>1, <1>2 DEF FileAction, WritesBack

LEMMA AppendKeeps ==
    ASSUME NEW text \in Text, NEW p \in Piece, NEW q
    PROVE  /\ p \in ToSet(Append(text, p))
           /\ q \in ToSet(text) => q \in ToSet(Append(text, p))
  <1> DEFINE new == Append(text, p)
  <1>1. IsPutIn(text, Len(text) + 1, p, new)
    BY PuttingIn
  <1> HIDE DEF new
  <1>2. /\ Occurrences(new, p) # {}
        /\ Occurrences(text, q) # {} => Occurrences(new, q) # {}
    BY <1>1, PutInKeeps
  <1> QED
    BY <1>2 DEF ToSet, Occurrences, new

\* What an agent's step leaves of a piece that is kept.
LEMMA StepKeeps ==
    ASSUME TypeInv, TypeInv', BlockInv, BlockInv', OrderInv, NEW m \in Node, AgentDoes(m),
           NEW n \in Node, NEW i \in DOMAIN Blocks[n], IsFileBlock(n, i), Applied(n, i),
           ~MayErase(n, i), ~MayMix(Blocks[n][i].target), <<n, i>> \notin lost',
           Kept(Blocks[n][i].target, <<n, i>>)
    PROVE  Kept(Blocks[n][i].target, <<n, i>>)'
  <1> DEFINE f == Blocks[n][i].target
             q == <<n, i>>
  <1>1. f \in File /\ q \in Piece /\ i \in Nat
    BY FileBlock
  <1>2. /\ \A x \in Node \ {m} :
              /\ agent'[x] = agent[x] /\ Block(x)' = Block(x)
              /\ x \in Readers(f)' <=> x \in Readers(f)
              /\ x \in Writers(f)' <=> x \in Writers(f)
        /\ Readers(f)' \subseteq Node /\ Writers(f)' \subseteq Readers(f)'
        /\ Readers(f) \subseteq Node /\ Writers(f) \subseteq Readers(f)
        /\ m \in Running
    <2>1. Readers(f)' \subseteq Node /\ Writers(f)' \subseteq Readers(f)'
      BY ElementsOf DEF TypeInv, Readers, Writers, Running
    <2> QED
      BY <1>1, <2>1, OnFile, ReadersRead, OnlyItsAgent
  <1>3. <<m, agent[m].block>> # q
    <2>1. agent[n].block > i /\ agent[n].block \in Nat
      BY AgentFacts DEF Applied
    <2> QED
      BY <1>1, <2>1
  \* A block that rewrites the file is not one that takes the piece away.
  <1>4. ASSUME IsFileBlock(m, agent[m].block), Block(m).target = f
        PROVE  Block(m).action # "full" /\ ~(Block(m).action = "replace" /\ Block(m).at = q)
    BY <1>2, <1>3, <1>4, RunningErases
  <1>5. ASSUME NEW w \in Writers(f), q \in ToSet(agent[w].buffer)
        PROVE  WritesBack(Block(w))
    <2>1. w \in Readers(f) /\ w \in Node
      BY <1>2
    <2>2. <<w, agent[w].block>> # q
      <3>1. agent[n].block > i /\ agent[n].block \in Nat
        BY AgentFacts DEF Applied
      <3> QED
        BY <1>1, <3>1
    <2>3. Block(w).action # "full"
      BY <2>1, <2>2, ReadersKeep, RunningErases
    <2>4. Block(w).action # "create"
      BY <1>5, <2>1, CreateReadsNothing
    <2> QED
      BY <2>1, <2>3, <2>4, ReadersKeep
  <1>6. q \in ToSet(TextOf(f)) \/ \E w \in Writers(f) : q \in ToSet(agent[w].buffer)
    BY DEF Kept
  <1>7. \A x \in Readers(f)' : x # m /\ Block(x)'.action # "full" => q \in ToSet(agent'[x].buffer)
    BY <1>2 DEF Kept
  <1>8. CASE TextOf(f)' = TextOf(f) /\ m \notin Readers(f)' /\ m \notin Writers(f)
    <2>1. q \in ToSet(TextOf(f)') \/ \E w \in Writers(f)' : q \in ToSet(agent'[w].buffer)
      BY <1>2, <1>6, <1>8
    <2> QED
      BY <1>7, <1>8, <2>1 DEF Kept
  <1>9. CASE /\ ReadsText(m) /\ Block(m).target = f /\ TextOf(f)' = TextOf(f)
             /\ m \notin Writers(f) /\ m \notin Writers(f)' /\ Block(m)' = Block(m)
    <2>1. q \in ToSet(TextOf(f)') \/ \E w \in Writers(f)' : q \in ToSet(agent'[w].buffer)
      BY <1>2, <1>6, <1>9
    <2>2. agent'[m].buffer = TextOf(f) /\ IsFileBlock(m, agent[m].block)
      BY <1>9 DEF ReadsText
    <2>3. q \in ToSet(TextOf(f))
      <3>1. ASSUME NEW w \in Writers(f), q \in ToSet(agent[w].buffer)
            PROVE  FALSE
        <4>1. WritesBack(Block(w)) /\ w \in Readers(f) /\ w # m
          BY <1>2, <1>5, <1>9, <3>1
        <4>2. IsThere(f) /\ w \in Running /\ w \in Node
          BY <4>1, ReadersKeep DEF BlockInv, Writers
        <4>3. Block(m).action # "create"
          BY <1>9, <4>2 DEF ReadsText
        <4>4. Block(m).action # "append" /\ Block(m).action # "full"
          BY <1>4, <1>9, <2>2 DEF ReadsText
        <4>5. Block(m).action \in FileAction
          BY <2>2 DEF IsFileBlock, Block
        <4>6. WritesBack(Block(m))
          BY <4>3, <4>4, <4>5 DEF FileAction, WritesBack
        <4>7. m \in Rewriters[f] /\ w \in Rewriters[f]
          <5>1. agent[m].block \in DOMAIN Blocks[m] /\ agent[w].block \in DOMAIN Blocks[w]
                /\ Block(w).target = f
            BY <2>2, <4>1, ReadersKeep DEF IsFileBlock
          <5> QED
            BY <1>1, <1>9, <4>1, <4>2, <4>6, <5>1 DEF Rewriters, Block
        <4>8. Unordered(m, w) /\ attempts[m] > 0 /\ attempts[w] > 0
          BY <1>2, <4>1, <4>2, BatchIsUnordered DEF TypeInv
        <4> QED
          BY <4>7, <4>8 DEF MayMix
      <3> QED
        BY <1>6, <3>1
    <2> QED
      BY <1>7, <2>1, <2>2, <2>3 DEF Kept
  <1>10. CASE /\ EmptiesFile(m) /\ Block(m).target = f /\ TextOf(f)' = <<>>
              /\ m \in Readers(f) /\ m \in Writers(f)'
              /\ agent'[m].buffer = agent[m].buffer /\ Block(m)' = Block(m)
    <2>1. IsFileBlock(m, agent[m].block)
      BY <1>10 DEF EmptiesFile
    <2>2. q \in ToSet(agent'[m].buffer)
      BY <1>4, <1>10, <2>1 DEF Kept
    <2> QED
      BY <1>7, <1>10, <2>2 DEF Kept
  <1>11. CASE /\ PutsPiece(m) /\ Block(m).target = f /\ m \notin Readers(f)'
              /\ Block(m).action = "append" /\ m \notin Writers(f)
              /\ TextOf(f)' = Append(TextOf(f), Own(m))
    <2>1. TextOf(f) \in Text /\ Own(m) \in Piece
      BY <1>1, OnDisk, AgentFacts
    <2>2. q \in ToSet(TextOf(f)) => q \in ToSet(TextOf(f)')
      BY <1>11, <2>1, AppendKeeps
    <2>3. q \in ToSet(TextOf(f)') \/ \E w \in Writers(f)' : q \in ToSet(agent'[w].buffer)
      BY <1>2, <1>6, <1>11, <2>2
    <2> QED
      BY <1>7, <1>11, <2>3 DEF Kept
  <1>12. CASE /\ m \in Writers(f) /\ Block(m).target = f /\ m \notin Readers(f)'
              /\ \/ PutsPiece(m) /\ TextOf(f)' \in Whole(m)
                 \/ /\ DropsText(m)
                    /\ lost' = lost \cup (ToSet(agent[m].buffer) \ ToSet(TextOf(f)'))
    <2>1. m \in Readers(f) /\ IsFileBlock(m, agent[m].block) /\ agent[m].phase = "writing"
      BY <1>2, <1>12, ReadersKeep DEF Writers
    <2>2. q \in ToSet(agent[m].buffer)
      BY <1>4, <1>12, <2>1 DEF Kept
    <2>3. q \in ToSet(TextOf(f)')
      <3>1. CASE TextOf(f)' \in Whole(m)
        BY <1>2, <1>4, <1>12, <2>1, <2>2, <3>1, WritesOf
      <3> QED
        BY <1>12, <2>2, <3>1
    <2> QED
      BY <1>7, <1>12, <2>3 DEF Kept
  <1> QED
    BY <1>1, <1>8, <1>9, <1>10, <1>11, <1>12, OnFile

LEMMA EditsStay ==
    TypeInv /\ TypeInv' /\ BlockInv /\ BlockInv' /\ OrderInv /\ SurviveInv /\ [Next]_vars => SurviveInv'
  <1> SUFFICES ASSUME TypeInv, TypeInv', BlockInv, BlockInv', OrderInv, SurviveInv, [Next]_vars,
                      NEW n \in Node, NEW i \in DOMAIN Blocks[n], IsFileBlock(n, i),
                      Applied(n, i)', ~Excused(n, i)'
               PROVE  Kept(Blocks[n][i].target, <<n, i>>)'
    BY DEF SurviveInv, IsFileBlock
  <1> DEFINE f == Blocks[n][i].target
             q == <<n, i>>
  <1>1. f \in File /\ q \in Piece /\ i \in Nat
    BY FileBlock
  <1>2. ~MayErase(n, i) /\ ~MayMix(f) /\ q \notin lost'
    BY <1>1, ExcusesStay DEF Excused
  <1>3. CASE Applied(n, i)
    <2>1. Kept(f, q)
      <3>1. ASSUME q \in lost
            PROVE  FALSE
        <4>1. PICK m \in Node : PutsPiece(m) /\ q = Own(m)
          BY <1>2, <3>1, LostStays
        <4>2. m = n /\ agent[n].block = i
          BY <4>1, AgentFacts
        <4> QED
          BY <1>1, <1>3, <4>2 DEF Applied
      <3> QED
        BY <1>2, <1>3, <3>1 DEF SurviveInv, Excused
    <2>2. ASSUME NEW m \in Node, AgentStep(m)
          PROVE  Kept(f, q)'
      BY <1>2, <1>3, <2>1, <2>2, AgentSteps, StepKeeps
    <2>3. CASE Crash
      <3>1. ASSUME NEW m \in Writers(f), q \in ToSet(agent[m].buffer), q \notin ToSet(TextOf(f))
            PROVE  q \in lost'
        <4>1. m \in Readers(f) /\ agent[m].phase = "writing"
          BY ReadersRead DEF Writers
        <4>2. m \in Node /\ AtBlock(m, "writing") /\ Block(m).target = f
          BY <4>1, ReadersKeep DEF AtBlock, Working, Running
        <4>3. q \in InHand(m)
          BY <3>1, <4>2 DEF InHand
        <4> QED
          BY <2>3, <4>2, <4>3, CrashFacts
      <3>2. TextOf(f)' = TextOf(f) /\ Readers(f)' = {} /\ Writers(f)' = {}
        BY <2>3, CrashFacts DEF TextOf, IsThere, Readers, Writers
      <3> QED
        BY <1>2, <2>1, <3>1, <3>2 DEF Kept
    <2>4. CASE ~Crash /\ ~\E m \in Node : AgentStep(m)
      <3>1. /\ TextOf(f)' = TextOf(f) /\ Readers(f)' \subseteq Readers(f)
            /\ \A m \in Readers(f)' : agent'[m] = agent[m] /\ Block(m)' = Block(m)
            /\ Writers(f) # {} => UNCHANGED vars
        BY <2>4, BetweenSteps
      <3>2. Writers(f) # {} => Writers(f)' = Writers(f) /\ UNCHANGED agent
        BY <3>1 DEF vars, Writers, Running, Block
      <3> QED
        BY <2>1, <3>1, <3>2 DEF Kept
    <2> QED
      BY <2>2, <2>3, <2>4
  <1>4. CASE ~Applied(n, i)
    <2>1. PutsPiece(n) /\ agent[n].block = i /\ AgentDoes(n)
      BY <1>4, BecomesApplied, AgentSteps
    <2>2. n \in Running /\ Running' = Running /\ Block(n).target = f /\ Own(n) = q
      BY <2>1, OnlyItsAgent DEF Own, Block
    <2>3. /\ n \notin Readers(f)' /\ \A m \in Node \ {n} : m \in Readers(f)' => m \in Readers(f)
          /\ \/ TextOf(f)' = Append(TextOf(f), Own(n))
             \/ n \in Writers(f) /\ TextOf(f)' \in Whole(n)
      <3>1. n \notin Readers(f)' /\ \A m \in Node \ {n} : m \in Readers(f)' => m \in Readers(f)
        <4>1. n \notin Readers(f)'
          BY <2>1 DEF PutsPiece, Readers
        <4> QED
          BY <1>1, <2>1, <4>1, OnFile
      <3>2. PICK new \in Text :
               /\ fs' = [fs EXCEPT ![f] = new]
               /\ \/ new = Append(TextOf(f), Own(n))
                  \/ agent[n].phase = "writing" /\ new \in Whole(n)
        BY <2>1, <2>2 DEF PutsPiece
      <3>3. new # NoFile /\ fs'[f] = new
        BY <1>1, <3>2, NothingWritten DEF TypeInv
      <3>4. TextOf(f)' = new
        BY <3>3 DEF TextOf, IsThere
      <3> QED
        BY <2>2, <3>1, <3>2, <3>4 DEF Writers
    <2>4. q \in ToSet(TextOf(f)')
      <3>1. CASE n \in Writers(f) /\ TextOf(f)' \in Whole(n)
        <4>1. agent[n].phase = "writing"
          BY <3>1 DEF Writers
        <4> QED
          BY <2>2, <3>1, <4>1, WritesOf
      <3>2. CASE TextOf(f)' = Append(TextOf(f), Own(n))
        <4>1. TextOf(f) \in Text /\ Own(n) \in Piece
          BY <1>1, OnDisk, AgentFacts
        <4> QED
          BY <2>2, <3>2, <4>1, AppendKeeps
      <3> QED
        BY <2>3, <3>1, <3>2
    <2>5. ASSUME NEW m \in Readers(f)'
          PROVE  FALSE
      <3>1. m \in Node /\ m # n
        BY <2>3, ElementsOf DEF Readers, Running, TypeInv
      <3>2. m \in Readers(f)
        BY <2>3, <3>1
      <3>3. /\ m \in Running /\ Block(m).target = f /\ IsFileBlock(m, agent[m].block)
            /\ Block(m).action # "append"
        BY <3>2, ReadersKeep
      <3>4. Unordered(n, m)
        BY <2>2, <3>1, <3>3, BatchIsUnordered
      <3> QED
        BY <1>2, <3>3, <3>4, RunningErases
    <2> QED
      BY <2>4, <2>5 DEF Kept
  <1> QED
    BY <1>3, <1>4

\* What a completed node has written is in the working directory, for every file, every
\* list of blocks and every interleaving of the agents of a batch, whatever write fails
\* and wherever a run is killed, unless some block replaces it, unordered nodes rewrite
\* the file, or a rewrite that has emptied the file stopped before it had written it
\* back.  It rests on the order of nodes: only nodes of one batch can have read the file
\* before, and those are unordered; and on what the others see while the file is empty.
THEOREM CompletedEditsStay == Spec => []CompletedEditsSurvive
  <1>1. Init => OrderInv /\ DoneInv /\ SurviveInv
    <2> SUFFICES ASSUME Init PROVE OrderInv /\ DoneInv /\ SurviveInv
      OBVIOUS
    <2>1. Running = {} /\ \A n \in Node : /\ status[n] \notin {"in_progress", "completed"}
                                          /\ attempts[n] = 0
      BY NoElements DEF Init, Running
    <2> QED
      BY <2>1 DEF OrderInv, DoneInv, SurviveInv, Applied
  <1>2. TypeInv /\ BlockInv /\ DoneInv /\ SurviveInv => CompletedEditsSurvive
    <2> SUFFICES ASSUME TypeInv, BlockInv, DoneInv, SurviveInv,
                        NEW n \in Node, status[n] = "completed",
                        NEW i \in DOMAIN Blocks[n], IsFileBlock(n, i), ~Excused(n, i)
                 PROVE  LET f == Blocks[n][i].target
                        IN  IsBeingWritten(f, <<n, i>>) \/ HasText(f, <<n, i>>)
      BY DEF CompletedEditsSurvive, Excused
    <2> DEFINE f == Blocks[n][i].target
               q == <<n, i>>
    <2>1. f \in File /\ q \in Piece
      BY FileBlock
    <2>2. Applied(n, i)
      <3>1. agent[n].block > Len(Blocks[n]) /\ i \in 1 .. Len(Blocks[n])
            /\ Len(Blocks[n]) \in Nat /\ agent[n].block \in Nat
        BY BlocksAreLists, AgentFacts DEF DoneInv
      <3> QED
        BY <3>1 DEF Applied
    <2>3. Kept(f, q)
      BY <2>2 DEF SurviveInv
    <2>4. ASSUME NEW m \in Writers(f), q \in ToSet(agent[m].buffer)
          PROVE  IsBeingWritten(f, q)
      <3>1. m \in Readers(f) /\ agent[m].phase = "writing"
        BY ReadersRead DEF Writers
      <3>2. m \in Node /\ AtBlock(m, "writing") /\ Block(m).target = f
        BY <3>1, ReadersKeep DEF AtBlock, Working, Running
      <3> QED
        BY <2>4, <3>2 DEF IsBeingWritten
    <2>5. q \in ToSet(TextOf(f)) => HasText(f, q)
      BY <2>1, OnDisk
    <2> QED
      BY <2>3, <2>4, <2>5 DEF Kept
  <1> QED
    BY <1>1, <1>2, OrderStays, DoneStays, EditsStay, AlwaysTyped, PTL DEF Spec

-------------------------------------------------------------------------------
(***************************************************************************)
(* The time of a node                                                      *)
(***************************************************************************)
\* the sums that Total goes through
Sums(w) == CHOOSE f : IsSumOf(f, w, Len(w))

LEMMA TotalIsSum ==
    ASSUME NEW c \in Nat, NEW w \in [1 .. c -> Nat]
    PROVE  Total(w) = Sums(w)[c] /\ IsSumOf(Sums(w), w, c)
  <1>1. w \in Seq(Nat) /\ Len(w) = c
    BY SeqDef, LenProperties
  <1>2. \E f : IsSumOf(f, w, Len(w))
    BY <1>1, SumsExist
  <1>3. IsSumOf(Sums(w), w, Len(w))
    BY <1>2 DEF Sums
  <1>4. Total(w) = Sums(w)[Len(w)]
    BY DEF Total, Sums, IsSumOf
  <1> QED
    BY <1>1, <1>3, <1>4

NeedsOf(n) == [k \in DOMAIN Blocks[n] |-> Needs(Blocks[n][k])]

\* UpTo(n)[k] is the time that the first k blocks of n need.
UpTo(n) == Sums(NeedsOf(n))

LEMMA TimesAddUp ==
    ASSUME NEW n \in Node
    PROVE  /\ TimeNeeded(n) = UpTo(n)[Len(Blocks[n])] /\ UpTo(n)[0] = 0
           /\ \A k \in 0 .. Len(Blocks[n]) :
                 UpTo(n)[k] \in Nat /\ UpTo(n)[k] <= TimeNeeded(n)
           /\ \A k \in 1 .. Len(Blocks[n]) :
                 /\ Needs(Blocks[n][k]) \in Nat
                 /\ UpTo(n)[k] = UpTo(n)[k - 1] + Needs(Blocks[n][k])
  <1> DEFINE c == Len(Blocks[n])
             w == NeedsOf(n)
  <1>1. c \in Nat /\ \A k \in 1 .. c : Needs(Blocks[n][k]) \in Nat
    BY BlocksAreLists DEF Needs
  <1>2. w \in [1 .. c -> Nat] /\ \A k \in 1 .. c : w[k] = Needs(Blocks[n][k])
    BY <1>1, BlocksAreLists DEF NeedsOf
  <1>3. TimeNeeded(n) = Total(w)
    BY DEF TimeNeeded, NeedsOf
  <1> HIDE DEF w, c
  <1>4. Total(w) = UpTo(n)[c] /\ IsSumOf(UpTo(n), w, c)
    BY <1>1, <1>2, TotalIsSum DEF UpTo, w
  <1>5. /\ UpTo(n)[0] = 0 /\ \A k \in 0 .. c : UpTo(n)[k] \in Nat
        /\ \A k \in 1 .. c : UpTo(n)[k] = UpTo(n)[k - 1] + w[k]
        /\ \A j, k \in 0 .. c : j <= k => UpTo(n)[j] <= UpTo(n)[k]
    BY <1>1, <1>2, <1>4, SumsGrow
  <1>6. c \in 0 .. c /\ \A k \in 0 .. c : k <= c
    BY <1>1
  <1>7. \A k \in 0 .. c : UpTo(n)[k] <= UpTo(n)[c]
    BY <1>5, <1>6
  <1> QED
    BY <1>1, <1>2, <1>3, <1>4, <1>5, <1>7 DEF c

\* A working agent has spent what its earlier commands need and what the child that it
\* waits for has run, which is no more than that child needs; or the child has filled
\* its pipe, and then it never exits.
InTime(n, a) ==
    a.phase # "done" =>
        /\ a.phase \in {"next", "write", "writing"} => a.ran = 0
        /\ a.phase \in {"polling", "reading", "held"} =>
              Blocks[n][a.block].fills \/ a.ran <= Needs(Blocks[n][a.block])
        /\ a.phase \in {"reading", "held"} => ~Blocks[n][a.block].fills
        /\ \/ a.spent <= UpTo(n)[a.block - 1] + a.ran
           \/ a.phase = "polling" /\ Blocks[n][a.block].fills

TimeInv == \A n \in Running : InTime(n, agent[n])

\* Only a kill ends the wait for a child.
LEMMA TimeOfStep ==
    ASSUME TypeInv, BlockInv, NEW n \in Node, InTime(n, agent[n]), AgentStep(n)
    PROVE  /\ InTime(n, agent'[n])
           /\ agent[n].phase = "polling" /\ agent'[n].phase = "done" => Kill(n)
  <1> DEFINE i == agent[n].block
             b == Blocks[n][i]
  <1>1. /\ agent \in [Node -> Agent] /\ agent[n] \in Agent
        /\ Len(Blocks[n]) \in Nat /\ i \in 1 .. Len(Blocks[n]) + 1
    BY BlocksAreLists, AgentFacts DEF TypeInv
  <1>2. agent[n].spent \in Nat /\ agent[n].ran \in Nat /\ i \in Nat
    BY <1>1 DEF Agent
  <1>3. ASSUME NEW phase, AtBlock(n, phase)
        PROVE  /\ agent[n].phase = phase /\ phase # "done" /\ i \in 1 .. Len(Blocks[n])
               /\ Needs(b) \in Nat /\ UpTo(n)[i] = UpTo(n)[i - 1] + Needs(b)
               /\ UpTo(n)[i] \in Nat /\ UpTo(n)[i - 1] \in Nat
               /\ Block(n) = b
               /\ phase \in {"polling", "reading", "held"} => b.action = "command"
    <2>1. agent[n].phase = phase /\ i \in 1 .. Len(Blocks[n]) /\ Working(n) /\ n \in Running
      BY <1>3, AtFileBlock
    <2>2. i - 1 \in 0 .. Len(Blocks[n]) /\ i \in 0 .. Len(Blocks[n])
      BY <1>1, <2>1
    <2> QED
      BY <2>1, <2>2, TimesAddUp DEF Working, Block, BlockInv, IsCommand
  <1>4. /\ Proceed(n).spent = agent[n].spent /\ Proceed(n).ran = 0
        /\ Proceed(n).block = i + 1 /\ Proceed(n).phase = "next"
    BY <1>1 DEF Proceed, Agent
  <1>5. ASSUME agent' = [agent EXCEPT ![n] = Proceed(n)], i \in 1 .. Len(Blocks[n]),
               agent[n].spent <= UpTo(n)[i], UpTo(n)[i] \in Nat
        PROVE  InTime(n, agent'[n])
    <2>1. agent'[n] = Proceed(n)
      BY <1>1, <1>5
    <2>2. Proceed(n).spent <= UpTo(n)[Proceed(n).block - 1] + Proceed(n).ran
      BY <1>2, <1>4, <1>5
    <2> QED
      BY <1>4, <2>1, <2>2 DEF InTime
  <1>6. ASSUME GiveUp(n)
        PROVE  InTime(n, agent'[n])
    BY <1>1, <1>6, AgentFacts DEF GiveUp, InTime
  <1>7. CASE AppendBlock(n) \/ WriteTarget(n)
    <2>1. PICK phase \in {"next", "writing"} : AtBlock(n, phase)
      BY <1>7 DEF AppendBlock, WriteTarget
    <2>2. GiveUp(n) \/ agent' = [agent EXCEPT ![n] = Proceed(n)]
      BY <1>7 DEF AppendBlock, WriteTarget
    <2>3. agent[n].ran = 0 /\ agent[n].spent <= UpTo(n)[i - 1]
      BY <1>2, <1>3, <2>1 DEF InTime
    <2>4. agent[n].spent <= UpTo(n)[i]
      BY <1>2, <1>3, <2>1, <2>3
    <2> QED
      BY <1>3, <1>5, <1>6, <2>1, <2>2, <2>4
  <1>8. ASSUME NEW phase \in {"write", "polling"}, AtBlock(n, "next"),
               NEW a, agent' = [agent EXCEPT ![n] = a],
               a.phase = phase, a.block = i, a.ran = agent[n].ran, a.spent = agent[n].spent
        PROVE  InTime(n, agent'[n])
    <2>1. agent'[n] = a
      BY <1>1, <1>8
    <2>2. a.ran = 0 /\ a.spent <= UpTo(n)[a.block - 1] + a.ran /\ a.ran <= Needs(b)
      BY <1>2, <1>3, <1>8 DEF InTime
    <2> QED
      BY <1>8, <2>1, <2>2 DEF InTime
  <1>9. CASE ReadTarget(n)
    <2>1. AtBlock(n, "next")
      BY <1>9 DEF ReadTarget
    <2>2. CASE ~GiveUp(n)
      <3> DEFINE a == [agent[n] EXCEPT !.phase = "write", !.buffer = TextOf(Block(n).target)]
      <3>1. /\ a.phase = "write" /\ a.block = i /\ a.ran = agent[n].ran
            /\ a.spent = agent[n].spent
        BY <1>1 DEF Agent
      <3>2. agent' = [agent EXCEPT ![n] = a]
        BY <1>1, <1>9, <2>2 DEF ReadTarget
      <3> HIDE DEF a
      <3>3. InTime(n, agent'[n])
        BY <1>8, <2>1, <3>1, <3>2
      <3> QED
        BY <1>3, <2>1, <3>3
    <2> QED
      BY <1>3, <1>6, <2>1, <2>2
  <1>16. CASE EmptyTarget(n)
    <2>1. AtBlock(n, "write")
      BY <1>16 DEF EmptyTarget
    <2>2. CASE ~GiveUp(n)
      <3>1. agent'[n] = [agent[n] EXCEPT !.phase = "writing"]
        BY <1>1, <1>16, <2>2 DEF EmptyTarget
      <3>2. /\ agent'[n].phase = "writing" /\ agent'[n].block = i
            /\ agent'[n].ran = agent[n].ran /\ agent'[n].spent = agent[n].spent
        BY <1>1, <3>1 DEF Agent
      <3>3. agent[n].ran = 0 /\ agent[n].spent <= UpTo(n)[i - 1] + agent[n].ran
        BY <1>3, <2>1 DEF InTime
      <3> QED
        BY <1>3, <2>1, <3>2, <3>3 DEF InTime
    <2> QED
      BY <1>3, <1>6, <2>1, <2>2
  <1>10. CASE Spawn(n)
    <2>1. AtBlock(n, "next")
      BY <1>10 DEF Spawn
    <2> DEFINE a == [agent[n] EXCEPT !.phase = "polling"]
    <2>2. /\ a.phase = "polling" /\ a.block = i /\ a.ran = agent[n].ran
          /\ a.spent = agent[n].spent
      BY <1>1 DEF Agent
    <2>3. agent' = [agent EXCEPT ![n] = a]
      BY <1>1, <1>10 DEF Spawn
    <2> HIDE DEF a
    <2>4. InTime(n, agent'[n])
      BY <1>8, <2>1, <2>2, <2>3
    <2> QED
      BY <1>3, <2>1, <2>4
  <1>11. CASE Tick(n)
    <2>1. AtBlock(n, "polling") /\ ~HasExited(n)
      BY <1>11 DEF Tick
    <2> DEFINE a == [agent[n] EXCEPT !.spent = @ + 1, !.ran = @ + 1]
    <2>2. /\ a.phase = agent[n].phase /\ a.block = i /\ a.ran = agent[n].ran + 1
          /\ a.spent = agent[n].spent + 1
      BY <1>1 DEF Agent
    <2>3. agent' = [agent EXCEPT ![n] = a]
      BY <1>1, <1>11 DEF Tick
    <2> HIDE DEF a
    <2>4. agent'[n] = a /\ a.phase = "polling"
      BY <1>1, <1>3, <2>1, <2>2, <2>3
    <2>5. b.fills \/ a.ran <= Needs(b)
      BY <1>2, <1>3, <2>1, <2>2 DEF HasExited, Needs
    <2>6. b.fills \/ a.spent <= UpTo(n)[a.block - 1] + a.ran
      <3>1. b.fills \/ agent[n].spent <= UpTo(n)[i - 1] + agent[n].ran
        BY <1>3, <2>1 DEF InTime
      <3>2. agent[n].spent <= UpTo(n)[i - 1] + agent[n].ran
              => a.spent <= UpTo(n)[a.block - 1] + a.ran
        BY <1>2, <1>3, <2>1, <2>2
      <3> QED
        BY <3>1, <3>2
    <2> QED
      BY <2>2, <2>4, <2>5, <2>6 DEF InTime
  <1>12. CASE Kill(n)
    BY <1>6, <1>12 DEF Kill
  <1>13. CASE ChildExits(n)
    <2>1. AtBlock(n, "polling") /\ HasExited(n)
      BY <1>13 DEF ChildExits
    <2>2. PICK held \in Block(n).holds :
             agent' = [agent EXCEPT ![n].phase = IF held THEN "held" ELSE "reading"]
      BY <1>13 DEF ChildExits
    <2> DEFINE a == [agent[n] EXCEPT !.phase = IF held THEN "held" ELSE "reading"]
    <2>3. /\ a.phase \in {"held", "reading"} /\ a.block = i /\ a.ran = agent[n].ran
          /\ a.spent = agent[n].spent
      BY <1>1 DEF Agent
    <2>4. agent'[n] = a
      BY <1>1, <2>2
    <2> HIDE DEF a
    <2>5. ~b.fills
      BY <1>3, <2>1 DEF HasExited
    <2>6. a.ran <= Needs(b) /\ a.spent <= UpTo(n)[a.block - 1] + a.ran
      BY <1>3, <2>1, <2>3, <2>5 DEF InTime
    <2> QED
      BY <2>3, <2>4, <2>5, <2>6 DEF InTime
  <1>14. CASE ReadOutput(n)
    <2>1. AtBlock(n, "reading")
      BY <1>14 DEF ReadOutput
    <2>2. PICK code \in Block(n).exits :
             agent' = [agent EXCEPT ![n] = IF code = 0 THEN Proceed(n) ELSE Stop(n)]
      BY <1>14 DEF ReadOutput
    <2>3. ~b.fills /\ agent[n].phase = "reading"
      BY <1>3, <2>1 DEF InTime
    <2>4. agent[n].ran <= Needs(b) /\ agent[n].spent <= UpTo(n)[i - 1] + agent[n].ran
      BY <2>3 DEF InTime
    <2>5. agent[n].spent <= UpTo(n)[i]
      BY <1>2, <1>3, <2>1, <2>4
    <2>6. CASE code = 0
      BY <1>3, <1>5, <2>1, <2>2, <2>3, <2>5, <2>6
    <2>7. CASE code # 0
      BY <1>6, <2>2, <2>3, <2>7 DEF GiveUp
    <2> QED
      BY <2>6, <2>7
  <1>15. CASE Answer(n)
    <2>1. agent'[n] = [agent[n] EXCEPT !.phase = "done"] /\ agent[n].phase = "next"
      BY <1>1, <1>15 DEF Answer
    <2> QED
      BY <1>1, <2>1 DEF InTime, Agent
  <1> QED
    BY <1>3, <1>7, <1>9, <1>10, <1>11, <1>12, <1>13, <1>14, <1>15, <1>16
       DEF AgentStep, AppendBlock, WriteTarget

LEMMA TimeStays == TypeInv /\ BlockInv /\ TimeInv /\ [Next]_vars => TimeInv'
  <1> SUFFICES ASSUME TypeInv, BlockInv, TimeInv, [Next]_vars, NEW n \in Running'
               PROVE  InTime(n, agent'[n])
    BY DEF TimeInv
  <1>1. CASE StartBatch
    <2>1. agent'[n] = NewAgent /\ n \in Node
      <3>1. Running' \subseteq Ready /\ Ready \subseteq Node
        BY <1>1, StartFacts DEF Ready
      <3> QED
        BY <1>1, <3>1, StartFacts
    <2>2. UpTo(n)[0] = 0 /\ NewAgent.block - 1 = 0
      BY <2>1, TimesAddUp, NewAgentType
    <2>3. NewAgent.spent <= UpTo(n)[NewAgent.block - 1] + NewAgent.ran
      BY <2>2, NewAgentType
    <2> QED
      BY <2>1, <2>3, NewAgentType DEF InTime
  <1>2. CASE RecordResult
    BY <1>2, RecordFacts DEF TimeInv
  <1>3. ASSUME NEW m \in Node, Retry(m) \/ Release(m)
        PROVE  InTime(n, agent'[n])
    BY <1>3, UserFacts
  <1>4. ASSUME NEW m \in Node, AgentStep(m)
        PROVE  InTime(n, agent'[n])
    <2>2. OnlyAgent(m) /\ Running' = Running
      BY <1>4, AgentSteps, OnlyItsAgent
    <2>3. n \in Node /\ m \in Running
      BY <2>2, ElementsOf DEF Running, TypeInv, OnlyAgent
    <2>4. CASE n = m
      BY <1>4, <2>2, <2>4, TimeOfStep DEF TimeInv
    <2>5. CASE n # m
      BY <2>2, <2>3, <2>5 DEF OnlyAgent, TimeInv
    <2> QED
      BY <2>4, <2>5
  <1>5. CASE UNCHANGED vars
    BY <1>5 DEF vars, TimeInv, Running
  <1>6. CASE Crash
    BY <1>6, CrashFacts
  <1> QED
    BY <1>1, <1>2, <1>3, <1>4, <1>5, <1>6 DEF Next

LEMMA KillIsEarned ==
    ASSUME TypeInv, BlockInv, NEW n \in Running, n \in Node, InTime(n, agent[n]), Kill(n)
    PROVE  Block(n).fills \/ TimeNeeded(n) > Timeout
  <1> DEFINE i == agent[n].block
             b == Blocks[n][i]
  <1>1. AtBlock(n, "polling") /\ ~HasExited(n) /\ OverTime(n)
    BY DEF Kill
  <1>2. /\ agent[n].phase = "polling" /\ i \in 1 .. Len(Blocks[n]) /\ Block(n) = b
        /\ b.action = "command"
    BY <1>1, AtFileBlock DEF Block, BlockInv, IsCommand
  <1>3. agent[n].spent \in Nat /\ agent[n].ran \in Nat /\ Len(Blocks[n]) \in Nat
    BY AgentFacts, BlocksAreLists DEF Agent
  <1>4. /\ Needs(b) \in Nat /\ UpTo(n)[i] = UpTo(n)[i - 1] + Needs(b)
        /\ UpTo(n)[i - 1] \in Nat /\ UpTo(n)[i] <= TimeNeeded(n)
        /\ UpTo(n)[Len(Blocks[n])] \in Nat /\ TimeNeeded(n) = UpTo(n)[Len(Blocks[n])]
    <2>1. i - 1 \in 0 .. Len(Blocks[n]) /\ i \in 0 .. Len(Blocks[n])
          /\ Len(Blocks[n]) \in 0 .. Len(Blocks[n])
      BY <1>2, <1>3
    <2> QED
      BY <1>2, <2>1, TimesAddUp
  <1>5. ASSUME ~b.fills
        PROVE  TimeNeeded(n) > Timeout
    <2>1. agent[n].ran < Needs(b)
      BY <1>1, <1>2, <1>3, <1>4, <1>5 DEF HasExited, Needs
    <2>2. agent[n].spent <= UpTo(n)[i - 1] + agent[n].ran
      BY <1>2, <1>5 DEF InTime
    <2>3. agent[n].spent > Timeout
      BY <1>1 DEF OverTime
    <2> QED
      BY <1>3, <1>4, <2>1, <2>2, <2>3, NodeExecutionAssumption
  <1> QED
    BY <1>2, <1>5

\* An agent kills a command only when the commands of its node need more time than the
\* node has, or when the command has filled a pipe that is read after its exit: the
\* time that a node gets is for all its commands, and no wait costs more than the
\* child runs (agent.rs).
THEOREM KillsAreSound == Spec => KillsAreEarned
  <1>1. Init => TimeInv
    BY NoElements DEF Init, TimeInv, Running
  <1>2. ASSUME TypeInv, BlockInv, TimeInv, [Next]_vars, NEW n \in Node,
               agent[n].phase = "polling", agent'[n].phase = "done"
        PROVE  Block(n).fills \/ TimeNeeded(n) > Timeout
    <2>1. ~StartBatch
      BY <1>2, StartFacts, NewAgentType
    <2>2. agent' # agent
      BY <1>2
    <2>3. ~RecordResult /\ ~UNCHANGED vars /\ ~Crash
      <3>1. ASSUME RecordResult
            PROVE  agent' = agent
        BY <1>2, <3>1, RecordFacts
      <3>2. ASSUME UNCHANGED vars
            PROVE  agent' = agent
        BY <3>2 DEF vars
      <3>3. ASSUME Crash
            PROVE  agent' = agent
        BY <1>2, <3>3, CrashFacts
      <3> QED
        BY <2>2, <3>1, <3>2, <3>3
    <2>4. ASSUME NEW m \in Node, Retry(m) \/ Release(m)
          PROVE  FALSE
      <3>1. agent' = agent
        BY <1>2, <2>4, UserFacts
      <3> QED
        BY <2>2, <3>1
    <2>5. PICK m \in Node : AgentStep(m)
      BY <1>2, <2>1, <2>3, <2>4 DEF Next
    <2>6. OnlyAgent(m)
      BY <1>2, <2>5, AgentSteps, OnlyItsAgent
    <2>7. m = n /\ n \in Running
      BY <1>2, <2>6 DEF OnlyAgent
    <2>8. Kill(n) /\ InTime(n, agent[n])
      BY <1>2, <2>5, <2>7, TimeOfStep DEF TimeInv
    <2> QED
      BY <1>2, <2>7, <2>8, KillIsEarned
  <1>3. TypeInv /\ BlockInv /\ TimeInv /\ [Next]_vars =>
           \A n \in Node : agent[n].phase = "polling" /\ agent'[n].phase = "done" =>
              Block(n).fills \/ TimeNeeded(n) > Timeout
    BY <1>2
  <1> QED
    BY <1>1, <1>3, AlwaysTyped, TimeStays, PTL DEF Spec, KillsAreEarned

-------------------------------------------------------------------------------
(***************************************************************************)
(* The prompt of a node                                                    *)
(***************************************************************************)
\* Sizes are numbers of bytes, and the text of a file is no longer than Fits reckons.
SizeAssumptions ==
    /\ \A s : SizeOf(s) \in Nat
    /\ \A f, text : SizeOf(<<"file", f, text>>) <= SizeOf(<<"file", f>>)

\* All weights in their order, or some of them, none more than it was.
LEMMA PartOfTotal ==
    ASSUME NEW c \in Nat, NEW w \in [1 .. c -> Nat], NEW d \in Nat, NEW v \in [1 .. d -> Nat],
           NEW p \in [1 .. d -> 1 .. c], \A k \in 2 .. d : p[k - 1] < p[k],
           \A k \in 1 .. d : v[k] <= w[p[k]]
    PROVE  Total(v) \in Nat /\ Total(w) \in Nat /\ Total(v) <= Total(w)
  <1>1. Total(w) = Sums(w)[c] /\ IsSumOf(Sums(w), w, c)
    BY TotalIsSum
  <1>2. Total(v) = Sums(v)[d] /\ IsSumOf(Sums(v), v, d)
    BY TotalIsSum
  <1>3. c \in 0 .. c /\ d \in 0 .. d
    OBVIOUS
  <1>4. Sums(w)[c] \in Nat
    BY <1>1, <1>3, SumsGrow
  <1>5. Sums(v)[d] \in Nat
    BY <1>2, <1>3, SumsGrow
  <1>6. Sums(v)[d] <= Sums(w)[c]
    BY <1>1, <1>2, PartOfSum
  <1> QED
    BY <1>1, <1>2, <1>4, <1>5, <1>6

LEMMA ThreeParts ==
    ASSUME NEW S, NEW x \in Seq(S), NEW y \in Seq(S), NEW z \in Seq(S),
           NEW a, a = Len(x), NEW b, b = Len(y), NEW c, c = Len(z)
    PROVE  /\ a \in Nat /\ b \in Nat /\ c \in Nat
           /\ x \o y \o z \in Seq(S) /\ Len(x \o y \o z) = a + b + c
           /\ \A i \in 1 .. a : (x \o y \o z)[i] = x[i]
           /\ \A i \in 1 .. b : (x \o y \o z)[a + i] = y[i]
           /\ \A i \in 1 .. c : (x \o y \o z)[a + b + i] = z[i]
  <1>1. a \in Nat /\ b \in Nat /\ c \in Nat
    BY LenProperties
  <1>2. /\ x \o y \in Seq(S) /\ Len(x \o y) = a + b
        /\ \A i \in 1 .. a + b : (x \o y)[i] = IF i <= a THEN x[i] ELSE y[i - a]
    BY ConcatProperties
  <1> DEFINE q == x \o y
  <1>3. q \in Seq(S) /\ Len(q) = a + b
        /\ \A i \in 1 .. a + b : q[i] = IF i <= a THEN x[i] ELSE y[i - a]
    BY <1>2
  <1> HIDE DEF q
  <1>4. /\ q \o z \in Seq(S) /\ Len(q \o z) = (a + b) + c
        /\ \A i \in 1 .. (a + b) + c : (q \o z)[i] = IF i <= a + b THEN q[i] ELSE z[i - (a + b)]
    BY <1>3, ConcatProperties
  <1>5. ASSUME NEW i \in 1 .. a PROVE (q \o z)[i] = x[i]
    <2>1. i \in 1 .. a + b /\ i \in 1 .. (a + b) + c /\ i <= a /\ i <= a + b
      BY <1>1
    <2> QED
      BY <1>3, <1>4, <2>1
  <1>6. ASSUME NEW i \in 1 .. b PROVE (q \o z)[a + i] = y[i]
    <2>1. /\ a + i \in 1 .. a + b /\ a + i \in 1 .. (a + b) + c /\ ~(a + i <= a)
          /\ a + i <= a + b /\ (a + i) - a = i
      BY <1>1
    <2> QED
      BY <1>3, <1>4, <2>1
  <1>7. ASSUME NEW i \in 1 .. c PROVE (q \o z)[a + b + i] = z[i]
    <2>1. /\ a + b + i \in 1 .. (a + b) + c /\ ~(a + b + i <= a + b) /\ (a + b + i) - (a + b) = i
      BY <1>1
    <2> QED
      BY <1>4, <2>1
  <1> QED
    BY <1>1, <1>4, <1>5, <1>6, <1>7 DEF q

\* A prompt whose files are no longer and that lacks some of the last sections is
\* not longer.
LEMMA SmallerPrompt ==
    ASSUME SizeAssumptions, NEW S, NEW x \in Seq(S),
           NEW f \in Seq(S), NEW g \in Seq(S), Len(g) = Len(f),
           \A i \in 1 .. Len(f) : SizeOf(g[i]) <= SizeOf(f[i]),
           NEW t \in Seq(S), NEW u \in Seq(S), NEW p \in [1 .. Len(u) -> 1 .. Len(t)],
           \A k \in 2 .. Len(u) : p[k - 1] < p[k],
           \A k \in 1 .. Len(u) : u[k] = t[p[k]]
    PROVE  /\ TotalSize(x \o g \o u) \in Nat /\ TotalSize(x \o f \o t) \in Nat
           /\ TotalSize(x \o g \o u) <= TotalSize(x \o f \o t)
  <1> DEFINE a == Len(x)
             b == Len(f)
             h == Len(t)
             j == Len(u)
             whole == x \o f \o t
             built == x \o g \o u
             c == a + b + h
             d == a + b + j
             w == [k \in 1 .. c |-> SizeOf(whole[k])]
             v == [k \in 1 .. d |-> SizeOf(built[k])]
             q == [k \in 1 .. d |-> IF k <= a + b THEN k ELSE a + b + p[k - (a + b)]]
  <1>1. /\ p \in [1 .. j -> 1 .. h] /\ \A k \in 2 .. j : p[k - 1] < p[k]
        /\ \A k \in 1 .. j : u[k] = t[p[k]]
        /\ \A i \in 1 .. b : SizeOf(g[i]) <= SizeOf(f[i])
        /\ b = Len(g)
    OBVIOUS
  <1> HIDE DEF a, b, h, j
  <1>2. /\ a \in Nat /\ b \in Nat /\ h \in Nat
        /\ x \o f \o t \in Seq(S) /\ Len(x \o f \o t) = a + b + h
        /\ \A i \in 1 .. a : (x \o f \o t)[i] = x[i]
        /\ \A i \in 1 .. b : (x \o f \o t)[a + i] = f[i]
        /\ \A i \in 1 .. h : (x \o f \o t)[a + b + i] = t[i]
    BY ThreeParts DEF a, b, h
  <1>3. /\ j \in Nat
        /\ x \o g \o u \in Seq(S) /\ Len(x \o g \o u) = a + b + j
        /\ \A i \in 1 .. a : (x \o g \o u)[i] = x[i]
        /\ \A i \in 1 .. b : (x \o g \o u)[a + i] = g[i]
        /\ \A i \in 1 .. j : (x \o g \o u)[a + b + i] = u[i]
    <2>1. ASSUME NEW y \in Seq(S), NEW z \in Seq(S), b = Len(y)
          PROVE  /\ Len(z) \in Nat
                 /\ x \o y \o z \in Seq(S) /\ Len(x \o y \o z) = a + b + Len(z)
                 /\ \A i \in 1 .. a : (x \o y \o z)[i] = x[i]
                 /\ \A i \in 1 .. b : (x \o y \o z)[a + i] = y[i]
                 /\ \A i \in 1 .. Len(z) : (x \o y \o z)[a + b + i] = z[i]
      BY <2>1, ThreeParts DEF a
    <2>2. b = Len(g)
      BY <1>1
    <2> QED
      BY <2>1, <2>2 DEF j
  <1>4. /\ whole \in Seq(S) /\ Len(whole) = c /\ built \in Seq(S) /\ Len(built) = d
        /\ DOMAIN whole = 1 .. c /\ DOMAIN built = 1 .. d
    BY <1>2, <1>3, LenProperties
  <1>5. TotalSize(whole) = Total(w) \div 4 /\ TotalSize(built) = Total(v) \div 4
    BY <1>4 DEF TotalSize
  <1>6. c \in Nat /\ d \in Nat /\ c = a + b + h /\ d = a + b + j
    BY <1>2, <1>3
  <1>7. w \in [1 .. c -> Nat] /\ v \in [1 .. d -> Nat]
    BY DEF SizeAssumptions
  <1>8. ASSUME NEW k \in 1 .. d
        PROVE  /\ q[k] \in 1 .. c
               /\ k \in 2 .. d => q[k - 1] < q[k]
               /\ v[k] <= w[q[k]]
    <2>a. v[k] = SizeOf(built[k])
      OBVIOUS
    <2>b. \A i \in 1 .. c : w[i] = SizeOf(whole[i])
      OBVIOUS
    <2>c. k \in Nat
      BY <1>6
    <2>0. k \in Nat /\ v[k] = SizeOf(built[k]) /\ \A i \in 1 .. c : w[i] = SizeOf(whole[i])
      BY <2>a, <2>b, <2>c
    <2> HIDE DEF w, v
    <2>1. CASE k <= a
      <3>1. q[k] = k /\ k \in 1 .. c /\ k \in 1 .. a /\ (k \in 2 .. d => q[k - 1] = k - 1)
        BY <1>2, <1>3, <1>6, <2>0, <2>1
      <3>2. built[k] = x[k] /\ whole[k] = x[k]
        BY <1>2, <1>3, <3>1
      <3>3. v[k] = SizeOf(x[k]) /\ w[q[k]] = SizeOf(x[k]) /\ SizeOf(x[k]) \in Nat
        BY <2>0, <3>1, <3>2 DEF SizeAssumptions
      <3>4. k \in 2 .. d => q[k - 1] < q[k]
        BY <2>0, <3>1
      <3> HIDE DEF q
      <3> QED
        BY <3>1, <3>3, <3>4
    <2>2. CASE a < k /\ k <= a + b
      <3>0. PICK i \in 1 .. b : k = a + i
        <4>1. k - a \in 1 .. b /\ k = a + (k - a)
          BY <1>2, <2>0, <2>2
        <4> QED
          BY <4>1
      <3>1. q[k] = k /\ k \in 1 .. c /\ (k \in 2 .. d => q[k - 1] = k - 1)
        BY <1>2, <1>3, <1>6, <2>0, <2>2
      <3>2. built[k] = g[i] /\ whole[k] = f[i]
        BY <1>2, <1>3, <3>0
      <3>3. v[k] = SizeOf(g[i]) /\ w[q[k]] = SizeOf(f[i])
        BY <2>0, <3>1, <3>2
      <3>4. k \in 2 .. d => q[k - 1] < q[k]
        BY <2>0, <3>1
      <3> HIDE DEF q
      <3> QED
        BY <1>1, <3>1, <3>3, <3>4
    <2>3. CASE a + b < k
      <3>0. PICK i \in 1 .. j : k = a + b + i
        <4>1. k - (a + b) \in 1 .. j /\ k = a + b + (k - (a + b))
          BY <1>2, <1>3, <1>6, <2>0, <2>3
        <4> QED
          BY <4>1
      <3>1. PICK e \in 1 .. h : e = p[i]
        BY <1>1
      <3>2. k - (a + b) = i /\ ~(k <= a + b)
        BY <1>2, <3>0
      <3>3. q[k] = a + b + e /\ a + b + e \in 1 .. c
        BY <1>2, <1>6, <3>1, <3>2
      <3>4. built[k] = u[i] /\ whole[a + b + e] = t[e]
        BY <1>2, <1>3, <3>0
      <3>5. u[i] = t[e]
        BY <1>1, <3>1
      <3>6. v[k] = SizeOf(t[e]) /\ w[q[k]] = SizeOf(t[e]) /\ SizeOf(t[e]) \in Nat
        BY <2>0, <3>3, <3>4, <3>5 DEF SizeAssumptions
      <3>7. ASSUME k \in 2 .. d
            PROVE  q[k - 1] < q[k]
        <4>1. CASE i = 1
          <5>1. q[k - 1] = a + b
            BY <1>2, <1>6, <3>0, <3>7, <4>1
          <5> QED
            BY <1>2, <3>3, <5>1
        <4>2. CASE i # 1
          <5>1. i \in 2 .. j /\ i - 1 \in 1 .. j
            BY <1>3, <4>2
          <5>2. PICK y \in 1 .. h : y = p[i - 1]
            BY <1>1, <5>1
          <5>3. y < e
            BY <1>1, <3>1, <5>1, <5>2
          <5>4. (k - 1) - (a + b) = i - 1 /\ ~(k - 1 <= a + b) /\ k - 1 \in 1 .. d
            BY <1>2, <1>6, <3>0, <3>7, <5>1
          <5>5. q[k - 1] = a + b + y
            BY <5>2, <5>4
          <5> HIDE DEF q
          <5> QED
            BY <1>2, <3>3, <5>3, <5>5
        <4> QED
          BY <4>1, <4>2
      <3> HIDE DEF q
      <3> QED
        BY <3>3, <3>6, <3>7
    <2>4. k <= a \/ (a < k /\ k <= a + b) \/ a + b < k
      BY <1>2, <2>0
    <2> HIDE DEF q
    <2> QED
      BY <2>1, <2>2, <2>3, <2>4
  <1>9. q \in [1 .. d -> 1 .. c] /\ (\A k \in 2 .. d : q[k - 1] < q[k])
        /\ \A k \in 1 .. d : v[k] <= w[q[k]]
    <2>1. \A k \in 2 .. d : k \in 1 .. d
      BY <1>6
    <2>2. \A k \in 1 .. d : q[k] \in 1 .. c
      BY <1>8
    <2>3. q \in [1 .. d -> 1 .. c]
      BY <2>2
    <2> HIDE DEF q, v, w
    <2> QED
      BY <1>8, <2>1, <2>3
  <1> HIDE DEF c, d, w, v, q, whole, built
  <1>10. Total(v) \in Nat /\ Total(w) \in Nat /\ Total(v) <= Total(w)
    BY <1>6, <1>7, <1>9, PartOfTotal
  <1>11. /\ Total(v) \div 4 \in Nat /\ Total(w) \div 4 \in Nat
         /\ Total(v) \div 4 <= Total(w) \div 4
    BY <1>10
  <1> QED
    BY <1>5, <1>11 DEF whole, built

LEMMA NothingTruncated ==
    ASSUME NEW S, NEW s \in Seq(S), s # <<>>, NEW budget, TotalSize(s) <= budget
    PROVE  TruncateToBudget(s, budget) = s
  <1> DEFINE K == {1} \cup {k \in DOMAIN s : TotalSize(SubSeq(s, 1, k)) <= budget}
             c == Len(s)
  <1>1. c \in Nat \ {0} /\ DOMAIN s = 1 .. c /\ \A i \in 1 .. c : s[i] \in S
    BY EmptySeq, LenProperties, ElementOfSeq
  <1>2. SubSeq(s, 1, c) = s
    <2>1. /\ SubSeq(s, 1, c) \in Seq(S) /\ Len(SubSeq(s, 1, c)) = c
          /\ \A i \in 1 .. c : SubSeq(s, 1, c)[i] = s[i]
      BY <1>1, SubSeqProperties
    <2> QED
      BY <2>1, SeqEqual
  <1> HIDE DEF c
  <1>3. c \in K
    <2>0. TotalSize(SubSeq(s, 1, c)) <= budget
      BY <1>2
    <2>1. c \in DOMAIN s
      BY <1>1
    <2> QED
      BY <2>0, <2>1
  <1>4. \A k \in K : k \in Nat /\ c >= k
    BY <1>1
  <1> HIDE DEF K
  <1>5. Max(K) = c
    <2>1. Max(K) \in K /\ \A k \in K : Max(K) >= k
      BY <1>3, <1>4 DEF Max
    <2>2. c \in Nat /\ Max(K) \in Nat /\ c >= Max(K) /\ Max(K) >= c
      BY <1>1, <1>3, <1>4, <2>1
    <2> QED
      BY <2>2
  <1>6. TruncateToBudget(s, budget) = SubSeq(s, 1, Max(K))
    BY DEF TruncateToBudget, K
  <1> QED
    BY <1>2, <1>5, <1>6

LEMMA ListOf ==
    ASSUME NEW S, NEW c \in Nat, NEW s \in [1 .. c -> S]
    PROVE  s \in Seq(S) /\ Len(s) = c
  BY SeqDef, LenProperties

LEMMA SectionsAre ==
    ASSUME NEW S, NEW kind, NEW refs, refs \in Seq(ToSet(refs)),
           \A r \in ToSet(refs) : <<kind, r>> \in S
    PROVE  /\ Sections(kind, refs) \in Seq(S)
           /\ Len(Sections(kind, refs)) = Len(refs)
           /\ \A i \in 1 .. Len(refs) : Sections(kind, refs)[i] = <<kind, refs[i]>>
  <1>1. /\ DOMAIN refs = 1 .. Len(refs) /\ Len(refs) \in Nat
        /\ \A i \in 1 .. Len(refs) : refs[i] \in ToSet(refs)
    BY InList DEF IsList
  <1>2. Sections(kind, refs) \in [1 .. Len(refs) -> S]
    BY <1>1 DEF Sections
  <1>3. \A i \in 1 .. Len(refs) : Sections(kind, refs)[i] = <<kind, refs[i]>>
    BY <1>1 DEF Sections
  <1> QED
    BY <1>1, <1>2, <1>3, ListOf

LEMMA FilesAre ==
    ASSUME NEW S, NEW files, files \in Seq(ToSet(files)),
           \A f \in ToSet(files) : <<"file", f, fs[f]>> \in S
    PROVE  /\ FileSections(files) \in Seq(S)
           /\ Len(FileSections(files)) = Len(files)
           /\ \A i \in 1 .. Len(files) :
                 FileSections(files)[i] = <<"file", files[i], fs[files[i]]>>
  <1>1. /\ DOMAIN files = 1 .. Len(files) /\ Len(files) \in Nat
        /\ \A i \in 1 .. Len(files) : files[i] \in ToSet(files)
    BY InList DEF IsList
  <1>2. FileSections(files) \in [1 .. Len(files) -> S]
    BY <1>1 DEF FileSections
  <1>3. \A i \in 1 .. Len(files) : FileSections(files)[i] = <<"file", files[i], fs[files[i]]>>
    BY <1>1 DEF FileSections
  <1> QED
    BY <1>1, <1>2, <1>3, ListOf

\* The sections of the topics that have entries, in the order they are asked for.
LEMMA TopicsAre ==
    ASSUME NEW topics, topics \in Seq(ToSet(topics))
    PROVE  /\ \A S : (\A r \in ToSet(topics) : <<"memory", r>> \in S) =>
                       MemorySections(topics) \in Seq(S)
           /\ \A r \in ToSet(topics) \cap KnownTopics :
                 \E k \in 1 .. Len(MemorySections(topics)) :
                    MemorySections(topics)[k] = <<"memory", r>>
           /\ \E p \in [1 .. Len(MemorySections(topics)) -> 1 .. Len(topics)] :
                 /\ \A k \in 2 .. Len(MemorySections(topics)) : p[k - 1] < p[k]
                 /\ \A k \in 1 .. Len(MemorySections(topics)) :
                       MemorySections(topics)[k] = <<"memory", topics[p[k]]>>
  <1> DEFINE I == {i \in DOMAIN topics : topics[i] \in KnownTopics}
             p == Numbered(I)
             c == Cardinality(I)
             found == [k \in DOMAIN p |-> topics[p[k]]]
  <1>1. /\ DOMAIN topics = 1 .. Len(topics) /\ Len(topics) \in Nat
        /\ \A i \in 1 .. Len(topics) : topics[i] \in ToSet(topics)
        /\ \A r \in ToSet(topics) : \E i \in 1 .. Len(topics) : r = topics[i]
    BY InList DEF IsList
  <1>2. MemorySections(topics) = Sections("memory", found)
    BY DEF MemorySections, InIdOrder, Numbered
  <1>3. I \in SUBSET (1 .. Len(topics)) /\ I \in SUBSET Nat /\ IsFiniteSet(I) /\ c \in Nat
    <2>1. IsFiniteSet(1 .. Len(topics))
      BY <1>1, FS_Interval
    <2>2. I \in SUBSET (1 .. Len(topics)) /\ I \in SUBSET Nat
      BY <1>1
    <2> QED
      BY <2>1, <2>2, FS_Subset, FS_CardinalityType
  <1>4. \A i \in I : topics[i] \in KnownTopics
    OBVIOUS
  <1>5. \A i \in 1 .. Len(topics) : topics[i] \in KnownTopics => i \in I
    BY <1>1
  <1> HIDE DEF I
  <1>6. Lists(p, I) /\ DOMAIN p = 1 .. c
    BY <1>3, NumberedLists DEF Numbered
  <1>7. \A k \in 2 .. c : p[k - 1] < p[k]
    BY <1>3, NumberedGrow
  <1>8. /\ p \in [1 .. c -> 1 .. Len(topics)]
        /\ \A i \in I : \E k \in 1 .. c : i = p[k]
    <2>1. IsList(p) /\ ToSet(p) = I
      BY <1>6, InList DEF Lists
    <2>2. (\A k \in DOMAIN p : p[k] \in I) /\ \A i \in I : \E k \in DOMAIN p : i = p[k]
      BY <2>1 DEF IsList
    <2>3. p \in [1 .. c -> I]
      BY <1>6, LenProperties DEF Lists
    <2> QED
      BY <1>3, <1>6, <2>2, <2>3
  <1> HIDE DEF p, c
  <1>9. /\ Sections("memory", found) = [k \in 1 .. c |-> <<"memory", topics[p[k]]>>]
        /\ \A k \in 1 .. c : topics[p[k]] \in ToSet(topics)
    BY <1>1, <1>6, <1>8 DEF Sections
  <1>10. ASSUME NEW S, \A r \in ToSet(topics) : <<"memory", r>> \in S
         PROVE  MemorySections(topics) \in Seq(S) /\ Len(MemorySections(topics)) = c
    <2>1. Sections("memory", found) \in [1 .. c -> S]
      BY <1>9, <1>10
    <2> HIDE DEF found
    <2> QED
      BY <1>2, <1>3, <2>1, ListOf
  <1>11. Len(MemorySections(topics)) = c
    <2>1. \A r \in ToSet(topics) : <<"memory", r>> \in {<<"memory", q>> : q \in ToSet(topics)}
      OBVIOUS
    <2> QED
      BY <1>10, <2>1
  <1> HIDE DEF found
  <1>12. \A k \in 1 .. c : MemorySections(topics)[k] = <<"memory", topics[p[k]]>>
    BY <1>2, <1>9
  <1>13. ASSUME NEW r \in ToSet(topics) \cap KnownTopics
         PROVE  \E k \in 1 .. c : MemorySections(topics)[k] = <<"memory", r>>
    <2>1. PICK i \in 1 .. Len(topics) : r = topics[i]
      BY <1>1
    <2>2. i \in I
      BY <1>5, <2>1
    <2>3. PICK k \in 1 .. c : i = p[k]
      BY <1>8, <2>2
    <2> QED
      BY <1>12, <2>1, <2>3
  <1> QED
    BY <1>7, <1>8, <1>10, <1>11, <1>12, <1>13

LEMMA AncestorsAreSmaller ==
    ASSUME NEW n \in Node
    PROVE  \A m \in Ancestors[n] : m < n
  <1> DEFINE S == {m \in Node : m < n}
  <1>1. Node \subseteq Nat /\ \A x \in Node : \A d \in Depends[x] : d \in Node /\ d < x
    BY NodeExecutionAssumption
  <1>2. Depends[n] \subseteq S
    BY <1>1
  <1>3. ASSUME NEW x \in S, NEW d \in Depends[x]
        PROVE  d \in S
    <2>1. d \in Node /\ d < x /\ x < n /\ d \in Nat /\ x \in Nat /\ n \in Nat
      BY <1>1
    <2> QED
      BY <2>1
  <1>4. Ancestors[n] \subseteq S
    BY <1>2, <1>3, AncestorsAreLeast
  <1> QED
    BY <1>4

\* A prompt that fits is the whole one: the files that the node loads, as they are, and
\* the topics that have entries.
LEMMA WholePrompt ==
    ASSUME SizeAssumptions, NEW n \in Node, NEW wanted \in ToSet(AgentContext[n]), Fits(n, wanted)
    PROVE  /\ \A t \in ToSet(wanted.load_memory) \cap KnownTopics :
                 <<"memory", t>> \in ToSet(BuildContext(n))
           /\ \A f \in ToSet(wanted.load_files) :
                 <<"file", f, fs[f]>> \in ToSet(BuildContext(n))
  <1> DEFINE hints == wanted.system_hint
             nodes == wanted.load_nodes
             files == wanted.load_files
             topics == wanted.load_memory
             above == InIdOrder(Ancestors[n] \ ToSet(nodes))
             H == {<<"hint", r>> : r \in ToSet(hints)}
             D == {<<"dependency", r>> : r \in ToSet(nodes)}
             A == {<<"summary", r>> : r \in Node}
             F == {<<"file", r>> : r \in ToSet(files)}
             G == {<<"file", r, fs[r]>> : r \in ToSet(files)}
             M == {<<"memory", r>> : r \in ToSet(topics)}
             S == H \cup {<<"node", n>>} \cup D \cup A \cup F \cup G \cup M
             h == Sections("hint", hints)
             o == <<<<"node", n>>>>
             d == Sections("dependency", nodes)
             s == Sections("summary", above)
             x == h \o o \o d \o s
             f == Sections("file", files)
             g == FileSections(files)
             t == Sections("memory", topics)
             u == MemorySections(topics)
  <1>1. /\ AgentContext[n] = <<wanted>> /\ wanted.max_tokens \in Nat
        /\ hints \in Seq(ToSet(hints)) /\ nodes \in Seq(ToSet(nodes))
        /\ files \in Seq(ToSet(files)) /\ topics \in Seq(ToSet(topics))
    BY NodeExecutionAssumption
  <1>2. above \in Seq(ToSet(above)) /\ ToSet(above) \subseteq Node
    <2>1. Ancestors[n] \ ToSet(nodes) \subseteq Node
      BY AncestorsAreNodes
    <2>2. Lists(above, Ancestors[n] \ ToSet(nodes))
      BY <2>1, IdOrder
    <2> QED
      BY <2>1, <2>2 DEF Lists
  <1>3. Ancestors[n] \ (ToSet(nodes) \cup {n}) = Ancestors[n] \ ToSet(nodes)
    <2>1. n \notin Ancestors[n]
      BY AncestorsAreSmaller, NodeExecutionAssumption
    <2> QED
      BY <2>1
  <1>4. BuildContext(n) = TruncateToBudget(x \o g \o u, wanted.max_tokens)
    <2>1. AgentContext[n] # <<>> /\ AgentContext[n][1] = wanted
      BY <1>1
    <2> QED
      BY <1>3, <2>1 DEF BuildContext, ExplicitContext
  <1>5. TotalSize(x \o f \o t) <= wanted.max_tokens
    BY DEF Fits
  <1>6. /\ \A r \in ToSet(hints) : <<"hint", r>> \in S
        /\ \A r \in ToSet(nodes) : <<"dependency", r>> \in S
        /\ \A r \in Node : <<"summary", r>> \in S
        /\ \A r \in ToSet(files) : <<"file", r>> \in S
        /\ \A r \in ToSet(files) : <<"file", r, fs[r]>> \in S
        /\ \A r \in ToSet(topics) : <<"memory", r>> \in S
        /\ <<"node", n>> \in S
    OBVIOUS
  <1> HIDE DEF hints, nodes, files, topics, above, S
  <1>7. h \in Seq(S) /\ d \in Seq(S)
    BY <1>1, <1>6, SectionsAre
  <1>8. s \in Seq(S)
    <2>1. \A r \in ToSet(above) : <<"summary", r>> \in S
      BY <1>2, <1>6
    <2> QED
      BY <1>2, <2>1, SectionsAre
  <1>9. o \in Seq(S) /\ Len(o) = 1
    BY <1>6
  <1>10. /\ f \in Seq(S) /\ Len(f) = Len(files)
         /\ \A i \in 1 .. Len(files) : f[i] = <<"file", files[i]>>
    <2>1. files \in Seq(ToSet(files)) /\ \A r \in ToSet(files) : <<"file", r>> \in S
      BY <1>1, <1>6
    <2> QED
      BY <2>1, SectionsAre
  <1>11. /\ t \in Seq(S) /\ Len(t) = Len(topics)
         /\ \A i \in 1 .. Len(topics) : t[i] = <<"memory", topics[i]>>
    <2>1. topics \in Seq(ToSet(topics)) /\ \A r \in ToSet(topics) : <<"memory", r>> \in S
      BY <1>1, <1>6
    <2> QED
      BY <2>1, SectionsAre
  <1>12. /\ g \in Seq(S) /\ Len(g) = Len(files)
         /\ \A i \in 1 .. Len(files) : g[i] = <<"file", files[i], fs[files[i]]>>
    BY <1>1, <1>6, FilesAre
  <1>13. /\ u \in Seq(S)
         /\ \A r \in ToSet(topics) \cap KnownTopics : \E k \in 1 .. Len(u) : u[k] = <<"memory", r>>
         /\ \E p \in [1 .. Len(u) -> 1 .. Len(topics)] :
               /\ \A k \in 2 .. Len(u) : p[k - 1] < p[k]
               /\ \A k \in 1 .. Len(u) : u[k] = <<"memory", topics[p[k]]>>
    <2>1. topics \in Seq(ToSet(topics)) /\ \A r \in ToSet(topics) : <<"memory", r>> \in S
      BY <1>1, <1>6
    <2>2. u \in Seq(S)
      BY <2>1, TopicsAre
    <2>3. \A r \in ToSet(topics) \cap KnownTopics : \E k \in 1 .. Len(u) : u[k] = <<"memory", r>>
      BY <2>1, TopicsAre
    <2>4. \E p \in [1 .. Len(u) -> 1 .. Len(topics)] :
             /\ \A k \in 2 .. Len(u) : p[k - 1] < p[k]
             /\ \A k \in 1 .. Len(u) : u[k] = <<"memory", topics[p[k]]>>
      BY <2>1, TopicsAre
    <2> QED
      BY <2>2, <2>3, <2>4
  <1>14. x \in Seq(S) /\ Len(x) \in Nat /\ Len(x) >= 1
    <2>1. h \o o \o d \in Seq(S) /\ Len(h \o o \o d) = Len(h) + Len(o) + Len(d)
          /\ Len(h) \in Nat /\ Len(d) \in Nat
      BY <1>7, <1>9, ThreeParts
    <2> DEFINE y == h \o o \o d
    <2>2. y \in Seq(S) /\ Len(y) \in Nat /\ Len(y) >= 1
      BY <1>9, <2>1
    <2> HIDE DEF y
    <2>3. y \o s \in Seq(S) /\ Len(y \o s) = Len(y) + Len(s) /\ Len(s) \in Nat
      BY <1>8, <2>2, ConcatProperties, LenProperties
    <2> QED
      BY <2>2, <2>3 DEF y
  <1> HIDE DEF x, f, g, t, u
  <1>15. /\ TotalSize(x \o g \o u) \in Nat /\ TotalSize(x \o f \o t) \in Nat
         /\ TotalSize(x \o g \o u) <= TotalSize(x \o f \o t)
    <2>1. Len(g) = Len(f) /\ \A i \in 1 .. Len(f) : SizeOf(g[i]) <= SizeOf(f[i])
      BY <1>10, <1>12 DEF SizeAssumptions
    <2>2. PICK p \in [1 .. Len(u) -> 1 .. Len(topics)] :
               /\ \A k \in 2 .. Len(u) : p[k - 1] < p[k]
               /\ \A k \in 1 .. Len(u) : u[k] = <<"memory", topics[p[k]]>>
      BY <1>13
    <2>3. p \in [1 .. Len(u) -> 1 .. Len(t)] /\ \A k \in 1 .. Len(u) : u[k] = t[p[k]]
      <3>1. \A k \in 1 .. Len(u) : p[k] \in 1 .. Len(topics)
        OBVIOUS
      <3> QED
        BY <1>11, <2>2, <3>1
    <2> QED
      BY <1>10, <1>11, <1>12, <1>13, <1>14, <2>1, <2>2, <2>3, SmallerPrompt
  <1>16. /\ Len(g) \in Nat /\ Len(u) \in Nat
         /\ x \o g \o u \in Seq(S) /\ Len(x \o g \o u) = Len(x) + Len(g) + Len(u)
         /\ \A i \in 1 .. Len(g) : (x \o g \o u)[Len(x) + i] = g[i]
         /\ \A i \in 1 .. Len(u) : (x \o g \o u)[Len(x) + Len(g) + i] = u[i]
    <2>1. ASSUME NEW y \in Seq(S), NEW z \in Seq(S)
          PROVE  /\ Len(y) \in Nat /\ Len(z) \in Nat
                 /\ x \o y \o z \in Seq(S) /\ Len(x \o y \o z) = Len(x) + Len(y) + Len(z)
                 /\ \A i \in 1 .. Len(y) : (x \o y \o z)[Len(x) + i] = y[i]
                 /\ \A i \in 1 .. Len(z) : (x \o y \o z)[Len(x) + Len(y) + i] = z[i]
      BY <1>14, ThreeParts
    <2> QED
      BY <1>12, <1>13, <2>1
  <1> DEFINE built == x \o g \o u
  <1>17. BuildContext(n) = built
    <2>1. TotalSize(built) <= wanted.max_tokens
      BY <1>1, <1>5, <1>15
    <2>2. built # <<>>
      <3>1. Len(built) # 0
        BY <1>14, <1>16
      <3> QED
        BY <3>1, EmptySeq
    <2> HIDE DEF built
    <2>3. built \in Seq(S)
      BY <1>16 DEF built
    <2>4. TruncateToBudget(built, wanted.max_tokens) = built
      BY <2>1, <2>2, <2>3, NothingTruncated
    <2> QED
      BY <1>4, <2>4 DEF built
  <1>18. \A k \in 1 .. Len(x) + Len(g) + Len(u) : built[k] \in ToSet(built)
    BY <1>16, InList DEF IsList
  <1>19. ASSUME NEW r \in ToSet(topics) \cap KnownTopics
         PROVE  <<"memory", r>> \in ToSet(built)
    <2>1. PICK k \in 1 .. Len(u) : u[k] = <<"memory", r>>
      BY <1>13
    <2>2. Len(x) + Len(g) + k \in 1 .. Len(x) + Len(g) + Len(u)
      BY <1>14, <1>16
    <2> QED
      BY <1>16, <1>18, <2>1, <2>2
  <1>20. ASSUME NEW r \in ToSet(files)
         PROVE  <<"file", r, fs[r]>> \in ToSet(built)
    <2>1. PICK i \in 1 .. Len(files) : r = files[i]
      BY <1>1, InList DEF IsList
    <2>2. Len(x) + i \in 1 .. Len(x) + Len(g) + Len(u) /\ i \in 1 .. Len(g)
      BY <1>12, <1>14, <1>16
    <2> QED
      BY <1>12, <1>16, <1>18, <2>1, <2>2
  <1> QED
    BY <1>17, <1>19, <1>20 DEF topics, files

\* The stores keep what completed nodes have upserted for later runs.
Entries(d) == {u \in Upserts[d] : u[1] \notin {"node", "session"}}

StoreInv == \A d \in Node : status[d] = "completed" => Entries(d) \subseteq memory

LEMMA StoreStays == TypeInv /\ BlockInv /\ StoreInv /\ [Next]_vars => StoreInv'
  <1> SUFFICES ASSUME TypeInv, BlockInv, StoreInv, [Next]_vars,
                      NEW d \in Node, status'[d] = "completed"
               PROVE  Entries(d) \subseteq memory'
    BY DEF StoreInv, Entries
  <1>1. CASE status[d] = "completed"
    <2>1. Entries(d) \subseteq memory
      BY <1>1 DEF StoreInv
    <2>2. CASE EndOfSession
      BY <2>1, <2>2 DEF EndOfSession, Entries
    <2>3. CASE memory \subseteq memory'
      BY <2>1, <2>3
    <2>4. ASSUME NEW m \in Node, AgentStep(m)
          PROVE  memory \subseteq memory'
      BY <2>4, AgentSteps, OnlyItsAgent DEF OnlyAgent
    <2>5. StartBatch => memory \subseteq memory'
      BY StartFacts
    <2>6. RecordResult \/ UNCHANGED vars => memory \subseteq memory'
      BY DEF RecordResult, vars
    <2>7. Crash \/ (\E m \in Node : Retry(m) \/ Release(m)) => EndOfSession
      BY DEF Crash, Retry, Release
    <2> QED
      BY <2>2, <2>3, <2>4, <2>5, <2>6, <2>7 DEF Next
  <1>2. CASE status[d] # "completed"
    <2>1. RecordResult /\ agent[d].ok
      BY <1>2, OnlyRecorded
    <2>2. d = Head(batch)
      BY <1>2, <2>1 DEF RecordResult
    <2>3. memory' = memory \cup Remembered(d)
      BY <2>1, <2>2 DEF RecordResult
    <2> QED
      BY <2>3 DEF Remembered, Entries
  <1> QED
    BY <1>1, <1>2

\* What takes an edit of a completed node out of the promise stays so.
LEMMA ExcusedStays ==
    ASSUME TypeInv, BlockInv, [Next]_vars, NEW d \in Node, status[d] = "completed",
           NEW i \in DOMAIN Blocks[d], IsFileBlock(d, i), Excused(d, i)
    PROVE  Excused(d, i)'
  <1>1. Blocks[d][i].target \in File
    BY FileBlock
  <1>2. ASSUME <<d, i>> \in lost
        PROVE  <<d, i>> \in lost'
    <2>1. ASSUME NEW m \in Node, PutsPiece(m), <<d, i>> = Own(m)
          PROVE  FALSE
      <3>1. m = d /\ d \in Running
        BY <2>1, AgentFacts DEF PutsPiece, OnlyAgent
      <3> QED
        BY <3>1 DEF TypeInv
    <2> QED
      BY <1>2, <2>1, LostStays
  <1> QED
    BY <1>1, <1>2, ExcusesStay DEF Excused

LEMMA ContextsStay ==
    SizeAssumptions /\ TypeInv /\ BlockInv /\ OrderInv /\ StoreInv
      /\ CompletedEditsSurvive /\ ContextSeesDependencies /\ [Next]_vars => ContextSeesDependencies'
  <1> SUFFICES ASSUME SizeAssumptions, TypeInv, BlockInv, OrderInv, StoreInv,
                      CompletedEditsSurvive, ContextSeesDependencies, [Next]_vars,
                      NEW n \in Node, NEW wanted \in Fitting[n],
                      attempts'[n] > 0, NEW d \in Ancestors[n]
               PROVE  /\ \A t \in Lasting(d) \cap ToSet(wanted.load_memory) :
                            <<"memory", t>> \in ToSet(context'[n])
                      /\ \A i \in DOMAIN Blocks[d] :
                            IsFileBlock(d, i) /\ Blocks[d][i].target \in ToSet(wanted.load_files) =>
                               \/ Excused(d, i)'
                               \/ \E s \in ToSet(context'[n]) :
                                     s[1] = "file" /\ s[2] = Blocks[d][i].target
                                       /\ <<d, i>> \in ToSet(s[3])
    BY DEF ContextSeesDependencies, Excused, Lasting, IsFileBlock
  <1>0. d \in Node /\ wanted \in ToSet(AgentContext[n]) /\ Fits(n, wanted)
    BY AncestorsAreNodes DEF Fitting
  <1>1. CASE attempts[n] > 0 /\ context'[n] = context[n]
    <2>1. status[d] = "completed"
      BY <1>1, AncestorsDone
    <2>2. ASSUME NEW i \in DOMAIN Blocks[d], IsFileBlock(d, i),
                 Blocks[d][i].target \in ToSet(wanted.load_files), ~Excused(d, i)'
          PROVE  \E s \in ToSet(context[n]) :
                    s[1] = "file" /\ s[2] = Blocks[d][i].target /\ <<d, i>> \in ToSet(s[3])
      <3>1. ~Excused(d, i)
        BY <1>0, <2>1, <2>2, ExcusedStays
      <3> QED
        BY <1>1, <2>2, <3>1 DEF ContextSeesDependencies, Excused
    <2> QED
      BY <1>1, <2>2 DEF ContextSeesDependencies
  <1>2. CASE ~(attempts[n] > 0 /\ context'[n] = context[n])
    <2>1. StartBatch
      <3>1. \/ UNCHANGED <<attempts, context>> \/ StartBatch
        <4>1. ASSUME NEW m \in Node, AgentStep(m)
              PROVE  UNCHANGED <<attempts, context>>
          BY <4>1, AgentSteps, OnlyItsAgent DEF OnlyAgent
        <4> QED
          BY <4>1 DEF Next, vars, RecordResult, Crash, Retry, Release
      <3> QED
        BY <1>2, <3>1
    <2>2. context' = [m \in Node |-> IF m \in Running' THEN BuildContext(m) ELSE context[m]]
      BY <2>1 DEF StartBatch, Running
    <2>3. n \in Running' /\ Running = {}
      BY <1>2, <2>1, <2>2, StartFacts
    <2>4. n \in Ready /\ context'[n] = BuildContext(n)
      BY <2>1, <2>2, <2>3, StartFacts
    <2>5. status[d] = "completed"
      <3> DEFINE S == {m \in Node : status[m] = "completed"}
      <3>1. Depends[n] \subseteq S /\ \A x \in S : Depends[x] \subseteq S
        BY <2>4, NodeExecutionAssumption DEF OrderInv, Ready
      <3>2. Ancestors[n] \subseteq S
        BY <3>1, AncestorsAreLeast
      <3> QED
        BY <3>2
    <2>6. Lasting(d) \subseteq KnownTopics
      BY <1>0, <2>5 DEF StoreInv, Lasting, Entries, KnownTopics
    <2>7. /\ \A t \in ToSet(wanted.load_memory) \cap KnownTopics :
                <<"memory", t>> \in ToSet(context'[n])
          /\ \A f \in ToSet(wanted.load_files) : <<"file", f, fs[f]>> \in ToSet(context'[n])
      BY <1>0, <2>4, WholePrompt
    <2>8. ASSUME NEW i \in DOMAIN Blocks[d], IsFileBlock(d, i), ~Excused(d, i)'
          PROVE  <<d, i>> \in ToSet(fs[Blocks[d][i].target])
      <3>1. ~Excused(d, i)
        BY <1>0, <2>5, <2>8, ExcusedStays
      <3>2. \A f, q : ~IsBeingWritten(f, q)
        BY <2>3 DEF IsBeingWritten, AtBlock, Working, Running
      <3>3. HasText(Blocks[d][i].target, <<d, i>>)
        BY <1>0, <2>5, <2>8, <3>1, <3>2 DEF CompletedEditsSurvive, Excused
      <3>4. PICK j \in DOMAIN fs[Blocks[d][i].target] : fs[Blocks[d][i].target][j] = <<d, i>>
        BY <3>3 DEF HasText, Occurrences
      <3> QED
        BY <3>4 DEF ToSet
    <2>9. ASSUME NEW i \in DOMAIN Blocks[d], IsFileBlock(d, i), ~Excused(d, i)',
                 Blocks[d][i].target \in ToSet(wanted.load_files)
          PROVE  \E s \in ToSet(context'[n]) :
                    s[1] = "file" /\ s[2] = Blocks[d][i].target /\ <<d, i>> \in ToSet(s[3])
      <3> DEFINE f == Blocks[d][i].target
                 s == <<"file", f, fs[f]>>
      <3>1. s \in ToSet(context'[n]) /\ <<d, i>> \in ToSet(fs[f])
        BY <2>7, <2>8, <2>9
      <3>2. s[1] = "file" /\ s[2] = f /\ s[3] = fs[f]
        OBVIOUS
      <3> QED
        BY <3>1, <3>2
    <2> QED
      BY <2>6, <2>7, <2>9
  <1> QED
    BY <1>1, <1>2

\* A node is dispatched with what its dependencies have left for it, however many there
\* are and whatever the agents of their batches did at the same time, unless its budget
\* is too small: its ancestors have been recorded before it is ready, what they have
\* upserted outlives the runs, their edits are in the files when no agent is at work
\* there, but for those that CompletedEditsStay excuses, and a prompt that fits is not cut.
THEOREM ContextsSeeDependencies ==
    ASSUME SizeAssumptions
    PROVE  Spec => []ContextSeesDependencies
  <1>1. Init => OrderInv /\ StoreInv /\ ContextSeesDependencies
    <2> SUFFICES ASSUME Init PROVE OrderInv /\ StoreInv /\ ContextSeesDependencies
      OBVIOUS
    <2>1. \A n \in Node : status[n] \notin {"in_progress", "completed"} /\ attempts[n] = 0
      BY DEF Init
    <2> QED
      BY <2>1 DEF OrderInv, StoreInv, ContextSeesDependencies
  <1>2. Spec => []CompletedEditsSurvive
    BY CompletedEditsStay
  <1>3. TypeInv /\ BlockInv /\ OrderInv /\ StoreInv /\ CompletedEditsSurvive
          /\ ContextSeesDependencies /\ [Next]_vars => ContextSeesDependencies'
    BY ContextsStay
  <1> QED
    BY <1>1, <1>2, <1>3, OrderStays, StoreStays, AlwaysTyped, PTL DEF Spec
===============================================================================
