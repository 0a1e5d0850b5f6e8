---------------------------- MODULE StreamParserProofs ----------------------------
(***************************************************************************)
(* For every document of finitely many lines and every way to cut it into  *)
(* chunks, the push parser makes the file that the batch parser makes, or  *)
(* the same errors, and tells its caller what it makes.                    *)
(*                                                                         *)
(* The argument has three parts.  Every function of the parser reads from  *)
(* a position up to the end of a section, and gives in a window of the     *)
(* lines what it gives in all of them, moved (the lemmas ...Moves): a      *)
(* header or a node parsed alone is the one parsed in its place.  Between  *)
(* two lines (Good), what is parsed is what the batch parser makes of the  *)
(* lines before the section that is buffered.  At the end (Ends) nothing   *)
(* is left of them.                                                        *)
(***************************************************************************)
EXTENDS StreamParser, ListTheorems

-------------------------------------------------------------------------------
(***************************************************************************)
(* Lines and the parts of a file that are parsed alone                     *)
(***************************************************************************)

Kinds == {"blank", "expect", "comment", "node", "body", "list", "scalar", "start", "item", "plain"}
RawLines == [indent : Nat, parts : Seq(STRING)]
Keys == STRING \cup {"", "body"}
Lines == [kind : Kinds, indent : Nat, raw : RawLines, key : Keys, val : Seq(STRING),
          items : Seq(Seq(STRING))]

\* w is a part of ls, after its first d lines, that ends with ls or before a node declaration.
Window(ls, w, d) ==
    /\ ls \in Seq(Lines) /\ w \in Seq(Lines)
    /\ d \in Nat /\ d + Len(w) <= Len(ls)
    /\ \A q \in 1 .. Len(w) : w[q] = ls[d + q]
    /\ d + Len(w) < Len(ls) => ls[d + Len(w) + 1].kind = "node"

\* All lines are a window of themselves.
LEMMA WholeIsWindow == \A ls \in Seq(Lines) : Window(ls, ls, 0)
  BY SeqFacts DEF Window

\* The least position of a set, or the end of the window, moves with the set.
LEMMA MinMoves ==
    ASSUME NEW n \in Nat, NEW m \in Nat, NEW d \in Nat, d + n <= m, NEW p \in 1 .. n + 1,
           NEW S \in SUBSET (p .. n), NEW T \in SUBSET (d + p .. m),
           \A q \in p .. n : q \in S <=> d + q \in T,
           d + n < m => d + n + 1 \in T
    PROVE  Min({m + 1} \cup T) = d + Min({n + 1} \cup S) /\ Min({n + 1} \cup S) \in p .. n + 1
  <1> DEFINE A == {n + 1} \cup S
             B == {m + 1} \cup T
             a == Min(A)
             b == Min(B)
  <1>1. A \in SUBSET Nat /\ A # {} /\ B \in SUBSET Nat /\ B # {}
    OBVIOUS
  <1>2. a \in A /\ \A y \in A : a <= y
    BY <1>1, LeastOf
  <1>3. b \in B /\ \A y \in B : b <= y
    BY <1>1, LeastOf
  <1> HIDE DEF a, b
  <1>4. a \in p .. n + 1
    <2>1. a = n + 1 \/ a \in S
      BY <1>2
    <2>2. n + 1 \in p .. n + 1 /\ \A q \in p .. n : q \in p .. n + 1
      OBVIOUS
    <2>3. \A q \in S : q \in p .. n
      OBVIOUS
    <2> HIDE DEF A, B
    <2> QED
      BY <2>1, <2>2, <2>3
  <1>5. d + a \in B
    <2>1. CASE a = n + 1
      <3>1. CASE d + n < m
        BY <3>1, <2>1
      <3>2. CASE d + n = m
        BY <3>2, <2>1
      <3> QED
        BY <3>1, <3>2
    <2>2. CASE a # n + 1
      <3>1. a \in S /\ a \in p .. n
        BY <1>2, <2>2
      <3> QED
        BY <3>1
    <2> QED
      BY <2>1, <2>2
  <1>6. \A y \in B : d + a <= y
    <2> SUFFICES ASSUME NEW y \in B PROVE d + a <= y
      OBVIOUS
    <2>1. y \in Nat /\ d + p <= y
      OBVIOUS
    <2>2. CASE y > d + n
      BY <2>1, <2>2, <1>4
    <2>3. CASE ~(y > d + n)
      <3>1. y \in T /\ y - d \in p .. n
        BY <2>1, <2>3
      <3>2. d + (y - d) = y
        BY <2>1
      <3>3. y - d \in S
        BY <3>1, <3>2
      <3>4. a <= y - d
        BY <1>2, <3>3
      <3> QED
        BY <3>4, <2>1, <1>4
    <2> QED
      BY <2>2, <2>3
  <1>7. b = d + a
    <2>1. b <= d + a /\ d + a <= b
      BY <1>3, <1>5, <1>6
    <2>2. b \in Nat
      BY <1>1, <1>3
    <2> QED
      BY <1>4, <2>1, <2>2
  <1> QED
    BY <1>4, <1>7 DEF a, b

\* The positions T of w are the positions U of ls, and what stops w is not among them.
Moved(T, U, n, d) ==
    /\ n + 1 \notin T /\ d + n + 1 \notin U
    /\ \A q \in 1 .. n : q \in T <=> d + q \in U

\* The next line that is not skipped, in the window and around it.
LEMMA SolidMoves ==
    ASSUME NEW ls, NEW w, NEW d, Window(ls, w, d), NEW K, NEW L, Moved(K, L, Len(w), d),
           NEW p \in 1 .. Len(w) + 1
    PROVE  /\ NextSolid(ls, d + p, L) = d + NextSolid(w, p, K)
           /\ NextSolid(w, p, K) \in p .. Len(w) + 1
  <1> DEFINE n == Len(w)
             m == Len(ls)
             S == {q \in p .. n : q \notin K}
             T == {q \in d + p .. m : q \notin L}
  <1>1. n \in Nat /\ m \in Nat /\ d \in Nat /\ d + n <= m
    BY SeqFacts DEF Window
  <1>2. p \in 1 .. n + 1 /\ S \in SUBSET (p .. n) /\ T \in SUBSET (d + p .. m)
    OBVIOUS
  <1>3. \A q \in p .. n : q \in S <=> d + q \in T
    <2> SUFFICES ASSUME NEW q \in p .. n PROVE q \in S <=> d + q \in T
      OBVIOUS
    <2>1. q \in 1 .. n /\ d + q \in d + p .. m
      BY <1>1
    <2>2. q \in K <=> d + q \in L
      BY <2>1 DEF Moved
    <2> QED
      BY <2>1, <2>2
  <1>4. d + n < m => d + n + 1 \in T
    BY <1>1, <1>2 DEF Moved
  <1> HIDE DEF S, T
  <1>5. Min({m + 1} \cup T) = d + Min({n + 1} \cup S) /\ Min({n + 1} \cup S) \in p .. n + 1
    <2> HIDE DEF n, m
    <2> QED
      BY <1>1, <1>2, <1>3, <1>4, MinMoves
  <1> QED
    BY <1>5 DEF NextSolid, S, T

\* The end of a run of lines, in the window and around it.
LEMMA ReachMoves ==
    ASSUME NEW ls, NEW w, NEW d, Window(ls, w, d),
           NEW A, NEW B, Moved(A, B, Len(w), d),
           NEW K, NEW L, Moved(K, L, Len(w), d),
           NEW M, NEW N, Moved(M, N, Len(w), d),
           NEW p \in 1 .. Len(w) + 1
    PROVE  /\ Reach(ls, d + p, B, L, N) = d + Reach(w, p, A, K, M)
           /\ Reach(w, p, A, K, M) \in p .. Len(w) + 1
  <1> DEFINE n == Len(w)
             m == Len(ls)
             S == {q \in p .. n : IF Blank(w[q]) THEN NextSolid(w, q + 1, K) \notin M ELSE q \notin A}
             T == {q \in d + p .. m : IF Blank(ls[q]) THEN NextSolid(ls, q + 1, L) \notin N ELSE q \notin B}
  <1>1. n \in Nat /\ m \in Nat /\ d \in Nat /\ d + n <= m
    BY SeqFacts DEF Window
  <1>2. p \in 1 .. n + 1 /\ S \in SUBSET (p .. n) /\ T \in SUBSET (d + p .. m)
    OBVIOUS
  <1>3. \A q \in p .. n : q \in S <=> d + q \in T
    <2> SUFFICES ASSUME NEW q \in p .. n PROVE q \in S <=> d + q \in T
      OBVIOUS
    <2>1. q \in 1 .. n /\ d + q \in d + p .. m /\ q + 1 \in 1 .. n + 1 /\ (d + q) + 1 = d + (q + 1)
      BY <1>1
    <2>2. w[q] = ls[d + q]
      BY <2>1 DEF Window
    <2> DEFINE r == NextSolid(w, q + 1, K)
    <2>3. NextSolid(ls, d + (q + 1), L) = d + r /\ r \in q + 1 .. n + 1
      BY <2>1, SolidMoves
    <2> HIDE DEF r
    <2>4. r \in M <=> d + r \in N
      <3>1. r \in 1 .. n \/ r = n + 1
        BY <2>1, <2>3, <1>1
      <3>2. d + (n + 1) = d + n + 1
        BY <1>1
      <3> QED
        BY <3>1, <3>2 DEF Moved
    <2>5. q \in A <=> d + q \in B
      BY <2>1 DEF Moved
    <2>6. q \in S <=> IF Blank(w[q]) THEN r \notin M ELSE q \notin A
      BY DEF r
    <2>7. d + q \in T <=> IF Blank(ls[d + q]) THEN NextSolid(ls, (d + q) + 1, L) \notin N ELSE d + q \notin B
      BY <2>1
    <2> HIDE DEF S, T
    <2> QED
      BY <2>1, <2>2, <2>3, <2>4, <2>5, <2>6, <2>7
  <1>4. d + n < m => d + n + 1 \in T
    <2> SUFFICES ASSUME d + n < m PROVE d + n + 1 \in T
      OBVIOUS
    <2>1. ls[d + n + 1].kind = "node" /\ d + n + 1 \in d + p .. m
      BY <1>1, <1>2 DEF Window
    <2>2. ~Blank(ls[d + n + 1])
      BY <2>1 DEF Blank, Is
    <2> QED
      BY <2>1, <2>2 DEF Moved
  <1> HIDE DEF S, T
  <1>5. Min({m + 1} \cup T) = d + Min({n + 1} \cup S) /\ Min({n + 1} \cup S) \in p .. n + 1
    <2> HIDE DEF n, m
    <2> QED
      BY <1>1, <1>2, <1>3, <1>4, MinMoves
  <1> QED
    BY <1>5 DEF Reach, S, T

\* The lines of some kinds move with the window; a declaration ends it.
LEMMA OfMoves ==
    ASSUME NEW ls, NEW w, NEW d, Window(ls, w, d), NEW kinds, "node" \notin kinds
    PROVE  Moved(Of(w, kinds), Of(ls, kinds), Len(w), d)
  <1>1. /\ Len(w) \in Nat /\ Len(ls) \in Nat /\ d \in Nat /\ d + Len(w) <= Len(ls)
        /\ DOMAIN w = 1 .. Len(w) /\ DOMAIN ls = 1 .. Len(ls)
    BY SeqFacts DEF Window
  <1>2. \A q \in 1 .. Len(w) : w[q] = ls[d + q] /\ d + q \in 1 .. Len(ls)
    BY <1>1 DEF Window
  <1>3. Len(w) + 1 \notin Of(w, kinds)
    BY <1>1 DEF Of
  <1>4. d + Len(w) + 1 \notin Of(ls, kinds)
    <2>1. CASE d + Len(w) < Len(ls)
      BY <2>1 DEF Window, Of, Is
    <2>2. CASE ~(d + Len(w) < Len(ls))
      BY <1>1, <2>2 DEF Of
    <2> QED
      BY <2>1, <2>2
  <1> QED
    BY <1>1, <1>2, <1>3, <1>4 DEF Moved, Of

\* The union of two sets of positions that move.
LEMMA MovedSets ==
    ASSUME NEW n, NEW d, NEW A, NEW B, Moved(A, B, n, d), NEW C, NEW D, Moved(C, D, n, d)
    PROVE  Moved(A \cup C, B \cup D, n, d)
  BY DEF Moved

\* The lines of some kinds that are indented by base or more, and all such lines but the declarations.
LEMMA DeepMoves ==
    ASSUME NEW ls, NEW w, NEW d, Window(ls, w, d), NEW kinds, "node" \notin kinds, NEW base
    PROVE  /\ Moved(Of(w, kinds) \cap Deep(w, base), Of(ls, kinds) \cap Deep(ls, base), Len(w), d)
           /\ Moved(Deep(w, base) \ NodeLines(w), Deep(ls, base) \ NodeLines(ls), Len(w), d)
  <1>1. /\ Len(w) \in Nat /\ Len(ls) \in Nat /\ d \in Nat /\ d + Len(w) <= Len(ls)
        /\ DOMAIN w = 1 .. Len(w) /\ DOMAIN ls = 1 .. Len(ls)
    BY SeqFacts DEF Window
  <1>2. \A q \in 1 .. Len(w) : w[q] = ls[d + q] /\ d + q \in 1 .. Len(ls)
    BY <1>1 DEF Window
  <1>3. Moved(Of(w, kinds), Of(ls, kinds), Len(w), d)
    BY OfMoves
  <1>4. \A q \in 1 .. Len(w) : q \in Deep(w, base) <=> d + q \in Deep(ls, base)
    BY <1>1, <1>2 DEF Deep
  <1>5. \A q \in 1 .. Len(w) : q \in NodeLines(w) <=> d + q \in NodeLines(ls)
    BY <1>1, <1>2 DEF NodeLines, Of
  <1>6. Len(w) + 1 \notin Deep(w, base)
    BY <1>1 DEF Deep
  <1>7. d + Len(w) + 1 \notin Deep(ls, base) \ NodeLines(ls)
    <2>1. CASE d + Len(w) < Len(ls)
      <3>1. ls[d + Len(w) + 1].kind = "node" /\ d + Len(w) + 1 \in DOMAIN ls
        BY <1>1, <2>1 DEF Window
      <3> QED
        BY <3>1 DEF NodeLines, Of, Is
    <2>2. CASE ~(d + Len(w) < Len(ls))
      BY <1>1, <2>2 DEF Deep
    <2> QED
      BY <2>1, <2>2
  <1> QED
    BY <1>3, <1>4, <1>5, <1>6, <1>7 DEF Moved

-------------------------------------------------------------------------------
(***************************************************************************)
(* Lists, blocks and raw text                                              *)
(***************************************************************************)

\* The positions of a window, and its lines in place.
LEMMA WindowFacts ==
    ASSUME NEW ls, NEW w, NEW d, Window(ls, w, d)
    PROVE  /\ Len(w) \in Nat /\ Len(ls) \in Nat /\ d \in Nat /\ d + Len(w) <= Len(ls)
           /\ DOMAIN w = 1 .. Len(w) /\ DOMAIN ls = 1 .. Len(ls)
           /\ \A q \in 1 .. Len(w) : w[q] = ls[d + q] /\ d + q \in 1 .. Len(ls)
           /\ \A q \in 1 .. Len(w) : w[q] \in Lines
           /\ \A q \in 1 .. Len(w) + 1 : (d + q) + 1 = d + (q + 1)
  BY SeqFacts DEF Window

\* A position at the end of the window, in the lines around it.
LEMMA WindowEnd ==
    ASSUME NEW ls, NEW w, NEW d, Window(ls, w, d), NEW p \in 1 .. Len(w) + 1, p > Len(w)
    PROVE  d + p > Len(ls) \/ (d + p \in 1 .. Len(ls) /\ ls[d + p].kind = "node")
  <1>1. Len(w) \in Nat /\ Len(ls) \in Nat /\ d \in Nat
    BY WindowFacts
  <1>2. p = Len(w) + 1 /\ d + p = d + Len(w) + 1
    BY <1>1
  <1> QED
    BY <1>1, <1>2 DEF Window

\* What is made of a run of lines is the same in the window.
LEMMA PartsMove ==
    ASSUME NEW ls, NEW w, NEW d, Window(ls, w, d), NEW p \in 1 .. Len(w) + 1, NEW q \in p .. Len(w) + 1
    PROVE  Upto(ls, d + p, d + q) = Upto(w, p, q)
  <1> DEFINE s == SubSeq(w, p, q - 1)
             t == SubSeq(ls, d + p, (d + q) - 1)
  <1>1. /\ Len(w) \in Nat /\ Len(ls) \in Nat /\ d \in Nat /\ d + Len(w) <= Len(ls)
        /\ \A i \in 1 .. Len(w) : w[i] = ls[d + i] /\ w[i] \in Lines
    BY WindowFacts
  <1>2. \A i \in p .. q - 1 : w[i] \in Lines
    BY <1>1
  <1>3. \A i \in d + p .. (d + q) - 1 : ls[i] \in Lines
    BY <1>1, SeqFacts DEF Window
  <1>4. /\ s \in Seq(Lines) /\ Len(s) = q - p
        /\ \A i \in 1 .. q - p : s[i] = w[p + i - 1]
    <2>1. p \in Int /\ q - 1 \in Int /\ (q - 1) - p + 1 = q - p
      BY <1>1
    <2>2. /\ s \in Seq(Lines) /\ Len(s) = IF p <= q - 1 THEN (q - 1) - p + 1 ELSE 0
          /\ \A i \in 1 .. (q - 1) - p + 1 : s[i] = w[p + i - 1]
      BY <1>2, <2>1, SubSeqProperties
    <2> HIDE DEF s
    <2> QED
      BY <2>1, <2>2, <1>1
  <1>5. /\ t \in Seq(Lines) /\ Len(t) = q - p
        /\ \A i \in 1 .. q - p : t[i] = ls[(d + p) + i - 1]
    <2>1. d + p \in Int /\ (d + q) - 1 \in Int /\ ((d + q) - 1) - (d + p) + 1 = q - p
      BY <1>1
    <2>2. /\ t \in Seq(Lines) /\ Len(t) = IF d + p <= (d + q) - 1 THEN ((d + q) - 1) - (d + p) + 1 ELSE 0
          /\ \A i \in 1 .. ((d + q) - 1) - (d + p) + 1 : t[i] = ls[(d + p) + i - 1]
      BY <1>3, <2>1, SubSeqProperties
    <2> HIDE DEF t
    <2> QED
      BY <2>1, <2>2, <1>1
  <1>6. ASSUME NEW i \in 1 .. q - p
        PROVE  s[i] = t[i]
    <2>1. p + i - 1 \in 1 .. Len(w) /\ d + (p + i - 1) = (d + p) + i - 1
      BY <1>1
    <2>2. w[p + i - 1] = ls[d + (p + i - 1)]
      BY <1>1, <2>1
    <2> HIDE DEF s, t
    <2> QED
      BY <1>4, <1>5, <2>1, <2>2
  <1> HIDE DEF s, t
  <1>7. s = t
    BY <1>4, <1>5, <1>6, SeqEqual
  <1>8. SubSeq(w, p, q - 1) = SubSeq(ls, d + p, (d + q) - 1)
    BY <1>7 DEF s, t
  <1> QED
    BY <1>8 DEF Upto

MovedList(r, s, d, p, n) == s.pos = d + r.pos /\ s.items = r.items /\ r.pos \in p .. n + 1
MovedText(r, s, d, p, n) == s.pos = d + r.pos /\ s.text = r.text /\ r.pos \in p .. n + 1

\* Lists of items made of a run of lines.
LEMMA ListsMove ==
    ASSUME NEW ls, NEW w, NEW d, Window(ls, w, d), NEW p \in 1 .. Len(w) + 1, NEW q \in p .. Len(w) + 1
    PROVE  MovedList(ListUpto(w, p, q), ListUpto(ls, d + p, d + q), d, p, Len(w))
  BY PartsMove DEF ListUpto, MovedList

\* Texts made of a run of lines.
LEMMA TextsMove ==
    ASSUME NEW ls, NEW w, NEW d, Window(ls, w, d), NEW p \in 1 .. Len(w) + 1, NEW q \in p .. Len(w) + 1,
           NEW base
    PROVE  MovedText(TextUpto(w, p, q, base), TextUpto(ls, d + p, d + q, base), d, p, Len(w))
  BY PartsMove DEF TextUpto, MovedText

\* Raw lines made of a run of lines.
LEMMA RawsMove ==
    ASSUME NEW ls, NEW w, NEW d, Window(ls, w, d), NEW p \in 1 .. Len(w) + 1, NEW q \in p .. Len(w) + 1
    PROVE  MovedText(RawUpto(w, p, q), RawUpto(ls, d + p, d + q), d, p, Len(w))
  <1>1. (d + q) - (d + p) = q - p
    BY WindowFacts
  <1>2. \A i \in 1 .. q - p : w[p + i - 1].raw = ls[(d + p) + i - 1].raw
    <2> SUFFICES ASSUME NEW i \in 1 .. q - p PROVE w[p + i - 1] = ls[(d + p) + i - 1]
      OBVIOUS
    <2>1. p + i - 1 \in 1 .. Len(w) /\ d + (p + i - 1) = (d + p) + i - 1
      BY WindowFacts
    <2> QED
      BY <2>1, WindowFacts
  <1> QED
    BY <1>1, <1>2 DEF RawUpto, MovedText

\* The kinds of lines that lists, blocks and raw text are made of.
LEMMA KindsMove ==
    ASSUME NEW ls, NEW w, NEW d, Window(ls, w, d)
    PROVE  /\ Moved(Items(w), Items(ls), Len(w), d)
           /\ Moved(Blanks(w), Blanks(ls), Len(w), d)
           /\ Moved(Remarks(w), Remarks(ls), Len(w), d)
           /\ Moved(Of(w, {"plain", "item"}), Of(ls, {"plain", "item"}), Len(w), d)
           /\ Moved(Items(w) \cup Remarks(w), Items(ls) \cup Remarks(ls), Len(w), d)
           /\ Moved(Blanks(w) \cup Remarks(w), Blanks(ls) \cup Remarks(ls), Len(w), d)
  <1>1. /\ Moved(Items(w), Items(ls), Len(w), d)
        /\ Moved(Blanks(w), Blanks(ls), Len(w), d)
        /\ Moved(Remarks(w), Remarks(ls), Len(w), d)
        /\ Moved(Of(w, {"plain", "item"}), Of(ls, {"plain", "item"}), Len(w), d)
    <2>1. "node" \notin {"item"} /\ "node" \notin {"blank"} /\ "node" \notin {"comment", "expect"}
          /\ "node" \notin {"plain", "item"}
      OBVIOUS
    <2> QED
      BY <2>1, OfMoves DEF Items, Blanks, Remarks
  <1> QED
    BY <1>1, MovedSets

\* skip_blanks stops at the same line.
LEMMA SkipBlanksMoves ==
    ASSUME NEW ls, NEW w, NEW d, Window(ls, w, d), NEW p \in 1 .. Len(w) + 1
    PROVE  SkipBlanks(ls, d + p) = d + SkipBlanks(w, p) /\ SkipBlanks(w, p) \in p .. Len(w) + 1
  BY KindsMove, SolidMoves DEF SkipBlanks

\* parse_indented_list gives the same items.
LEMMA IndentedListMoves ==
    ASSUME NEW ls, NEW w, NEW d, Window(ls, w, d), NEW p \in 1 .. Len(w) + 1
    PROVE  MovedList(ParseIndentedList(w, p), ParseIndentedList(ls, d + p), d, p, Len(w))
  <1> DEFINE q == Reach(w, p, Items(w) \cup Remarks(w), Blanks(w) \cup Remarks(w), Items(w))
             r == Reach(ls, d + p, Items(ls) \cup Remarks(ls), Blanks(ls) \cup Remarks(ls), Items(ls))
  <1>1. r = d + q /\ q \in p .. Len(w) + 1
    BY KindsMove, ReachMoves
  <1> HIDE DEF q, r
  <1>2. MovedList(ListUpto(w, p, q), ListUpto(ls, d + p, r), d, p, Len(w))
    BY <1>1, ListsMove
  <1> QED
    BY <1>2 DEF ParseIndentedList, q, r

\* parse_block gives the same text.
LEMMA BlockMoves ==
    ASSUME NEW ls, NEW w, NEW d, Window(ls, w, d), NEW p \in 1 .. Len(w) + 1
    PROVE  MovedText(ParseBlock(w, p), ParseBlock(ls, d + p), d, p, Len(w))
  <1> DEFINE B == Of(w, {"plain", "item"})
             C == Of(ls, {"plain", "item"})
             q == Reach(w, p, B, Blanks(w), B)
             r == Reach(ls, d + p, C, Blanks(ls), C)
             f == NextSolid(w, p, Blanks(w))
             g == NextSolid(ls, d + p, Blanks(ls))
             a == IF f \in B THEN w[f].indent ELSE 0
             b == IF g \in C THEN ls[g].indent ELSE 0
  <1>1. Moved(B, C, Len(w), d) /\ Moved(Blanks(w), Blanks(ls), Len(w), d)
    BY KindsMove
  <1>2. r = d + q /\ q \in p .. Len(w) + 1
    <2> HIDE DEF B, C
    <2> QED
      BY <1>1, ReachMoves
  <1>3. g = d + f /\ f \in p .. Len(w) + 1
    BY <1>1, SolidMoves
  <1> HIDE DEF B, C, q, r, f, g
  <1>4. a = b
    <2>1. f \in 1 .. Len(w) \/ f = Len(w) + 1
      BY <1>3, WindowFacts
    <2>2. CASE f \in 1 .. Len(w)
      <3>1. (f \in B <=> g \in C) /\ w[f] = ls[g]
        BY <1>1, <1>3, <2>2, WindowFacts DEF Moved
      <3> QED
        BY <3>1
    <2>3. CASE f = Len(w) + 1
      <3>1. d + (Len(w) + 1) = d + Len(w) + 1
        BY WindowFacts
      <3>2. f \notin B /\ g \notin C
        BY <1>1, <1>3, <2>3, <3>1 DEF Moved
      <3> QED
        BY <3>2
    <2> QED
      BY <2>1, <2>2, <2>3
  <1> HIDE DEF a, b
  <1>5. MovedText(TextUpto(w, p, q, a), TextUpto(ls, d + p, r, b), d, p, Len(w))
    BY <1>2, <1>4, TextsMove
  <1> QED
    BY <1>5 DEF ParseBlock, B, C, q, r, f, g, a, b

\* The raw lines of a structured field.
LEMMA StructuredRawMoves ==
    ASSUME NEW ls, NEW w, NEW d, Window(ls, w, d), NEW p \in 1 .. Len(w) + 1
    PROVE  /\ MovedText(CollectStructuredRaw(w, p), CollectStructuredRaw(ls, d + p), d, p, Len(w))
           /\ SkipFieldBody(ls, d + p) = d + SkipFieldBody(w, p) /\ SkipFieldBody(w, p) \in p .. Len(w) + 1
  <1> DEFINE T(l) == Of(l, {"item", "plain"}) \cup (Of(l, {"scalar", "list", "start", "body"}) \cap Deep(l, 1))
             M(l) == Of(l, {"item", "plain", "scalar", "list", "start"}) \cap Deep(l, 1)
             q == Reach(w, p, T(w), Blanks(w), M(w))
             r == Reach(ls, d + p, T(ls), Blanks(ls), M(ls))
  <1>0. /\ "node" \notin {"item", "plain"} /\ "node" \notin {"scalar", "list", "start", "body"}
        /\ "node" \notin {"item", "plain", "scalar", "list", "start"}
    OBVIOUS
  <1>1. Moved(T(w), T(ls), Len(w), d)
    <2>1. Moved(Of(w, {"item", "plain"}), Of(ls, {"item", "plain"}), Len(w), d)
      BY <1>0, OfMoves
    <2>2. Moved(Of(w, {"scalar", "list", "start", "body"}) \cap Deep(w, 1),
                Of(ls, {"scalar", "list", "start", "body"}) \cap Deep(ls, 1), Len(w), d)
      BY <1>0, DeepMoves
    <2> QED
      BY <2>1, <2>2, MovedSets
  <1>2. Moved(M(w), M(ls), Len(w), d)
    BY <1>0, DeepMoves
  <1>3. Moved(Blanks(w), Blanks(ls), Len(w), d)
    BY KindsMove
  <1> HIDE DEF T, M
  <1>4. r = d + q /\ q \in p .. Len(w) + 1
    BY <1>1, <1>2, <1>3, ReachMoves
  <1> HIDE DEF q, r
  <1>5. MovedText(RawUpto(w, p, q), RawUpto(ls, d + p, r), d, p, Len(w))
    BY <1>4, RawsMove
  <1>6. CollectStructuredRaw(w, p) = RawUpto(w, p, q) /\ CollectStructuredRaw(ls, d + p) = RawUpto(ls, d + p, r)
    BY DEF CollectStructuredRaw, q, r, T, M
  <1> QED
    BY <1>5, <1>6 DEF SkipFieldBody, MovedText

\* The lines of a body are skipped in the same way.
LEMMA BodyMoves ==
    ASSUME NEW ls, NEW w, NEW d, Window(ls, w, d), NEW p \in 1 .. Len(w) + 1, NEW base
    PROVE  MovedText(Body(w, p, base), Body(ls, d + p, base), d, p, Len(w))
  <1> DEFINE T(l) == Deep(l, base) \ NodeLines(l)
             q == Reach(w, p, T(w), Blanks(w), T(w))
             r == Reach(ls, d + p, T(ls), Blanks(ls), T(ls))
  <1>1. Moved(T(w), T(ls), Len(w), d) /\ Moved(Blanks(w), Blanks(ls), Len(w), d)
    <2>1. "node" \notin {"item"}
      OBVIOUS
    <2> QED
      BY <2>1, DeepMoves, KindsMove
  <1> HIDE DEF T
  <1>2. r = d + q /\ q \in p .. Len(w) + 1
    BY <1>1, ReachMoves
  <1> HIDE DEF q, r
  <1>3. MovedText(TextUpto(w, p, q, base), TextUpto(ls, d + p, r, base), d, p, Len(w))
    BY <1>2, TextsMove
  <1> QED
    BY <1>3 DEF Body, q, r, T

\* The indentation that is detected for a field.
LEMMA BaseIndentMoves ==
    ASSUME NEW ls, NEW w, NEW d, Window(ls, w, d), NEW p \in 1 .. Len(w) + 1
    PROVE  DetectBaseIndent(ls, d + p) = DetectBaseIndent(w, p)
  <1> DEFINE f == SkipBlanks(w, p)
             g == SkipBlanks(ls, d + p)
  <1>1. g = d + f /\ f \in p .. Len(w) + 1
    BY SkipBlanksMoves
  <1>2. /\ DetectBaseIndent(w, p) = IF f > Len(w) \/ Is(w[f], {"node"}) THEN NoIndent ELSE w[f].indent
        /\ DetectBaseIndent(ls, d + p) = IF g > Len(ls) \/ Is(ls[g], {"node"}) THEN NoIndent ELSE ls[g].indent
    BY DEF DetectBaseIndent
  <1> HIDE DEF f, g
  <1>3. f \in 1 .. Len(w) + 1
    BY <1>1
  <1>4. CASE f > Len(w)
    BY <1>1, <1>2, <1>3, <1>4, WindowEnd DEF Is
  <1>5. CASE ~(f > Len(w))
    <2>1. f \in 1 .. Len(w)
      BY <1>3, <1>5, WindowFacts
    <2>2. w[f] = ls[g] /\ ~(g > Len(ls))
      BY <1>1, <2>1, WindowFacts
    <2> QED
      BY <1>2, <1>5, <2>2
  <1> QED
    BY <1>4, <1>5

\* The text after a body indicator.
LEMMA PipeBodyMoves ==
    ASSUME NEW ls, NEW w, NEW d, Window(ls, w, d), NEW p \in 1 .. Len(w)
    PROVE  MovedText(CollectPipeBody(w, p), CollectPipeBody(ls, d + p), d, p + 1, Len(w))
  <1>1. w[p] = ls[d + p] /\ p + 1 \in 1 .. Len(w) + 1 /\ (d + p) + 1 = d + (p + 1)
    BY WindowFacts
  <1>2. DetectBaseIndent(ls, (d + p) + 1) = DetectBaseIndent(w, p + 1)
    BY <1>1, BaseIndentMoves
  <1>3. PipeBase(ls, d + p) = PipeBase(w, p)
    BY <1>1, <1>2 DEF PipeBase
  <1> DEFINE base == PipeBase(w, p)
  <1> HIDE DEF base
  <1>4. MovedText(PipeBody(w, p + 1, base), PipeBody(ls, (d + p) + 1, base), d, p + 1, Len(w))
    <2>1. CASE base = NoIndent
      BY <1>1, <2>1 DEF PipeBody, MovedText
    <2>2. CASE base # NoIndent
      <3>1. MovedText(Body(w, p + 1, base), Body(ls, d + (p + 1), base), d, p + 1, Len(w))
        BY <1>1, BodyMoves
      <3> QED
        BY <1>1, <2>2, <3>1 DEF PipeBody
    <2> QED
      BY <2>1, <2>2
  <1> QED
    BY <1>3, <1>4 DEF CollectPipeBody, base

\* Whether a line is still within its field.
LEMMA WithinMoves ==
    ASSUME NEW ls, NEW w, NEW d, Window(ls, w, d), NEW p \in 1 .. Len(w) + 1, NEW base
    PROVE  /\ IsWithinField(ls, d + p, base) <=> IsWithinField(w, p, base)
           /\ IsWithinField(w, p, base) => p \in 1 .. Len(w) /\ w[p] = ls[d + p]
  <1>1. CASE p > Len(w)
    <2>1. ~IsWithinField(w, p, base)
      BY <1>1, WindowFacts DEF IsWithinField
    <2>2. ~IsWithinField(ls, d + p, base)
      <3>1. d + p > Len(ls) \/ ls[d + p].kind = "node"
        BY <1>1, WindowEnd
      <3>2. d + p > Len(ls) => ~(d + p <= Len(ls))
        BY WindowFacts
      <3> QED
        BY <3>1, <3>2 DEF IsWithinField, Blank, Is
    <2> QED
      BY <2>1, <2>2
  <1>2. CASE ~(p > Len(w))
    <2>1. p \in 1 .. Len(w) /\ p <= Len(w)
      BY <1>2, WindowFacts
    <2>2. w[p] = ls[d + p] /\ d + p <= Len(ls)
      BY <2>1, WindowFacts
    <2> QED
      BY <2>1, <2>2 DEF IsWithinField
  <1> QED
    BY <1>1, <1>2

\* The items of a list within an entry.
LEMMA NestedMoves ==
    ASSUME NEW ls, NEW w, NEW d, Window(ls, w, d), NEW p \in 1 .. Len(w) + 1, NEW si
    PROVE  /\ MovedList(NestedItems(w, p, si), NestedItems(ls, d + p, si), d, p, Len(w))
           /\ AfterNested(ls, d + p, si) = d + AfterNested(w, p, si)
           /\ AfterNested(w, p, si) \in p .. Len(w) + 1
  <1> DEFINE S(l) == Blanks(l) \cup (Items(l) \cap Deep(l, si))
             T(l) == Blanks(l) \cup (Deep(l, si) \ NodeLines(l))
             q == NextSolid(w, p, S(w))
             r == NextSolid(ls, d + p, S(ls))
  <1>1. Moved(S(w), S(ls), Len(w), d) /\ Moved(T(w), T(ls), Len(w), d)
    <2>1. "node" \notin {"item"}
      OBVIOUS
    <2>2. Moved(Blanks(w), Blanks(ls), Len(w), d)
      BY KindsMove
    <2>3. /\ Moved(Items(w) \cap Deep(w, si), Items(ls) \cap Deep(ls, si), Len(w), d)
          /\ Moved(Deep(w, si) \ NodeLines(w), Deep(ls, si) \ NodeLines(ls), Len(w), d)
      BY <2>1, DeepMoves DEF Items
    <2> QED
      BY <2>2, <2>3, MovedSets
  <1> HIDE DEF S, T
  <1>2. r = d + q /\ q \in p .. Len(w) + 1
    BY <1>1, SolidMoves
  <1>3. NextSolid(ls, d + p, T(ls)) = d + NextSolid(w, p, T(w)) /\ NextSolid(w, p, T(w)) \in p .. Len(w) + 1
    BY <1>1, SolidMoves
  <1> HIDE DEF q, r
  <1>4. MovedList(ListUpto(w, p, q), ListUpto(ls, d + p, r), d, p, Len(w))
    BY <1>2, ListsMove
  <1>5. MovedList(NestedItems(w, p, si), NestedItems(ls, d + p, si), d, p, Len(w))
    BY <1>4 DEF NestedItems, q, r, S
  <1> QED
    BY <1>3, <1>5 DEF AfterNested, T

-------------------------------------------------------------------------------
(***************************************************************************)
(* Loops                                                                   *)
(***************************************************************************)

IsSeq(s) == \E V : s \in Seq(V)

\* Two lists of anything joined are a list of anything.
LEMMA SeqsJoin ==
    ASSUME NEW s, IsSeq(s), NEW t, IsSeq(t)
    PROVE  IsSeq(Join(s, t))
  <1>1. PICK V : s \in Seq(V)
    BY DEF IsSeq
  <1>2. PICK W : t \in Seq(W)
    BY DEF IsSeq
  <1>3. s \in Seq(V \cup W) /\ t \in Seq(V \cup W)
    <2>1. V \subseteq V \cup W /\ W \subseteq V \cup W
      OBVIOUS
    <2> HIDE DEF IsSeq
    <2> QED
      BY <1>1, <1>2, <2>1, SeqMonotonic
  <1>4. Join(s, t) \in Seq(V \cup W)
    BY <1>3, JoinFacts
  <1> QED
    BY <1>4 DEF IsSeq

\* A round of a loop in w, and the same round in the lines around w.
MovedRound(r, s, d, p, n) ==
    /\ s.pos = d + r.pos /\ s.found = r.found /\ s.errors = r.errors
    /\ s.more = r.more
    /\ r.pos \in p .. n + 1 /\ r.more \in BOOLEAN /\ (r.more => r.pos \in p + 1 .. n + 1)
    /\ IsSeq(r.found) /\ r.errors \in Seq(Codes)

\* The empty list is a list of anything.
LEMMA Nothing == IsSeq(<<>>) /\ <<>> \in Seq(Codes)
  <1>1. <<>> \in Seq(Codes)
    BY EmptySeq
  <1> QED
    BY <1>1 DEF IsSeq

\* One thing is a list.
LEMMA OneThing == \A x : IsSeq(<<x>>)
  <1> SUFFICES ASSUME NEW x PROVE IsSeq(<<x>>)
    OBVIOUS
  <1>1. <<x>> \in Seq({x})
    OBVIOUS
  <1> QED
    BY <1>1 DEF IsSeq

\* f is the function of Rounds from position k on.
IsFrom(f, round, k, n) ==
    f = [q \in k .. n |-> IF round[q].more THEN BeforeRounds(round[q], f[round[q].pos]) ELSE round[q]]

\* The function Rounds is defined by exists.
LEMMA FromExists ==
    ASSUME NEW n \in Nat, NEW round, \A q \in 1 .. n : round[q].more => round[q].pos \in q + 1 .. n
    PROVE  \E f : IsFrom(f, round, 1, n)
  <1> DEFINE Bad == {j \in 0 .. n : ~\E f : IsFrom(f, round, (n + 1) - j, n)}
  <1>1. ASSUME Bad # {} PROVE FALSE
    <2>0. Bad \in SUBSET Nat
      OBVIOUS
    <2>1. PICK j \in Bad : \A i \in Bad : j <= i
      BY <1>1, <2>0, LeastNumber
    <2> DEFINE k == (n + 1) - j
    <2>2. CASE j = 0
      <3> DEFINE f == [q \in n + 1 .. n |-> 0]
      <3>1. \A q \in n + 1 .. n : FALSE
        OBVIOUS
      <3>2. IsFrom(f, round, n + 1, n)
        BY <3>1 DEF IsFrom
      <3>3. (n + 1) - 0 = n + 1
        OBVIOUS
      <3> HIDE DEF f
      <3> QED
        BY <2>1, <2>2, <3>2, <3>3
    <2>3. CASE j # 0
      <3>1. j - 1 \in 0 .. n /\ j - 1 \notin Bad /\ (n + 1) - (j - 1) = k + 1 /\ k \in 1 .. n
        BY <2>1, <2>3
      <3>2. PICK g : IsFrom(g, round, k + 1, n)
        BY <3>1
      <3> HIDE DEF k
      <3>3. \A q \in k + 1 .. n :
                g[q] = IF round[q].more THEN BeforeRounds(round[q], g[round[q].pos]) ELSE round[q]
        BY <3>2 DEF IsFrom
      <3> DEFINE first == IF round[k].more THEN BeforeRounds(round[k], g[round[k].pos]) ELSE round[k]
                 f == [q \in k .. n |-> IF q = k THEN first ELSE g[q]]
      <3>4. \A q \in k + 1 .. n : f[q] = g[q] /\ f[k] = first
        BY <3>1
      <3>5. f[k] = first
        BY <3>1
      <3>6. DOMAIN f = k .. n /\ f = [q \in k .. n |-> f[q]]
        OBVIOUS
      <3> HIDE DEF f, first
      <3>7. \A q \in k .. n :
                f[q] = IF round[q].more THEN BeforeRounds(round[q], f[round[q].pos]) ELSE round[q]
        <4> SUFFICES ASSUME NEW q \in k .. n
                     PROVE  f[q] = IF round[q].more THEN BeforeRounds(round[q], f[round[q].pos]) ELSE round[q]
          OBVIOUS
        <4>1. q \in 1 .. n
          BY <3>1
        <4>2. round[q].more => round[q].pos \in k + 1 .. n
          <5>1. round[q].more => round[q].pos \in q + 1 .. n
            BY <4>1
          <5> QED
            BY <3>1, <4>1, <5>1
        <4>3. round[q].more => f[round[q].pos] = g[round[q].pos]
          BY <3>4, <4>2
        <4>4. CASE q = k
          BY <3>5, <4>3, <4>4 DEF first
        <4>5. CASE q # k
          <5>1. q \in k + 1 .. n
            BY <3>1, <4>1, <4>5
          <5>2. f[q] = g[q] /\ g[q] = IF round[q].more THEN BeforeRounds(round[q], g[round[q].pos]) ELSE round[q]
            BY <3>3, <3>4, <5>1
          <5> QED
            BY <4>3, <5>2
        <4> QED
          BY <4>4, <4>5
      <3>8. IsFrom(f, round, k, n)
        BY <3>6, <3>7 DEF IsFrom
      <3> QED
        BY <2>1, <3>8 DEF k
    <2> QED
      BY <2>2, <2>3
  <1>2. n \in 0 .. n /\ (n + 1) - n = 1
    OBVIOUS
  <1> QED
    BY <1>1, <1>2

\* What a loop does from a position: the round there, and the rest.
LEMMA RoundsUnfold ==
    ASSUME NEW n \in Nat, NEW round, DOMAIN round = 1 .. n,
           \A q \in 1 .. n : round[q].more => round[q].pos \in q + 1 .. n
    PROVE  \A q \in 1 .. n :
               Rounds(round, q) = IF round[q].more THEN BeforeRounds(round[q], Rounds(round, round[q].pos))
                                  ELSE round[q]
  <1> DEFINE from == CHOOSE f : f = [q \in DOMAIN round |->
                         IF round[q].more THEN BeforeRounds(round[q], f[round[q].pos]) ELSE round[q]]
  <1>1. PICK f : IsFrom(f, round, 1, n)
    BY FromExists
  <1>2. IsFrom(from, round, 1, n)
    <2>1. f = [q \in DOMAIN round |->
                         IF round[q].more THEN BeforeRounds(round[q], f[round[q].pos]) ELSE round[q]]
      BY <1>1 DEF IsFrom
    <2>2. from = [q \in DOMAIN round |->
                         IF round[q].more THEN BeforeRounds(round[q], from[round[q].pos]) ELSE round[q]]
      BY <2>1
    <2> HIDE DEF from
    <2> QED
      BY <2>2 DEF IsFrom
  <1>3. \A q : Rounds(round, q) = from[q]
    BY DEF Rounds
  <1> HIDE DEF from
  <1>4. \A q \in 1 .. n : from[q] = IF round[q].more THEN BeforeRounds(round[q], from[round[q].pos]) ELSE round[q]
    BY <1>2 DEF IsFrom
  <1> QED
    BY <1>3, <1>4

MovedLoop(r, s, d, p, n) ==
    /\ s.pos = d + r.pos /\ s.found = r.found /\ s.errors = r.errors
    /\ r.pos \in p .. n + 1
    /\ IsSeq(r.found) /\ r.errors \in Seq(Codes)

\* A loop whose every round moves with the window does so itself.
LEMMA RoundsMove ==
    ASSUME NEW n \in Nat, NEW m \in Nat, NEW d \in Nat, d + n <= m,
           NEW one, DOMAIN one = 1 .. n + 1, NEW two, DOMAIN two = 1 .. m + 1,
           \A q \in 1 .. m + 1 : two[q].more => two[q].pos \in q + 1 .. m + 1,
           \A q \in 1 .. n + 1 : MovedRound(one[q], two[d + q], d, q, n),
           NEW p \in 1 .. n + 1
    PROVE  MovedLoop(Rounds(one, p), Rounds(two, d + p), d, p, n)
  <1>1. \A q \in 1 .. n + 1 : one[q].more => one[q].pos \in q + 1 .. n + 1
    BY DEF MovedRound
  <1>2. \A q \in 1 .. n + 1 :
            Rounds(one, q) = IF one[q].more THEN BeforeRounds(one[q], Rounds(one, one[q].pos)) ELSE one[q]
    <2> DEFINE k == n + 1
    <2>1. k \in Nat /\ DOMAIN one = 1 .. k /\ \A q \in 1 .. k : one[q].more => one[q].pos \in q + 1 .. k
      BY <1>1
    <2> HIDE DEF k
    <2>2. \A q \in 1 .. k :
            Rounds(one, q) = IF one[q].more THEN BeforeRounds(one[q], Rounds(one, one[q].pos)) ELSE one[q]
      BY <2>1, RoundsUnfold
    <2> QED
      BY <2>2 DEF k
  <1>3. \A q \in 1 .. m + 1 :
            Rounds(two, q) = IF two[q].more THEN BeforeRounds(two[q], Rounds(two, two[q].pos)) ELSE two[q]
    BY RoundsUnfold
  <1> DEFINE Bad == {j \in 0 .. n : ~MovedLoop(Rounds(one, (n + 1) - j), Rounds(two, d + ((n + 1) - j)),
                                               d, (n + 1) - j, n)}
  <1>4. ASSUME Bad # {} PROVE FALSE
    <2>0. Bad \in SUBSET Nat
      OBVIOUS
    <2>1. PICK j \in Bad : \A i \in Bad : j <= i
      BY <1>4, <2>0, LeastNumber
    <2> DEFINE q == (n + 1) - j
    <2>2. q \in 1 .. n + 1 /\ d + q \in 1 .. m + 1
      OBVIOUS
    <2>3. \A r \in q + 1 .. n + 1 : MovedLoop(Rounds(one, r), Rounds(two, d + r), d, r, n)
      <3> SUFFICES ASSUME NEW r \in q + 1 .. n + 1
                   PROVE  MovedLoop(Rounds(one, r), Rounds(two, d + r), d, r, n)
        OBVIOUS
      <3>1. (n + 1) - r \in 0 .. n /\ ~(j <= (n + 1) - r) /\ (n + 1) - ((n + 1) - r) = r
        OBVIOUS
      <3>2. (n + 1) - r \notin Bad
        BY <2>1, <3>1
      <3> QED
        BY <3>1, <3>2
    <2> HIDE DEF q
    <2> DEFINE a == one[q]
               b == two[d + q]
    <2>4. MovedRound(a, b, d, q, n)
      BY <2>2
    <2>5. /\ Rounds(one, q) = IF a.more THEN BeforeRounds(a, Rounds(one, a.pos)) ELSE a
          /\ Rounds(two, d + q) = IF b.more THEN BeforeRounds(b, Rounds(two, b.pos)) ELSE b
      BY <1>2, <1>3, <2>2
    <2> HIDE DEF a, b
    <2>6. MovedLoop(Rounds(one, q), Rounds(two, d + q), d, q, n)
      <3>1. CASE ~a.more
        <4>1. Rounds(one, q) = a /\ Rounds(two, d + q) = b
          BY <2>4, <2>5, <3>1 DEF MovedRound
        <4> QED
          BY <2>4, <4>1 DEF MovedRound, MovedLoop
      <3>2. CASE a.more
        <4> DEFINE r == Rounds(one, a.pos)
                   s == Rounds(two, b.pos)
        <4>1. a.pos \in q + 1 .. n + 1 /\ b.pos = d + a.pos /\ b.more
          BY <2>4, <3>2 DEF MovedRound
        <4>2. MovedLoop(r, s, d, a.pos, n)
          BY <2>3, <4>1
        <4>3. Rounds(one, q) = BeforeRounds(a, r) /\ Rounds(two, d + q) = BeforeRounds(b, s)
          BY <2>5, <3>2, <4>1
        <4> HIDE DEF r, s
        <4>4. /\ BeforeRounds(a, r).pos = r.pos /\ BeforeRounds(b, s).pos = s.pos
              /\ BeforeRounds(a, r).found = Join(a.found, r.found)
              /\ BeforeRounds(b, s).found = Join(b.found, s.found)
              /\ BeforeRounds(a, r).errors = Join(a.errors, r.errors)
              /\ BeforeRounds(b, s).errors = Join(b.errors, s.errors)
          BY Zenon DEF BeforeRounds, Join
        <4>5. r.pos \in q .. n + 1
          BY <2>2, <4>1, <4>2 DEF MovedLoop
        <4>6. /\ a.found = b.found /\ r.found = s.found /\ a.errors = b.errors /\ r.errors = s.errors
              /\ IsSeq(a.found) /\ IsSeq(r.found) /\ a.errors \in Seq(Codes) /\ r.errors \in Seq(Codes)
              /\ s.pos = d + r.pos
          BY <2>4, <4>2 DEF MovedRound, MovedLoop
        <4>7. IsSeq(Join(a.found, r.found))
          BY <4>6, SeqsJoin
        <4>8. Join(a.errors, r.errors) \in Seq(Codes)
          BY <4>6, JoinFacts
        <4> QED
          BY <4>3, <4>4, <4>5, <4>6, <4>7, <4>8 DEF MovedLoop
      <3> QED
        BY <2>4, <3>1, <3>2 DEF MovedRound
    <2> QED
      BY <2>1, <2>6 DEF q
  <1>5. (n + 1) - p \in 0 .. n /\ (n + 1) - ((n + 1) - p) = p
    OBVIOUS
  <1> QED
    BY <1>4, <1>5

-------------------------------------------------------------------------------
(***************************************************************************)
(* Fields within an entry                                                  *)
(***************************************************************************)

MovedField(r, s, d, p, n) == s.pos = d + r.pos /\ s.field = r.field /\ r.pos \in p .. n + 1

\* At the end of a window there is no body.
LEMMA NoBodyAtEnd ==
    ASSUME NEW ls, NEW w, NEW d, Window(ls, w, d), NEW base
    PROVE  /\ Body(ls, d + (Len(w) + 1), base).pos = d + (Len(w) + 1)
           /\ Body(ls, d + (Len(w) + 1), base).text = NoText
  <1> DEFINE n == Len(w)
             x == Body(w, n + 1, base)
             y == Body(ls, d + (n + 1), base)
  <1>1. n \in Nat /\ n + 1 \in 1 .. n + 1
    BY WindowFacts
  <1>2. MovedText(x, y, d, n + 1, n)
    BY <1>1, BodyMoves
  <1>3. x.pos = n + 1
    <2> HIDE DEF x
    <2>1. x.pos \in n + 1 .. n + 1
      BY <1>2 DEF MovedText
    <2> HIDE DEF n
    <2> QED
      BY <1>1, <2>1
  <1>4. x.text = NoText
    <2> DEFINE T == Deep(w, base) \ NodeLines(w)
               r == Reach(w, n + 1, T, Blanks(w), T)
    <2>1. x = TextUpto(w, n + 1, r, base)
      BY DEF Body
    <2>2. r = n + 1
      BY <1>3, <2>1 DEF TextUpto
    <2>3. Upto(w, n + 1, n + 1) = <<>>
      <3>1. n + 1 \in Int /\ (n + 1) - 1 \in Int /\ (n + 1) - 1 < n + 1
        BY <1>1
      <3> HIDE DEF n
      <3> QED
        BY <3>1, SubSeqEmpty DEF Upto
    <2> HIDE DEF r, T
    <2>4. x.text = TextOf(<<>>, base)
      BY <2>1, <2>2, <2>3 DEF TextUpto
    <2>5. TextOf(<<>>, base) = <<>>
      <3> DEFINE e == [i \in DOMAIN <<>> |-> Stripped(<<>>[i].raw, base)]
                 S == {0} \cup {i \in DOMAIN e : e[i].parts # <<>>}
      <3>1. S = {0}
        OBVIOUS
      <3>2. Max(S) = 0
        BY <3>1 DEF Max
      <3>3. SubSeq(e, 1, 0) = <<>>
        BY SubSeqEmpty
      <3>4. TextOf(<<>>, base) = FinishBlock(e) /\ FinishBlock(e) = SubSeq(e, 1, Max(S))
        BY DEF TextOf, FinishBlock
      <3> HIDE DEF S, e
      <3> QED
        BY <3>2, <3>3, <3>4
    <2> QED
      BY <2>4, <2>5 DEF NoText
  <1> QED
    BY <1>2, <1>3, <1>4 DEF MovedText

\* One sub-field of an entry.
LEMMA SubFieldAtMoves ==
    ASSUME NEW ls, NEW w, NEW d, Window(ls, w, d), NEW q \in 1 .. Len(w) + 1, NEW start
    PROVE  MovedField(SubFieldAt(start, w, q), SubFieldAt(start, ls, d + q), d, q, Len(w))
  <1> DEFINE n == Len(w)
             a == SubFieldAt(start, w, q)
             b == SubFieldAt(start, ls, d + q)
             none(pos) == [pos |-> pos, field |-> SubText(start.key, NoText)]
  <1> SUFFICES MovedField(a, b, d, q, n)
    OBVIOUS
  <1>0. n \in Nat /\ Len(ls) \in Nat
    BY WindowFacts
  <1>1. CASE q > n
    <2>1. q = n + 1 /\ ~(q <= n)
      BY <1>0, <1>1
    <2>2. a = none(q)
      BY <2>1 DEF SubFieldAt
    <2>3. b.pos = d + q /\ b.field = SubText(start.key, NoText)
      <3>1. d + q > Len(ls) \/ (d + q \in 1 .. Len(ls) /\ ls[d + q].kind = "node")
        BY <1>1, WindowEnd
      <3>2. CASE d + q > Len(ls)
        <4>1. ~(d + q <= Len(ls))
          BY <1>0, <3>2, WindowFacts
        <4>2. b = none(d + q)
          BY <4>1 DEF SubFieldAt
        <4> QED
          BY <4>2
      <3>3. CASE d + q \in 1 .. Len(ls) /\ ls[d + q].kind = "node"
        <4>1. d + q <= Len(ls) /\ ~Item(ls[d + q])
          BY <1>0, <3>3 DEF Item, Is
        <4>2. CASE ls[d + q].indent > start.indent
          <5>1. b = AsSubText(start.key, Body(ls, d + q, ls[d + q].indent))
            BY <4>1, <4>2 DEF SubFieldAt
          <5> DEFINE base == ls[d + q].indent
          <5> HIDE DEF base
          <5>2. Body(ls, d + q, base).pos = d + q /\ Body(ls, d + q, base).text = NoText
            BY <2>1, NoBodyAtEnd
          <5>3. b = AsSubText(start.key, Body(ls, d + q, base))
            BY <5>1 DEF base
          <5> QED
            BY <5>2, <5>3 DEF AsSubText
        <4>3. CASE ~(ls[d + q].indent > start.indent)
          <5>1. b = none(d + q)
            BY <4>1, <4>3 DEF SubFieldAt
          <5> QED
            BY <5>1
        <4> QED
          BY <4>2, <4>3
      <3> QED
        BY <3>1, <3>2, <3>3
    <2>4. a.pos = q /\ a.field = SubText(start.key, NoText) /\ q \in q .. n + 1
      BY <1>0, <2>1, <2>2
    <2> HIDE DEF a, b
    <2> QED
      BY <2>3, <2>4 DEF MovedField
  <1>2. CASE ~(q > n)
    <2>1. q \in 1 .. n /\ q <= n
      BY <1>0, <1>2
    <2>2. w[q] = ls[d + q] /\ d + q <= Len(ls)
      BY <2>1, WindowFacts
    <2>3. CASE Item(w[q])
      <3> DEFINE M(l) == Items(l) \cap Deep(l, start.indent + 1)
                 e == Reach(w, q, Items(w), Blanks(w), M(w))
                 f == Reach(ls, d + q, Items(ls), Blanks(ls), M(ls))
      <3>1. Moved(M(w), M(ls), n, d)
        <4>1. "node" \notin {"item"}
          OBVIOUS
        <4> QED
          BY <4>1, DeepMoves DEF Items
      <3>2. a = AsSubList(start.key, ListUpto(w, q, e)) /\ b = AsSubList(start.key, ListUpto(ls, d + q, f))
        BY <2>1, <2>2, <2>3 DEF SubFieldAt
      <3> HIDE DEF M, a, b
      <3>3. f = d + e /\ e \in q .. n + 1
        BY <3>1, KindsMove, ReachMoves
      <3> HIDE DEF e, f
      <3>4. MovedList(ListUpto(w, q, e), ListUpto(ls, d + q, f), d, q, n)
        BY <3>3, ListsMove
      <3> QED
        BY <3>2, <3>4 DEF AsSubList, MovedField, MovedList
    <2>4. CASE ~Item(w[q]) /\ w[q].indent > start.indent
      <3> DEFINE base == w[q].indent
      <3>1. /\ a = AsSubText(start.key, Body(w, q, base))
            /\ b = AsSubText(start.key, Body(ls, d + q, base))
        BY <2>1, <2>2, <2>4 DEF SubFieldAt
      <3> HIDE DEF base, a, b
      <3>2. MovedText(Body(w, q, base), Body(ls, d + q, base), d, q, n)
        BY BodyMoves
      <3> QED
        BY <3>1, <3>2 DEF AsSubText, MovedText, MovedField
    <2>5. CASE ~Item(w[q]) /\ ~(w[q].indent > start.indent)
      <3>1. a = none(q) /\ b = none(d + q)
        BY <2>1, <2>2, <2>5 DEF SubFieldAt
      <3>2. q \in q .. n + 1
        BY <1>0
      <3> HIDE DEF a, b
      <3> QED
        BY <3>1, <3>2 DEF MovedField
    <2> QED
      BY <2>3, <2>4, <2>5
  <1> QED
    BY <1>1, <1>2

\* One sub-field, whatever its first line is.
LEMMA SubFieldMoves ==
    ASSUME NEW ls, NEW w, NEW d, Window(ls, w, d), NEW p \in 1 .. Len(w),
           Is(w[p], {"scalar", "list", "body", "start"})
    PROVE  MovedField(SubField(w, p), SubField(ls, d + p), d, p + 1, Len(w))
  <1> DEFINE a == SubField(w, p)
             b == SubField(ls, d + p)
  <1> SUFFICES MovedField(a, b, d, p + 1, Len(w))
    OBVIOUS
  <1>1. w[p] = ls[d + p] /\ p + 1 \in 1 .. Len(w) + 1 /\ (d + p) + 1 = d + (p + 1) /\ p + 1 \in p + 1 .. Len(w) + 1
    BY WindowFacts
  <1>2. CASE Is(w[p], {"scalar"})
    <2>1. /\ a = [pos |-> p + 1, field |-> SubText(w[p].key, OneLine(w[p].val))]
          /\ b = [pos |-> (d + p) + 1, field |-> SubText(w[p].key, OneLine(w[p].val))]
      BY <1>1, <1>2 DEF SubField, Is
    <2> HIDE DEF a, b
    <2> QED
      BY <1>1, <2>1 DEF MovedField
  <1>3. CASE Is(w[p], {"list"})
    <2>1. /\ a = [pos |-> p + 1, field |-> SubList(w[p].key, w[p].items)]
          /\ b = [pos |-> (d + p) + 1, field |-> SubList(w[p].key, w[p].items)]
      BY <1>1, <1>3 DEF SubField, Is
    <2> HIDE DEF a, b
    <2> QED
      BY <1>1, <2>1 DEF MovedField
  <1>4. CASE Is(w[p], {"body"})
    <2>1. a = AsSubText("body", CollectPipeBody(w, p)) /\ b = AsSubText("body", CollectPipeBody(ls, d + p))
      BY <1>1, <1>4 DEF SubField, Is
    <2>2. MovedText(CollectPipeBody(w, p), CollectPipeBody(ls, d + p), d, p + 1, Len(w))
      BY PipeBodyMoves
    <2> HIDE DEF a, b
    <2> QED
      BY <2>1, <2>2 DEF AsSubText, MovedText, MovedField
  <1>5. CASE Is(w[p], {"start"})
    <2> DEFINE q == SkipBlanks(w, p + 1)
    <2>1. SkipBlanks(ls, d + (p + 1)) = d + q /\ q \in p + 1 .. Len(w) + 1
      BY <1>1, SkipBlanksMoves
    <2>2. a = SubFieldAt(w[p], w, q) /\ b = SubFieldAt(w[p], ls, d + q)
      BY <1>1, <1>5, <2>1 DEF SubField, SubFieldBody, Is
    <2> HIDE DEF q, a, b
    <2>3. q \in 1 .. Len(w) + 1
      BY <1>1, <2>1
    <2>4. MovedField(SubFieldAt(w[p], w, q), SubFieldAt(w[p], ls, d + q), d, q, Len(w))
      BY <2>3, SubFieldAtMoves
    <2>5. SubFieldAt(w[p], w, q).pos \in p + 1 .. Len(w) + 1
      <3>1. SubFieldAt(w[p], w, q).pos \in q .. Len(w) + 1
        BY <2>4 DEF MovedField
      <3> QED
        BY <1>1, <2>1, <3>1
    <2> QED
      BY <2>2, <2>4, <2>5 DEF MovedField
  <1> QED
    BY <1>2, <1>3, <1>4, <1>5 DEF Is

\* A round that stops is the same round, moved.
LEMMA StopsMove ==
    ASSUME NEW d, NEW p, NEW n, NEW q \in p .. n + 1
    PROVE  MovedRound(Stop(q), Stop(d + q), d, p, n)
  BY Nothing DEF Stop, MovedRound

\* A round that goes on with the same finds is the same round, moved.
LEMMA GoesOnMove ==
    ASSUME NEW d, NEW p, NEW n, NEW q \in p + 1 .. n + 1, p + 1 \in Int, q \in p .. n + 1,
           NEW found, IsSeq(found), NEW errors \in Seq(Codes)
    PROVE  MovedRound(GoOn(q, found, errors), GoOn(d + q, found, errors), d, p, n)
  BY DEF GoOn, MovedRound

\* One round over the sub-fields.
LEMMA SubFieldRoundMoves ==
    ASSUME NEW ls, NEW w, NEW d, Window(ls, w, d), NEW p \in 1 .. Len(w) + 1, NEW base
    PROVE  MovedRound(SubFieldRound(w, p, SkipBlanks(w, p), base),
                      SubFieldRound(ls, d + p, SkipBlanks(ls, d + p), base), d, p, Len(w))
  <1> DEFINE q == SkipBlanks(w, p)
             n == Len(w)
             r == SubFieldRound(w, p, q, base)
             s == SubFieldRound(ls, d + p, d + q, base)
  <1>1. SkipBlanks(ls, d + p) = d + q /\ q \in p .. n + 1
    BY SkipBlanksMoves
  <1>2. n \in Nat /\ p \in p .. n + 1
    BY WindowFacts
  <1> HIDE DEF q
  <1>3. q \in 1 .. n + 1
    BY <1>1, <1>2
  <1>4. MovedRound(r, s, d, p, n)
    <2>1. CASE q > n
      <3>1. r = Stop(p)
        BY <2>1 DEF SubFieldRound
      <3>2. s = Stop(d + p)
        <4>1. d + q > Len(ls) \/ ls[d + q].kind = "node"
          BY <1>3, <2>1, WindowEnd
        <4> QED
          BY <4>1 DEF SubFieldRound, Is
      <3> QED
        BY <1>2, <3>1, <3>2, StopsMove
    <2>2. CASE ~(q > n)
      <3>1. q \in 1 .. n
        BY <1>2, <1>3, <2>2
      <3>2. w[q] = ls[d + q] /\ ~(d + q > Len(ls))
        BY <3>1, WindowFacts
      <3>3. CASE Is(w[q], {"node"}) \/ w[q].indent < base
        <4>1. r = Stop(p) /\ s = Stop(d + p)
          BY <2>2, <3>2, <3>3 DEF SubFieldRound
        <4> QED
          BY <1>2, <4>1, StopsMove
      <3>4. CASE ~(Is(w[q], {"node"}) \/ w[q].indent < base) /\ Is(w[q], {"scalar", "list", "body", "start"})
        <4> DEFINE a == SubField(w, q)
                   b == SubField(ls, d + q)
        <4>1. r = AfterSubField(a) /\ s = AfterSubField(b)
          BY <2>2, <3>2, <3>4 DEF SubFieldRound
        <4>2. MovedField(a, b, d, q + 1, n)
          BY <3>1, <3>4, SubFieldMoves
        <4> HIDE DEF a, b, r, s
        <4>3. a.pos \in p + 1 .. n + 1 /\ p + 1 \in Int /\ a.pos \in p .. n + 1
          BY <1>1, <1>2, <4>2 DEF MovedField
        <4>4. r = GoOn(a.pos, <<a.field>>, <<>>) /\ s = GoOn(d + a.pos, <<a.field>>, <<>>)
          BY <4>1, <4>2 DEF AfterSubField, MovedField
        <4> QED
          BY <4>3, <4>4, GoesOnMove, OneThing, Nothing
      <3>5. CASE ~(Is(w[q], {"node"}) \/ w[q].indent < base) /\ ~Is(w[q], {"scalar", "list", "body", "start"})
        <4>1. r = Stop(q) /\ s = Stop(d + q)
          BY <2>2, <3>2, <3>5 DEF SubFieldRound
        <4> QED
          BY <1>1, <4>1, StopsMove
      <3> QED
        BY <3>3, <3>4, <3>5
    <2> QED
      BY <2>1, <2>2
  <1> QED
    BY <1>1, <1>4 DEF q

\* All sub-fields of an entry.
LEMMA SubFieldsMove ==
    ASSUME NEW ls, NEW w, NEW d, Window(ls, w, d), NEW p \in 1 .. Len(w) + 1, NEW base
    PROVE  /\ MovedLoop(CollectSubFields(w, p, base), CollectSubFields(ls, d + p, base), d, p, Len(w))
           /\ MovedLoop(Deeper(w, p, base), Deeper(ls, d + p, base), d, p, Len(w))
  <1>0. ASSUME NEW b
        PROVE  MovedLoop(CollectSubFields(w, p, b), CollectSubFields(ls, d + p, b), d, p, Len(w))
    <2> DEFINE R(l, q) == SubFieldRound(l, q, SkipBlanks(l, q), b)
               one == [q \in Positions(w) |-> R(w, q)]
               two == [q \in Positions(ls) |-> R(ls, q)]
               n == Len(w)
               m == Len(ls)
    <2>1. n \in Nat /\ m \in Nat /\ d \in Nat /\ d + n <= m
      BY WindowFacts
    <2>2. DOMAIN one = 1 .. n + 1 /\ DOMAIN two = 1 .. m + 1
      BY DEF Positions
    <2>3. ASSUME NEW q \in 1 .. m + 1 PROVE two[q].more => two[q].pos \in q + 1 .. m + 1
      <3>1. Window(ls, ls, 0)
        BY WholeIsWindow DEF Window
      <3>2. MovedRound(R(ls, q), R(ls, 0 + q), 0, q, m)
        BY <3>1, SubFieldRoundMoves
      <3>3. two[q] = R(ls, q)
        BY DEF Positions
      <3> HIDE DEF two, R
      <3> QED
        BY <3>2, <3>3 DEF MovedRound
    <2>4. ASSUME NEW q \in 1 .. n + 1 PROVE MovedRound(one[q], two[d + q], d, q, n)
      <3>1. MovedRound(R(w, q), R(ls, d + q), d, q, n)
        BY SubFieldRoundMoves
      <3>2. d + q \in 1 .. m + 1
        BY <2>1
      <3>3. one[q] = R(w, q) /\ two[d + q] = R(ls, d + q)
        BY <3>2 DEF Positions
      <3> HIDE DEF one, two, R
      <3> QED
        BY <3>1, <3>3
    <2>5. CollectSubFields(w, p, b) = Rounds(one, p) /\ CollectSubFields(ls, d + p, b) = Rounds(two, d + p)
      BY DEF CollectSubFields
    <2> HIDE DEF one, two, n, m
    <2>6. MovedLoop(Rounds(one, p), Rounds(two, d + p), d, p, n)
      <3>1. p \in 1 .. n + 1
        BY DEF n
      <3> QED
        BY <2>1, <2>2, <2>3, <2>4, <3>1, RoundsMove
    <2> QED
      BY <2>5, <2>6 DEF n
  <1>1. DetectBaseIndent(ls, d + p) = DetectBaseIndent(w, p)
    BY BaseIndentMoves
  <1> DEFINE deep == Max({DetectBaseIndent(w, p), base + 1})
  <1>2. Deeper(w, p, base) = CollectSubFields(w, p, deep) /\ Deeper(ls, d + p, base) = CollectSubFields(ls, d + p, deep)
    BY <1>1 DEF Deeper
  <1> HIDE DEF deep
  <1> QED
    BY <1>0, <1>2

-------------------------------------------------------------------------------
(***************************************************************************)
(* Entries and what is built of them                                       *)
(***************************************************************************)

\* Where a loop over entries stops.
LEMMA StopWithinMoves ==
    ASSUME NEW ls, NEW w, NEW d, Window(ls, w, d), NEW p \in 1 .. Len(w) + 1, NEW q \in p .. Len(w) + 1, NEW base
    PROVE  MovedRound(StopWithin(w, p, q, base), StopWithin(ls, d + p, d + q, base), d, p, Len(w))
  <1>1. p \in p .. Len(w) + 1
    BY WindowFacts
  <1>2. IsWithinField(ls, d + p, base) <=> IsWithinField(w, p, base)
    BY WithinMoves
  <1>3. CASE IsWithinField(w, p, base)
    BY <1>2, <1>3, StopsMove DEF StopWithin
  <1>4. CASE ~IsWithinField(w, p, base)
    BY <1>1, <1>2, <1>4, StopsMove DEF StopWithin
  <1> QED
    BY <1>3, <1>4

\* One round over the entries.
LEMMA EntryRoundMoves ==
    ASSUME NEW ls, NEW w, NEW d, Window(ls, w, d), NEW p \in 1 .. Len(w) + 1, NEW base
    PROVE  MovedRound(EntryRound(w, p, SkipBlanks(w, p), base),
                      EntryRound(ls, d + p, SkipBlanks(ls, d + p), base), d, p, Len(w))
  <1> DEFINE q == SkipBlanks(w, p)
             n == Len(w)
             r == EntryRound(w, p, q, base)
             s == EntryRound(ls, d + p, d + q, base)
  <1>1. SkipBlanks(ls, d + p) = d + q /\ q \in p .. n + 1
    BY SkipBlanksMoves
  <1>2. n \in Nat
    BY WindowFacts
  <1> HIDE DEF q
  <1>3. q \in 1 .. n + 1
    BY <1>1, <1>2
  <1>4. /\ IsWithinField(ls, d + p, base) <=> IsWithinField(w, p, base)
        /\ IsWithinField(ls, d + q, base) <=> IsWithinField(w, q, base)
        /\ IsWithinField(w, q, base) => q \in 1 .. n /\ w[q] = ls[d + q]
    BY <1>3, WithinMoves
  <1>5. MovedRound(r, s, d, p, n)
    <2>1. CASE IsWithinField(w, p, base) /\ IsWithinField(w, q, base) /\ Item(w[q])
      <3> DEFINE a == Deeper(w, q + 1, base)
                 b == Deeper(ls, (d + q) + 1, base)
                 item == w[q].val
      <3>1. r = AfterEntry(item, a) /\ s = AfterEntry(item, b)
        BY <1>4, <2>1 DEF EntryRound
      <3>2. q + 1 \in 1 .. n + 1 /\ (d + q) + 1 = d + (q + 1)
        BY <1>2, <1>4, <2>1, WindowFacts
      <3>3. MovedLoop(a, b, d, q + 1, n)
        BY <3>2, SubFieldsMove
      <3> HIDE DEF a, b, r, s, item
      <3>4. a.pos \in p + 1 .. n + 1 /\ p + 1 \in Int /\ a.pos \in p .. n + 1
        BY <1>1, <1>2, <3>3 DEF MovedLoop
      <3>5. /\ r = GoOn(a.pos, <<ParseKvFromText(item) \o a.found>>, <<>>)
            /\ s = GoOn(d + a.pos, <<ParseKvFromText(item) \o a.found>>, <<>>)
        BY <3>1, <3>3, Zenon DEF AfterEntry, MovedLoop
      <3> DEFINE x == ParseKvFromText(item) \o a.found
      <3> HIDE DEF x
      <3>6. r = GoOn(a.pos, <<x>>, <<>>) /\ s = GoOn(d + a.pos, <<x>>, <<>>)
        BY <3>5, Zenon DEF x
      <3> QED
        BY <3>4, <3>6, GoesOnMove, OneThing, Nothing
    <2>2. CASE ~(IsWithinField(w, p, base) /\ IsWithinField(w, q, base) /\ Item(w[q]))
      <3>1. r = StopWithin(w, p, q, base)
        BY <2>2 DEF EntryRound
      <3>2. s = StopWithin(ls, d + p, d + q, base)
        BY <1>4, <2>2 DEF EntryRound
      <3> QED
        BY <1>1, <3>1, <3>2, StopWithinMoves
    <2> QED
      BY <2>1, <2>2
  <1> QED
    BY <1>1, <1>5 DEF q

\* All entries of a structured field.
LEMMA EntriesMove ==
    ASSUME NEW ls, NEW w, NEW d, Window(ls, w, d), NEW p \in 1 .. Len(w) + 1, NEW base
    PROVE  MovedLoop(Entries(w, p, base), Entries(ls, d + p, base), d, p, Len(w))
  <1> DEFINE R(l, q) == EntryRound(l, q, SkipBlanks(l, q), base)
             one == [q \in Positions(w) |-> R(w, q)]
             two == [q \in Positions(ls) |-> R(ls, q)]
             n == Len(w)
             m == Len(ls)
  <1>1. n \in Nat /\ m \in Nat /\ d \in Nat /\ d + n <= m
    BY WindowFacts
  <1>2. DOMAIN one = 1 .. n + 1 /\ DOMAIN two = 1 .. m + 1
    BY DEF Positions
  <1>3. ASSUME NEW q \in 1 .. m + 1 PROVE two[q].more => two[q].pos \in q + 1 .. m + 1
    <2>1. Window(ls, ls, 0)
      BY WholeIsWindow DEF Window
    <2>2. MovedRound(R(ls, q), R(ls, 0 + q), 0, q, m)
      BY <2>1, EntryRoundMoves
    <2>3. two[q] = R(ls, q)
      BY DEF Positions
    <2> HIDE DEF two, R
    <2> QED
      BY <2>2, <2>3 DEF MovedRound
  <1>4. ASSUME NEW q \in 1 .. n + 1 PROVE MovedRound(one[q], two[d + q], d, q, n)
    <2>1. MovedRound(R(w, q), R(ls, d + q), d, q, n)
      BY EntryRoundMoves
    <2>2. d + q \in 1 .. m + 1
      BY <1>1
    <2>3. one[q] = R(w, q) /\ two[d + q] = R(ls, d + q)
      BY <2>2 DEF Positions
    <2> HIDE DEF one, two, R
    <2> QED
      BY <2>1, <2>3
  <1>5. Entries(w, p, base) = Rounds(one, p) /\ Entries(ls, d + p, base) = Rounds(two, d + p)
    BY DEF Entries
  <1> HIDE DEF one, two, n, m
  <1>6. MovedLoop(Rounds(one, p), Rounds(two, d + p), d, p, n)
    <2>1. p \in 1 .. n + 1
      BY DEF n
    <2> QED
      BY <1>1, <1>2, <1>3, <1>4, <2>1, RoundsMove
  <1> QED
    BY <1>5, <1>6 DEF n

\* A loop that stops at once.
LEMMA StoppedLoop ==
    ASSUME NEW d, NEW n \in Nat, NEW p \in 1 .. n + 1
    PROVE  MovedLoop(Stop(p), Stop(d + p), d, p, n)
  BY Nothing DEF Stop, MovedLoop

\* The entries at the indentation of the first, or none.
LEMMA EntriesAtBaseMove ==
    ASSUME NEW ls, NEW w, NEW d, Window(ls, w, d), NEW p \in 1 .. Len(w) + 1
    PROVE  MovedLoop(EntriesAtBase(w, p), EntriesAtBase(ls, d + p), d, p, Len(w))
  <1> DEFINE base == DetectBaseIndent(w, p)
  <1>1. EntriesAtBase(w, p) = EntriesFrom(w, p, base) /\ EntriesAtBase(ls, d + p) = EntriesFrom(ls, d + p, base)
    BY BaseIndentMoves DEF EntriesAtBase
  <1> HIDE DEF base
  <1>2. CASE base = NoIndent
    <2>1. Len(w) \in Nat
      BY WindowFacts
    <2> QED
      BY <1>1, <1>2, <2>1, StoppedLoop DEF EntriesFrom
  <1>3. CASE base # NoIndent
    BY <1>1, <1>3, EntriesMove DEF EntriesFrom
  <1> QED
    BY <1>2, <1>3

\* The codes the parser reports, each a list of one.
LEMMA CodesOf ==
    /\ <<>> \in Seq(Codes)
    /\ \A c \in Codes : <<c>> \in Seq(Codes)
    /\ <<"P003">> \in Seq(Codes) /\ <<"V008">> \in Seq(Codes) /\ <<"V009">> \in Seq(Codes)
    /\ <<"P006">> \in Seq(Codes) /\ <<"P001">> \in Seq(Codes) /\ <<"P002">> \in Seq(Codes)
    /\ <<"V029">> \in Seq(Codes) /\ <<"V030">> \in Seq(Codes) /\ <<"P008">> \in Seq(Codes)
  <1>1. \A c \in Codes : <<c>> \in Seq(Codes)
    OBVIOUS
  <1>2. {"P003", "V008", "V009", "P006", "P001", "P002", "V029", "V030", "P008"} \subseteq Codes
    BY DEF Codes
  <1> HIDE DEF Codes
  <1> QED
    BY <1>1, <1>2, EmptySeq

\* Building an entry reports codes only.
LEMMA BuildErrors ==
    ASSUME NEW fields
    PROVE  /\ BuildCodeBlock(fields).errors \in Seq(Codes)
           /\ BuildVerifyCheck(fields).errors \in Seq(Codes)
           /\ BuildLoadFile(fields).errors \in Seq(Codes)
           /\ BuildParallelGroup(fields).errors \in Seq(Codes)
           /\ BuildMemoryEntry(fields).errors \in Seq(Codes)
  <1>1. BuildCodeBlock(fields).errors \in Seq(Codes)
    <2> DEFINE a == IF GetScalar(fields, "action") = NoText THEN <<"V008">>
                    ELSE IF Parses(GetScalar(fields, "action")) THEN <<>> ELSE <<"P003">>
               b == IF GetScalar(fields, "body") = NoText THEN <<"V008">> ELSE <<>>
    <2>1. a \in Seq(Codes) /\ b \in Seq(Codes)
      BY CodesOf
    <2>2. BuildCodeBlock(fields).errors = Join(a, b)
      BY Zenon DEF BuildCodeBlock, Join
    <2> HIDE DEF a, b
    <2> QED
      BY <2>1, <2>2, JoinFacts
  <1>2. BuildVerifyCheck(fields).errors \in Seq(Codes)
    BY CodesOf DEF BuildVerifyCheck
  <1>3. BuildLoadFile(fields).errors \in Seq(Codes)
    BY CodesOf DEF BuildLoadFile
  <1>4. BuildParallelGroup(fields).errors \in Seq(Codes)
    BY CodesOf DEF BuildParallelGroup
  <1>5. BuildMemoryEntry(fields).errors \in Seq(Codes)
    BY CodesOf DEF BuildMemoryEntry
  <1> QED
    BY <1>1, <1>2, <1>3, <1>4, <1>5

\* Building all entries reports codes only.
LEMMA AllBuiltErrors ==
    ASSUME NEW k \in Nat, NEW built, DOMAIN built = 1 .. k,
           \A i \in 1 .. k : built[i].errors \in Seq(Codes), NEW pos
    PROVE  AllBuilt(pos, built).errors \in Seq(Codes)
  <1> DEFINE es == [i \in DOMAIN built |-> built[i].errors]
  <1>1. es \in [1 .. k -> Seq(Codes)]
    OBVIOUS
  <1>2. es \in Seq(Seq(Codes))
    BY <1>1, SeqDef
  <1>3. AllBuilt(pos, built).errors = FlattenSeq(es)
    BY DEF AllBuilt
  <1> HIDE DEF es
  <1> QED
    BY <1>2, <1>3, FlattenType

MovedValue(r, s, d, p, n) ==
    /\ s.pos = d + r.pos /\ s.value = r.value /\ s.errors = r.errors
    /\ r.pos \in p .. n + 1 /\ r.errors \in Seq(Codes)

\* A list has positions up to its length.
LEMMA FoundDomain == \A f : IsSeq(f) => \E k \in Nat : DOMAIN f = 1 .. k
  <1> SUFFICES ASSUME NEW f, NEW V, f \in Seq(V) PROVE \E k \in Nat : DOMAIN f = 1 .. k
    BY DEF IsSeq
  <1> QED
    BY LenProperties

\* The objects of a structured field, and their errors.
LEMMA ObjectsMove ==
    ASSUME NEW d, NEW p, NEW n, NEW r, NEW s, MovedLoop(r, s, d, p, n),
           NEW key \in {"code_blocks", "verify", "parallel_groups", "memory"}
    PROVE  MovedValue(ParseObjects(key, r), ParseObjects(key, s), d, p, n)
  <1>1. s.found = r.found /\ s.pos = d + r.pos /\ r.pos \in p .. n + 1
    BY DEF MovedLoop
  <1>2. PICK k \in Nat : DOMAIN r.found = 1 .. k
    BY FoundDomain DEF MovedLoop
  <1>3. CASE key = "code_blocks"
    <2> DEFINE built == [i \in DOMAIN r.found |-> BuildCodeBlock(r.found[i])]
    <2>1. /\ ParseObjects(key, r) = AsField("code_blocks", AllBuilt(r.pos, built))
          /\ ParseObjects(key, s) = AsField("code_blocks", AllBuilt(s.pos, built))
      BY <1>1, <1>3 DEF ParseObjects, ParseCodeBlocks, Built
    <2>2. DOMAIN built = 1 .. k /\ \A i \in 1 .. k : built[i].errors \in Seq(Codes)
      BY <1>2, BuildErrors
    <2> HIDE DEF built
    <2>3. AllBuilt(r.pos, built).errors \in Seq(Codes)
      BY <2>2, AllBuiltErrors
    <2> QED
      BY <1>1, <2>1, <2>3 DEF AsField, AllBuilt, MovedValue
  <1>4. CASE key = "verify"
    <2> DEFINE built == [i \in DOMAIN r.found |-> BuildVerifyCheck(r.found[i])]
    <2>1. /\ ParseObjects(key, r) = AsField("verify", AllBuilt(r.pos, built))
          /\ ParseObjects(key, s) = AsField("verify", AllBuilt(s.pos, built))
      BY <1>1, <1>4 DEF ParseObjects, ParseVerify, Built
    <2>2. DOMAIN built = 1 .. k /\ \A i \in 1 .. k : built[i].errors \in Seq(Codes)
      BY <1>2, BuildErrors
    <2> HIDE DEF built
    <2>3. AllBuilt(r.pos, built).errors \in Seq(Codes)
      BY <2>2, AllBuiltErrors
    <2> QED
      BY <1>1, <2>1, <2>3 DEF AsField, AllBuilt, MovedValue
  <1>5. CASE key = "parallel_groups"
    <2> DEFINE built == [i \in DOMAIN r.found |-> BuildParallelGroup(r.found[i])]
    <2>1. /\ ParseObjects(key, r) = AsField("groups", AllBuilt(r.pos, built))
          /\ ParseObjects(key, s) = AsField("groups", AllBuilt(s.pos, built))
      BY <1>1, <1>5 DEF ParseObjects, ParseParallelGroups, Built
    <2>2. DOMAIN built = 1 .. k /\ \A i \in 1 .. k : built[i].errors \in Seq(Codes)
      BY <1>2, BuildErrors
    <2> HIDE DEF built
    <2>3. AllBuilt(r.pos, built).errors \in Seq(Codes)
      BY <2>2, AllBuiltErrors
    <2> QED
      BY <1>1, <2>1, <2>3 DEF AsField, AllBuilt, MovedValue
  <1>6. CASE key = "memory"
    <2> DEFINE built == [i \in DOMAIN r.found |-> BuildMemoryEntry(r.found[i])]
    <2>1. /\ ParseObjects(key, r) = AsField("memory", AllBuilt(r.pos, built))
          /\ ParseObjects(key, s) = AsField("memory", AllBuilt(s.pos, built))
      BY <1>1, <1>6 DEF ParseObjects, ParseMemory, Built
    <2>2. DOMAIN built = 1 .. k /\ \A i \in 1 .. k : built[i].errors \in Seq(Codes)
      BY <1>2, BuildErrors
    <2> HIDE DEF built
    <2>3. AllBuilt(r.pos, built).errors \in Seq(Codes)
      BY <2>2, AllBuiltErrors
    <2> QED
      BY <1>1, <2>1, <2>3 DEF AsField, AllBuilt, MovedValue
  <1> QED
    BY <1>3, <1>4, <1>5, <1>6

\* A code block.
LEMMA CodeBlockMoves ==
    ASSUME NEW ls, NEW w, NEW d, Window(ls, w, d), NEW p \in 1 .. Len(w) + 1
    PROVE  MovedValue(ParseCodeBlock(w, p), ParseCodeBlock(ls, d + p), d, p, Len(w))
  <1> DEFINE base == DetectBaseIndent(w, p)
             a == CollectSubFields(w, p, base)
             b == CollectSubFields(ls, d + p, base)
  <1>1. ParseCodeBlock(w, p) = CodeBlockOf(a) /\ ParseCodeBlock(ls, d + p) = CodeBlockOf(b)
    BY BaseIndentMoves DEF ParseCodeBlock
  <1>2. MovedLoop(a, b, d, p, Len(w))
    BY SubFieldsMove
  <1> HIDE DEF a, b
  <1>3. BuildCodeBlock(a.found).errors \in Seq(Codes)
    BY BuildErrors
  <1>4. /\ CodeBlockOf(a) = CodeBlock(a.pos, BuildCodeBlock(a.found))
        /\ CodeBlockOf(b) = CodeBlock(d + a.pos, BuildCodeBlock(a.found))
        /\ a.pos \in p .. Len(w) + 1
    BY <1>2 DEF CodeBlockOf, MovedLoop
  <1> DEFINE built == BuildCodeBlock(a.found)
  <1> HIDE DEF built
  <1>5. MovedValue(CodeBlock(a.pos, built), CodeBlock(d + a.pos, built), d, p, Len(w))
    BY <1>3, <1>4 DEF CodeBlock, MovedValue, built
  <1> QED
    BY <1>1, <1>4, <1>5 DEF built

-------------------------------------------------------------------------------
(***************************************************************************)
(* Contexts and load profiles                                              *)
(***************************************************************************)

\* A round that goes on, from a position after its own.
LEMMA NextMoves ==
    ASSUME NEW ls, NEW w, NEW d, Window(ls, w, d), NEW p \in 1 .. Len(w) + 1, NEW q \in p .. Len(w) + 1,
           NEW x \in q + 1 .. Len(w) + 1, NEW found, IsSeq(found), NEW errors \in Seq(Codes)
    PROVE  MovedRound(GoOn(x, found, errors), GoOn(d + x, found, errors), d, p, Len(w))
  <1>1. Len(w) \in Nat
    BY WindowFacts
  <1>2. x \in p + 1 .. Len(w) + 1 /\ p + 1 \in Int /\ x \in p .. Len(w) + 1
    BY <1>1
  <1> QED
    BY <1>2, GoesOnMove

\* A list or text in an agent context.
LEMMA ContextBlockMoves ==
    ASSUME NEW ls, NEW w, NEW d, Window(ls, w, d), NEW p \in 1 .. Len(w) + 1, NEW q \in 1 .. Len(w),
           q \in p .. Len(w) + 1, NEW base, NEW si
    PROVE  MovedRound(ContextBlock(w, q, base, si), ContextBlock(ls, d + q, base, si), d, p, Len(w))
  <1> DEFINE n == Len(w)
             key == w[q].key
             r == ContextBlock(w, q, base, si)
             s == ContextBlock(ls, d + q, base, si)
  <1> SUFFICES MovedRound(r, s, d, p, n)
    OBVIOUS
  <1>1. /\ w[q] = ls[d + q] /\ (d + q) + 1 = d + (q + 1) /\ n \in Nat
        /\ q + 1 \in 1 .. n + 1 /\ q + 1 \in q + 1 .. n + 1
    BY WindowFacts
  <1>2. CASE si = NoIndent \/ si <= base
    <2>1. r = GoOn(q + 1, <<>>, <<>>) /\ s = GoOn(d + (q + 1), <<>>, <<>>)
      BY <1>1, <1>2 DEF ContextBlock, ContextNothing
    <2> QED
      BY <1>1, <2>1, NextMoves, Nothing
  <1>3. CASE ~(si = NoIndent \/ si <= base) /\ key \in ContextLists
    <2> DEFINE a == NestedItems(w, q + 1, si)
               b == NestedItems(ls, d + (q + 1), si)
               setting == [key |-> key, value |-> [list |-> a.items]]
    <2>1. r = ContextList(key, a) /\ s = ContextList(key, b)
      BY <1>1, <1>3 DEF ContextBlock
    <2>2. MovedList(a, b, d, q + 1, n)
      BY <1>1, NestedMoves
    <2> HIDE DEF a, b, r, s
    <2>3. r = GoOn(a.pos, <<setting>>, <<>>) /\ s = GoOn(d + a.pos, <<setting>>, <<>>)
      BY <2>1, <2>2 DEF ContextList, ContextSet, MovedList
    <2>4. a.pos \in q + 1 .. n + 1
      BY <2>2 DEF MovedList
    <2> HIDE DEF setting
    <2> QED
      BY <2>3, <2>4, NextMoves, OneThing, Nothing
  <1>4. CASE ~(si = NoIndent \/ si <= base) /\ key \notin ContextLists /\ key = "load_files"
    <2> DEFINE e == EntriesAtBase(w, q + 1)
               f == EntriesAtBase(ls, d + (q + 1))
               built == [i \in DOMAIN e.found |-> BuildLoadFile(e.found[i])]
               a == AllBuilt(e.pos, built)
               b == AllBuilt(f.pos, built)
    <2>1. MovedLoop(e, f, d, q + 1, n)
      BY <1>1, EntriesAtBaseMove
    <2>2. f.found = e.found /\ f.pos = d + e.pos /\ e.pos \in q + 1 .. n + 1
      BY <2>1 DEF MovedLoop
    <2>3. PICK k \in Nat : DOMAIN e.found = 1 .. k
      BY <2>1, FoundDomain DEF MovedLoop
    <2>4. r = ContextFiles("load_files", a) /\ s = ContextFiles("load_files", b)
      BY <1>1, <1>4, <2>2 DEF ContextBlock, Built
    <2> HIDE DEF e, f
    <2>5. DOMAIN built = 1 .. k /\ \A i \in 1 .. k : built[i].errors \in Seq(Codes)
      BY <2>3, BuildErrors
    <2> HIDE DEF built
    <2>6. a.errors \in Seq(Codes)
      BY <2>5, AllBuiltErrors
    <2>7. a.pos = e.pos /\ b.pos = d + e.pos /\ b.values = a.values /\ b.errors = a.errors
      BY <2>2 DEF AllBuilt
    <2> HIDE DEF a, b, r, s
    <2> DEFINE found == IF a.values = <<>> THEN <<>> ELSE <<[key |-> "load_files", value |-> [files |-> a.values]]>>
    <2>8. r = GoOn(e.pos, found, a.errors) /\ s = GoOn(d + e.pos, found, a.errors)
      BY <2>4, <2>7 DEF ContextFiles
    <2>9. IsSeq(found)
      BY OneThing, Nothing
    <2> HIDE DEF found
    <2> QED
      BY <2>2, <2>6, <2>8, <2>9, NextMoves
  <1>5. CASE ~(si = NoIndent \/ si <= base) /\ key \notin ContextLists /\ key # "load_files"
    <2> DEFINE x == AfterNested(w, q + 1, si)
    <2>1. AfterNested(ls, d + (q + 1), si) = d + x /\ x \in q + 1 .. n + 1
      BY <1>1, NestedMoves
    <2>2. r = GoOn(x, <<>>, <<>>) /\ s = GoOn(d + x, <<>>, <<>>)
      BY <1>1, <1>5, <2>1 DEF ContextBlock, ContextNothing
    <2> HIDE DEF x, r, s
    <2> QED
      BY <2>1, <2>2, NextMoves, Nothing
  <1> QED
    BY <1>2, <1>3, <1>4, <1>5

\* One field of an agent context.
LEMMA ContextFieldMoves ==
    ASSUME NEW ls, NEW w, NEW d, Window(ls, w, d), NEW p \in 1 .. Len(w) + 1, NEW q \in 1 .. Len(w),
           q \in p .. Len(w) + 1, NEW base
    PROVE  MovedRound(ContextField(w, q, base), ContextField(ls, d + q, base), d, p, Len(w))
  <1> DEFINE n == Len(w)
             l == w[q]
             r == ContextField(w, q, base)
             s == ContextField(ls, d + q, base)
             set(found, errors) == r = GoOn(q + 1, found, errors) /\ s = GoOn(d + (q + 1), found, errors)
  <1> SUFFICES MovedRound(r, s, d, p, n)
    OBVIOUS
  <1>1. /\ w[q] = ls[d + q] /\ (d + q) + 1 = d + (q + 1) /\ n \in Nat
        /\ q + 1 \in 1 .. n + 1 /\ q + 1 \in q + 1 .. n + 1
    BY WindowFacts
  <1>2. ASSUME NEW found, IsSeq(found), NEW errors \in Seq(Codes), set(found, errors)
        PROVE  MovedRound(r, s, d, p, n)
    <2> HIDE DEF r, s
    <2> QED
      BY <1>1, <1>2, NextMoves
  <1>3. CASE l.indent # base
    <2>1. set(<<>>, <<>>)
      BY <1>1, <1>3 DEF ContextField, ContextNothing
    <2> QED
      BY <1>2, <2>1, Nothing
  <1>4. CASE l.indent = base /\ Is(l, {"scalar"})
    <2> DEFINE setting == [key |-> l.key, value |-> [text |-> OneLine(l.val)]]
    <2>1. CASE l.key = "system_hint" \/ (l.key = "max_tokens" /\ Parses(OneLine(l.val)))
      <3>1. set(<<setting>>, <<>>)
        BY <1>1, <1>4, <2>1 DEF ContextField, ContextSet, Is
      <3> HIDE DEF setting, r, s
      <3> QED
        BY <1>2, <3>1, OneThing, Nothing
    <2>2. CASE ~(l.key = "system_hint" \/ (l.key = "max_tokens" /\ Parses(OneLine(l.val))))
      <3> DEFINE errors == IF l.key = "max_tokens" THEN <<"P003">> ELSE <<>>
      <3>1. set(<<>>, errors)
        BY <1>1, <1>4, <2>2 DEF ContextField, Is
      <3>2. errors \in Seq(Codes)
        BY CodesOf
      <3> HIDE DEF errors, r, s
      <3> QED
        BY <1>2, <3>1, <3>2, Nothing
    <2> QED
      BY <2>1, <2>2
  <1>5. CASE l.indent = base /\ Is(l, {"list"})
    <2> DEFINE setting == [key |-> l.key, value |-> [list |-> l.items]]
    <2>1. CASE l.key \in ContextLists
      <3>1. set(<<setting>>, <<>>)
        BY <1>1, <1>5, <2>1 DEF ContextField, ContextSet, Is
      <3> HIDE DEF setting, r, s
      <3> QED
        BY <1>2, <3>1, OneThing, Nothing
    <2>2. CASE l.key \notin ContextLists
      <3>1. set(<<>>, <<>>)
        BY <1>1, <1>5, <2>2 DEF ContextField, ContextNothing, Is
      <3> HIDE DEF r, s
      <3> QED
        BY <1>2, <3>1, Nothing
    <2> QED
      BY <2>1, <2>2
  <1>6. CASE l.indent = base /\ Is(l, {"start"})
    <2> DEFINE si == DetectBaseIndent(w, q + 1)
    <2>1. DetectBaseIndent(ls, d + (q + 1)) = si
      BY <1>1, BaseIndentMoves
    <2>2. r = ContextBlock(w, q, base, si) /\ s = ContextBlock(ls, d + q, base, si)
      BY <1>1, <1>6, <2>1 DEF ContextField, Is
    <2> HIDE DEF si, r, s
    <2> QED
      BY <2>2, ContextBlockMoves
  <1>7. CASE l.indent = base /\ ~Is(l, {"scalar"}) /\ ~Is(l, {"list"}) /\ ~Is(l, {"start"})
    <2>1. set(<<>>, <<>>)
      BY <1>1, <1>7 DEF ContextField, ContextNothing
    <2> HIDE DEF r, s
    <2> QED
      BY <1>2, <2>1, Nothing
  <1> QED
    BY <1>3, <1>4, <1>5, <1>6, <1>7

\* One round over an agent context.
LEMMA ContextRoundMoves ==
    ASSUME NEW ls, NEW w, NEW d, Window(ls, w, d), NEW p \in 1 .. Len(w) + 1, NEW base
    PROVE  MovedRound(ContextRound(w, p, SkipBlanks(w, p), base),
                      ContextRound(ls, d + p, SkipBlanks(ls, d + p), base), d, p, Len(w))
  <1> DEFINE q == SkipBlanks(w, p)
             n == Len(w)
             r == ContextRound(w, p, q, base)
             s == ContextRound(ls, d + p, d + q, base)
  <1>1. SkipBlanks(ls, d + p) = d + q /\ q \in p .. n + 1 /\ n \in Nat
    BY SkipBlanksMoves, WindowFacts
  <1> HIDE DEF q
  <1>2. q \in 1 .. n + 1
    BY <1>1
  <1>3. /\ IsWithinField(ls, d + p, base) <=> IsWithinField(w, p, base)
        /\ IsWithinField(ls, d + q, base) <=> IsWithinField(w, q, base)
        /\ IsWithinField(w, q, base) => q \in 1 .. n
    BY <1>2, WithinMoves
  <1>4. MovedRound(r, s, d, p, n)
    <2>1. CASE IsWithinField(w, p, base) /\ IsWithinField(w, q, base)
      <3>1. r = ContextField(w, q, base) /\ s = ContextField(ls, d + q, base) /\ q \in 1 .. n
        BY <1>3, <2>1 DEF ContextRound
      <3> HIDE DEF r, s
      <3> QED
        BY <1>1, <3>1, ContextFieldMoves
    <2>2. CASE ~(IsWithinField(w, p, base) /\ IsWithinField(w, q, base))
      <3>1. r = StopWithin(w, p, q, base) /\ s = StopWithin(ls, d + p, d + q, base)
        BY <1>3, <2>2 DEF ContextRound
      <3> QED
        BY <1>1, <3>1, StopWithinMoves
    <2> QED
      BY <2>1, <2>2
  <1> QED
    BY <1>1, <1>4 DEF q

\* All fields of an agent context.
LEMMA ContextFieldsMove ==
    ASSUME NEW ls, NEW w, NEW d, Window(ls, w, d), NEW p \in 1 .. Len(w) + 1, NEW base
    PROVE  MovedLoop(ContextFields(w, p, base), ContextFields(ls, d + p, base), d, p, Len(w))
  <1> DEFINE R(l, q) == ContextRound(l, q, SkipBlanks(l, q), base)
             one == [q \in Positions(w) |-> R(w, q)]
             two == [q \in Positions(ls) |-> R(ls, q)]
             n == Len(w)
             m == Len(ls)
  <1>1. n \in Nat /\ m \in Nat /\ d \in Nat /\ d + n <= m
    BY WindowFacts
  <1>2. DOMAIN one = 1 .. n + 1 /\ DOMAIN two = 1 .. m + 1
    BY DEF Positions
  <1>3. ASSUME NEW q \in 1 .. m + 1 PROVE two[q].more => two[q].pos \in q + 1 .. m + 1
    <2>1. Window(ls, ls, 0)
      BY WholeIsWindow DEF Window
    <2>2. MovedRound(R(ls, q), R(ls, 0 + q), 0, q, m)
      BY <2>1, ContextRoundMoves
    <2>3. two[q] = R(ls, q)
      BY DEF Positions
    <2> HIDE DEF two, R
    <2> QED
      BY <2>2, <2>3 DEF MovedRound
  <1>4. ASSUME NEW q \in 1 .. n + 1 PROVE MovedRound(one[q], two[d + q], d, q, n)
    <2>1. MovedRound(R(w, q), R(ls, d + q), d, q, n)
      BY ContextRoundMoves
    <2>2. d + q \in 1 .. m + 1
      BY <1>1
    <2>3. one[q] = R(w, q) /\ two[d + q] = R(ls, d + q)
      BY <2>2 DEF Positions
    <2> HIDE DEF one, two, R
    <2> QED
      BY <2>1, <2>3
  <1>5. ContextFields(w, p, base) = Rounds(one, p) /\ ContextFields(ls, d + p, base) = Rounds(two, d + p)
    BY DEF ContextFields
  <1> HIDE DEF one, two, n, m
  <1>6. MovedLoop(Rounds(one, p), Rounds(two, d + p), d, p, n)
    <2>1. p \in 1 .. n + 1
      BY DEF n
    <2> QED
      BY <1>1, <1>2, <1>3, <1>4, <2>1, RoundsMove
  <1> QED
    BY <1>5, <1>6 DEF n

\* parse_agent_context gives the same value and errors.
LEMMA AgentContextMoves ==
    ASSUME NEW ls, NEW w, NEW d, Window(ls, w, d), NEW p \in 1 .. Len(w) + 1
    PROVE  MovedValue(ParseAgentContext(w, p), ParseAgentContext(ls, d + p), d, p, Len(w))
  <1> DEFINE base == DetectBaseIndent(w, p)
             a == ContextFrom(w, p, base)
             b == ContextFrom(ls, d + p, base)
  <1>1. ParseAgentContext(w, p) = AsContext(a) /\ ParseAgentContext(ls, d + p) = AsContext(b)
    BY BaseIndentMoves DEF ParseAgentContext
  <1>2. MovedLoop(a, b, d, p, Len(w))
    <2> HIDE DEF base
    <2>1. CASE base = NoIndent
      <3>1. Len(w) \in Nat
        BY WindowFacts
      <3> QED
        BY <2>1, <3>1, StoppedLoop DEF ContextFrom
    <2>2. CASE base # NoIndent
      BY <2>2, ContextFieldsMove DEF ContextFrom
    <2> QED
      BY <2>1, <2>2
  <1> HIDE DEF a, b
  <1> QED
    BY <1>1, <1>2 DEF AsContext, MovedLoop, MovedValue

\* One round over the load profiles.
LEMMA ProfileRoundMoves ==
    ASSUME NEW ls, NEW w, NEW d, Window(ls, w, d), NEW p \in 1 .. Len(w) + 1, NEW base
    PROVE  MovedRound(ProfileRound(w, p, SkipBlanks(w, p), base),
                      ProfileRound(ls, d + p, SkipBlanks(ls, d + p), base), d, p, Len(w))
  <1> DEFINE q == SkipBlanks(w, p)
             n == Len(w)
             r == ProfileRound(w, p, q, base)
             s == ProfileRound(ls, d + p, d + q, base)
  <1>1. SkipBlanks(ls, d + p) = d + q /\ q \in p .. n + 1 /\ n \in Nat
    BY SkipBlanksMoves, WindowFacts
  <1> HIDE DEF q
  <1>2. q \in 1 .. n + 1
    BY <1>1
  <1>3. /\ IsWithinField(ls, d + p, base) <=> IsWithinField(w, p, base)
        /\ IsWithinField(ls, d + q, base) <=> IsWithinField(w, q, base)
        /\ IsWithinField(w, q, base) => q \in 1 .. n
    BY <1>2, WithinMoves
  <1>4. MovedRound(r, s, d, p, n)
    <2>1. CASE ~(IsWithinField(w, p, base) /\ IsWithinField(w, q, base))
      <3>1. r = StopWithin(w, p, q, base) /\ s = StopWithin(ls, d + p, d + q, base)
        BY <1>3, <2>1 DEF ProfileRound
      <3> QED
        BY <1>1, <3>1, StopWithinMoves
    <2>2. CASE IsWithinField(w, p, base) /\ IsWithinField(w, q, base)
      <3> DEFINE si == DetectBaseIndent(w, q + 1)
                 a == Deeper(w, q + 1, base)
                 b == Deeper(ls, d + (q + 1), base)
                 key == w[q].key
      <3>1. /\ w[q] = ls[d + q] /\ (d + q) + 1 = d + (q + 1)
            /\ q + 1 \in 1 .. n + 1 /\ q + 1 \in q + 1 .. n + 1
        BY <1>1, <1>3, <2>2, WindowFacts
      <3>2. DetectBaseIndent(ls, d + (q + 1)) = si
        BY <3>1, BaseIndentMoves
      <3>3. MovedLoop(a, b, d, q + 1, n)
        BY <3>1, SubFieldsMove
      <3>4. CASE IsProfile(w[q], base, si)
        <4>1. r = AfterProfile(key, a) /\ s = AfterProfile(key, b)
          BY <1>3, <2>2, <3>1, <3>2, <3>4 DEF ProfileRound
        <4> HIDE DEF a, b, r, s, key
        <4> DEFINE filter == GetScalar(a.found, "filter")
                   setting == [key |-> key, value |-> ProfileOf(a.found, filter)]
                   errors == IF filter = NoText THEN <<"P003">> ELSE <<>>
        <4>2. b.found = a.found /\ b.pos = d + a.pos /\ a.pos \in q + 1 .. n + 1
          BY <3>3 DEF MovedLoop
        <4>3. r = GoOn(a.pos, <<setting>>, errors) /\ s = GoOn(d + a.pos, <<setting>>, errors)
          BY <4>1, <4>2 DEF AfterProfile, WithProfile
        <4>4. errors \in Seq(Codes)
          BY CodesOf
        <4> HIDE DEF setting, errors
        <4> QED
          BY <1>1, <4>2, <4>3, <4>4, NextMoves, OneThing
      <3>5. CASE ~IsProfile(w[q], base, si)
        <4>1. r = GoOn(q + 1, <<>>, <<>>) /\ s = GoOn(d + (q + 1), <<>>, <<>>)
          BY <1>3, <2>2, <3>1, <3>2, <3>5 DEF ProfileRound
        <4> HIDE DEF r, s
        <4> QED
          BY <1>1, <3>1, <4>1, NextMoves, Nothing
      <3> QED
        BY <3>4, <3>5
    <2> QED
      BY <2>1, <2>2
  <1> QED
    BY <1>1, <1>4 DEF q

\* All load profiles.
LEMMA ProfilesMove ==
    ASSUME NEW ls, NEW w, NEW d, Window(ls, w, d), NEW p \in 1 .. Len(w) + 1, NEW base
    PROVE  MovedLoop(Profiles(w, p, base), Profiles(ls, d + p, base), d, p, Len(w))
  <1> DEFINE R(l, q) == ProfileRound(l, q, SkipBlanks(l, q), base)
             one == [q \in Positions(w) |-> R(w, q)]
             two == [q \in Positions(ls) |-> R(ls, q)]
             n == Len(w)
             m == Len(ls)
  <1>1. n \in Nat /\ m \in Nat /\ d \in Nat /\ d + n <= m
    BY WindowFacts
  <1>2. DOMAIN one = 1 .. n + 1 /\ DOMAIN two = 1 .. m + 1
    BY DEF Positions
  <1>3. ASSUME NEW q \in 1 .. m + 1 PROVE two[q].more => two[q].pos \in q + 1 .. m + 1
    <2>1. Window(ls, ls, 0)
      BY WholeIsWindow DEF Window
    <2>2. MovedRound(R(ls, q), R(ls, 0 + q), 0, q, m)
      BY <2>1, ProfileRoundMoves
    <2>3. two[q] = R(ls, q)
      BY DEF Positions
    <2> HIDE DEF two, R
    <2> QED
      BY <2>2, <2>3 DEF MovedRound
  <1>4. ASSUME NEW q \in 1 .. n + 1 PROVE MovedRound(one[q], two[d + q], d, q, n)
    <2>1. MovedRound(R(w, q), R(ls, d + q), d, q, n)
      BY ProfileRoundMoves
    <2>2. d + q \in 1 .. m + 1
      BY <1>1
    <2>3. one[q] = R(w, q) /\ two[d + q] = R(ls, d + q)
      BY <2>2 DEF Positions
    <2> HIDE DEF one, two, R
    <2> QED
      BY <2>1, <2>3
  <1>5. Profiles(w, p, base) = Rounds(one, p) /\ Profiles(ls, d + p, base) = Rounds(two, d + p)
    BY DEF Profiles
  <1> HIDE DEF one, two, n, m
  <1>6. MovedLoop(Rounds(one, p), Rounds(two, d + p), d, p, n)
    <2>1. p \in 1 .. n + 1
      BY DEF n
    <2> QED
      BY <1>1, <1>2, <1>3, <1>4, <2>1, RoundsMove
  <1> QED
    BY <1>5, <1>6 DEF n

\* parse_load_profiles gives the same value and errors.
LEMMA LoadProfilesMove ==
    ASSUME NEW ls, NEW w, NEW d, Window(ls, w, d), NEW p \in 1 .. Len(w) + 1
    PROVE  MovedValue(ParseLoadProfiles(w, p), ParseLoadProfiles(ls, d + p), d, p, Len(w))
  <1> DEFINE base == DetectBaseIndent(w, p)
             a == ProfilesFrom(w, p, base)
             b == ProfilesFrom(ls, d + p, base)
  <1>1. ParseLoadProfiles(w, p) = AsProfiles(a) /\ ParseLoadProfiles(ls, d + p) = AsProfiles(b)
    BY BaseIndentMoves DEF ParseLoadProfiles
  <1>2. MovedLoop(a, b, d, p, Len(w))
    <2> HIDE DEF base
    <2>1. CASE base = NoIndent
      <3>1. Len(w) \in Nat
        BY WindowFacts
      <3> QED
        BY <2>1, <3>1, StoppedLoop DEF ProfilesFrom
    <2>2. CASE base # NoIndent
      BY <2>2, ProfilesMove DEF ProfilesFrom
    <2> QED
      BY <2>1, <2>2
  <1> HIDE DEF a, b
  <1> QED
    BY <1>1, <1>2 DEF AsProfiles, MovedLoop, MovedValue

\* Every structured field gives the same value and errors.
LEMMA StructuredMoves ==
    ASSUME NEW ls, NEW w, NEW d, Window(ls, w, d), NEW p \in 1 .. Len(w) + 1,
           NEW key \in StructuredFields \ {"load_profiles"}
    PROVE  MovedValue(ParseStructured(w, p, key), ParseStructured(ls, d + p, key), d, p, Len(w))
  <1>1. CASE key = "code"
    BY <1>1, CodeBlockMoves DEF ParseStructured
  <1>2. CASE key = "agent_context"
    BY <1>2, AgentContextMoves DEF ParseStructured
  <1>3. CASE key \in {"code_blocks", "verify", "parallel_groups", "memory"}
    <2>1. /\ ParseStructured(w, p, key) = ParseObjects(key, EntriesAtBase(w, p))
          /\ ParseStructured(ls, d + p, key) = ParseObjects(key, EntriesAtBase(ls, d + p))
      BY <1>3 DEF ParseStructured
    <2> DEFINE a == EntriesAtBase(w, p)
               b == EntriesAtBase(ls, d + p)
    <2>2. MovedLoop(a, b, d, p, Len(w))
      BY EntriesAtBaseMove
    <2> HIDE DEF a, b
    <2>3. MovedValue(ParseObjects(key, a), ParseObjects(key, b), d, p, Len(w))
      BY <1>3, <2>2, ObjectsMove
    <2> QED
      BY <2>1, <2>3 DEF a, b
  <1> QED
    BY <1>1, <1>2, <1>3 DEF StructuredFields

-------------------------------------------------------------------------------
(***************************************************************************)
(* A round over the lines of a node                                        *)
(***************************************************************************)

\* One round over a node's lines, and the same round in the lines around its own.
MovedStep(r, s, d, p, n) ==
    /\ s.pos = d + r.pos /\ s.node = r.node /\ s.errors = r.errors
    /\ r.pos \in p .. n + 1 /\ r.errors \in Seq(Codes)

IsNode(node, id) == \E e, f : node = [id |-> id, extra |-> e, fields |-> f]

\* A node keeps its id when a field is set.
LEMMA NodeKept ==
    ASSUME NEW node, NEW id, IsNode(node, id)
    PROVE  /\ \A k, v : IsNode(SetField(node, k, v), id) /\ IsNode(SetExtra(node, k, v), id)
           /\ \A key, x : IsNode(AssignListField(node, key, x), id) /\ IsNode(AssignBlockField(node, key, x), id)
           /\ \A x, dup : IsNode(AssignBody(node, x, dup), id)
  <1>1. PICK e, f : node = [id |-> id, extra |-> e, fields |-> f]
    BY DEF IsNode
  <1>2. ASSUME NEW k, NEW v PROVE IsNode(SetField(node, k, v), id) /\ IsNode(SetExtra(node, k, v), id)
    <2> DEFINE g == (k :> v) @@ f
               x == (k :> v) @@ e
    <2>1. node.fields = f /\ node.extra = e
      BY <1>1
    <2>2. SetField(node, k, v) = [node EXCEPT !.fields = g] /\ SetExtra(node, k, v) = [node EXCEPT !.extra = x]
      BY <2>1 DEF SetField, SetExtra
    <2> HIDE DEF g, x
    <2>3. /\ SetField(node, k, v) = [id |-> id, extra |-> e, fields |-> g]
          /\ SetExtra(node, k, v) = [id |-> id, extra |-> x, fields |-> f]
      BY <1>1, <2>2
    <2> QED
      BY <2>3 DEF IsNode
  <1> QED
    BY <1>2 DEF AssignListField, AssignBlockField, AssignBody

\* assign_scalar keeps the id and reports codes only.
LEMMA ScalarAssigned ==
    ASSUME NEW node, NEW id, IsNode(node, id), NEW key, NEW val
    PROVE  /\ IsNode(AssignScalarField(node, key, val).node, id)
           /\ AssignScalarField(node, key, val).errors \in Seq(Codes)
  <1> DEFINE r == AssignScalarField(node, key, val)
             t == [text |-> OneLine(val)]
  <1> SUFFICES IsNode(r.node, id) /\ r.errors \in Seq(Codes)
    OBVIOUS
  <1>1. CASE key \in EnumFields /\ Parses(OneLine(val))
    <2>1. r = [node |-> SetField(node, key, t), errors |-> <<>>]
      BY <1>1 DEF AssignScalarField
    <2> HIDE DEF r, t
    <2> QED
      BY <2>1, NodeKept, CodesOf
  <1>2. CASE key \in EnumFields /\ ~Parses(OneLine(val))
    <2>1. r = [node |-> node, errors |-> EnumError(key)]
      <3>1. key \notin TextFields
        BY <1>2 DEF EnumFields, TextFields, BlockFields
      <3> QED
        BY <1>2, <3>1 DEF AssignScalarField
    <2>2. EnumError(key) \in Seq(Codes)
      BY CodesOf DEF EnumError
    <2> HIDE DEF r, t
    <2> QED
      BY <2>1, <2>2
  <1>3. CASE key \notin EnumFields /\ key \in TextFields
    <2>1. r = [node |-> SetField(node, key, t), errors |-> <<>>]
      BY <1>3 DEF AssignScalarField
    <2> HIDE DEF r, t
    <2> QED
      BY <2>1, NodeKept, CodesOf
  <1>4. CASE key \notin EnumFields /\ key \notin TextFields
    <2>1. r = [node |-> SetExtra(node, key, [scalar |-> val]), errors |-> <<>>]
      BY <1>4 DEF AssignScalarField
    <2> HIDE DEF r, t
    <2> QED
      BY <2>1, NodeKept, CodesOf
  <1> QED
    BY <1>1, <1>2, <1>3, <1>4

\* The body of a field of a node.
LEMMA FieldBodyMoves ==
    ASSUME NEW ls, NEW w, NEW d, Window(ls, w, d), NEW p \in 1 .. Len(w),
           NEW node, NEW id, IsNode(node, id)
    PROVE  /\ MovedStep(FieldBody(node, w, p), FieldBody(node, ls, d + p), d, p + 1, Len(w))
           /\ IsNode(FieldBody(node, w, p).node, id)
  <1> DEFINE n == Len(w)
             key == w[p].key
             r == FieldBody(node, w, p)
             s == FieldBody(node, ls, d + p)
             got(x, y, new) == /\ r = [pos |-> x.pos, node |-> new, errors |-> <<>>]
                               /\ s = [pos |-> y.pos, node |-> new, errors |-> <<>>]
  <1> SUFFICES MovedStep(r, s, d, p + 1, n) /\ IsNode(r.node, id)
    OBVIOUS
  <1>1. ls[d + p] = w[p] /\ p + 1 \in 1 .. n + 1 /\ (d + p) + 1 = d + (p + 1)
    BY WindowFacts
  <1>2. CASE key = "load_profiles"
    <2> DEFINE x == CollectStructuredRaw(w, p + 1)
               y == CollectStructuredRaw(ls, d + (p + 1))
               new == SetExtra(node, key, [block |-> x.text])
    <2>1. MovedText(x, y, d, p + 1, n)
      BY <1>1, StructuredRawMoves
    <2>2. /\ r = [pos |-> x.pos, node |-> SetExtra(node, key, [block |-> x.text]), errors |-> <<>>]
          /\ s = [pos |-> y.pos, node |-> SetExtra(node, key, [block |-> y.text]), errors |-> <<>>]
      BY <1>1, <1>2 DEF FieldBody
    <2> HIDE DEF x, y, r, s, n
    <2> QED
      BY <2>1, <2>2, NodeKept, CodesOf DEF MovedText, MovedStep
  <1>3. CASE key # "load_profiles" /\ key \in StructuredFields
    <2> DEFINE x == ParseStructured(w, p + 1, key)
               y == ParseStructured(ls, d + (p + 1), key)
    <2>1. MovedValue(x, y, d, p + 1, n)
      BY <1>1, <1>3, StructuredMoves
    <2>2. /\ r = [pos |-> x.pos, node |-> SetField(node, key, x.value), errors |-> x.errors]
          /\ s = [pos |-> y.pos, node |-> SetField(node, key, y.value), errors |-> y.errors]
      BY <1>1, <1>3 DEF FieldBody
    <2> HIDE DEF x, y, r, s, n
    <2> QED
      BY <2>1, <2>2, NodeKept DEF MovedValue, MovedStep
  <1>4. CASE key # "load_profiles" /\ key \notin StructuredFields
    <2> DEFINE f == NextSolid(w, p + 1, Remarks(w))
               g == NextSolid(ls, d + (p + 1), Remarks(ls))
    <2>1. f \in Items(w) <=> g \in Items(ls)
      <3>1. g = d + f /\ f \in p + 1 .. n + 1
        BY <1>1, KindsMove, SolidMoves
      <3> HIDE DEF f, g
      <3>2. f \in 1 .. n \/ f = n + 1
        <4>1. n \in Nat
          BY WindowFacts
        <4> HIDE DEF n
        <4> QED
          BY <1>1, <3>1, <4>1
      <3>3. d + (n + 1) = d + n + 1
        BY WindowFacts
      <3>4. Moved(Items(w), Items(ls), n, d)
        BY KindsMove
      <3> QED
        BY <3>1, <3>2, <3>3, <3>4 DEF Moved
    <2>2. CASE f \in Items(w)
      <3> DEFINE x == ParseIndentedList(w, p + 1)
                 y == ParseIndentedList(ls, d + (p + 1))
      <3>1. MovedList(x, y, d, p + 1, n)
        BY <1>1, IndentedListMoves
      <3>2. /\ r = [pos |-> x.pos, node |-> AssignListField(node, key, x.items), errors |-> <<>>]
            /\ s = [pos |-> y.pos, node |-> AssignListField(node, key, y.items), errors |-> <<>>]
        BY <1>1, <1>4, <2>1, <2>2 DEF FieldBody
      <3> HIDE DEF x, y, r, s, n
      <3> QED
        BY <3>1, <3>2, NodeKept, CodesOf DEF MovedList, MovedStep
    <2>3. CASE f \notin Items(w)
      <3> DEFINE x == ParseBlock(w, p + 1)
                 y == ParseBlock(ls, d + (p + 1))
      <3>1. MovedText(x, y, d, p + 1, n)
        BY <1>1, BlockMoves
      <3>2. /\ r = [pos |-> x.pos, node |-> AssignBlockField(node, key, x.text), errors |-> <<>>]
            /\ s = [pos |-> y.pos, node |-> AssignBlockField(node, key, y.text), errors |-> <<>>]
        BY <1>1, <1>4, <2>1, <2>3 DEF FieldBody
      <3> HIDE DEF x, y, r, s, n
      <3> QED
        BY <3>1, <3>2, NodeKept, CodesOf DEF MovedText, MovedStep
    <2> QED
      BY <2>2, <2>3
  <1> QED
    BY <1>2, <1>3, <1>4

\* One line of a node gives the same node and errors.
LEMMA NodeStepMoves ==
    ASSUME NEW ls, NEW w, NEW d, Window(ls, w, d), NEW p \in 1 .. Len(w), w[p].kind # "node",
           NEW node, NEW id, IsNode(node, id), NEW seen
    PROVE  /\ MovedStep(NodeStep(node, w, p, seen), NodeStep(node, ls, d + p, seen), d, p + 1, Len(w))
           /\ IsNode(NodeStep(node, w, p, seen).node, id)
  <1> DEFINE n == Len(w)
             l == w[p]
             dup == l.key \in seen
             r == NodeStep(node, w, p, seen)
             s == NodeStep(node, ls, d + p, seen)
             good == MovedStep(r, s, d, p + 1, n) /\ IsNode(r.node, id)
  <1> SUFFICES good
    OBVIOUS
  <1>1. /\ ls[d + p] = l /\ p + 1 \in 1 .. n + 1 /\ (d + p) + 1 = d + (p + 1) /\ p + 1 \in p + 1 .. n + 1
        /\ l \in Lines
    BY WindowFacts
  <1>2. l.kind \in Kinds
    BY <1>1 DEF Lines
  <1>3. ASSUME NEW new, NEW errors \in Seq(Codes), IsNode(new, id),
               r = [pos |-> p + 1, node |-> new, errors |-> errors],
               s = [pos |-> (d + p) + 1, node |-> new, errors |-> errors]
        PROVE  good
    <2> HIDE DEF r, s, n
    <2> QED
      BY <1>1, <1>3 DEF MovedStep
  <1>4. CASE l.kind \in {"blank", "comment", "expect"}
    <2>1. /\ r = [pos |-> p + 1, node |-> node, errors |-> <<>>]
          /\ s = [pos |-> (d + p) + 1, node |-> node, errors |-> <<>>]
      BY <1>1, <1>4 DEF NodeStep, Blank, Remark, Is
    <2> HIDE DEF good, r, s
    <2> QED
      BY <2>1, <1>3, CodesOf
  <1>5. CASE l.kind \in {"item", "plain"}
    <2>1. /\ r = [pos |-> p + 1, node |-> node, errors |-> <<"P003">>]
          /\ s = [pos |-> (d + p) + 1, node |-> node, errors |-> <<"P003">>]
      BY <1>1, <1>5 DEF NodeStep, Blank, Remark, Is
    <2> HIDE DEF good, r, s
    <2> QED
      BY <2>1, <1>3, CodesOf
  <1>6. CASE l.kind \in {"scalar", "list"} /\ dup
    <2>1. /\ r = [pos |-> p + 1, node |-> node, errors |-> <<"P006">>]
          /\ s = [pos |-> (d + p) + 1, node |-> node, errors |-> <<"P006">>]
      BY <1>1, <1>6 DEF NodeStep, Blank, Remark, Is
    <2> HIDE DEF good, r, s
    <2> QED
      BY <2>1, <1>3, CodesOf
  <1>7. CASE l.kind = "start" /\ dup
    <2> DEFINE x == SkipFieldBody(w, p + 1)
               y == SkipFieldBody(ls, d + (p + 1))
    <2>1. y = d + x /\ x \in p + 1 .. n + 1
      BY <1>1, StructuredRawMoves
    <2>2. /\ r = [pos |-> x, node |-> node, errors |-> <<"P006">>]
          /\ s = [pos |-> y, node |-> node, errors |-> <<"P006">>]
      BY <1>1, <1>7 DEF NodeStep, Blank, Remark, Is
    <2> HIDE DEF r, s, x, y, n
    <2> QED
      BY <2>1, <2>2, CodesOf DEF MovedStep
  <1>8. CASE l.kind = "scalar" /\ ~dup
    <2> DEFINE a == AssignScalarField(node, l.key, l.val)
    <2>1. /\ r = [pos |-> p + 1, node |-> a.node, errors |-> a.errors]
          /\ s = [pos |-> (d + p) + 1, node |-> a.node, errors |-> a.errors]
      BY <1>1, <1>8 DEF NodeStep, Blank, Remark, Is
    <2>2. IsNode(a.node, id) /\ a.errors \in Seq(Codes)
      BY ScalarAssigned
    <2> HIDE DEF good, r, s, a
    <2> QED
      BY <2>1, <2>2, <1>3
  <1>9. CASE l.kind = "list" /\ ~dup
    <2> DEFINE a == AssignListField(node, l.key, l.items)
    <2>1. /\ r = [pos |-> p + 1, node |-> a, errors |-> <<>>]
          /\ s = [pos |-> (d + p) + 1, node |-> a, errors |-> <<>>]
      BY <1>1, <1>9 DEF NodeStep, Blank, Remark, Is
    <2>2. IsNode(a, id)
      BY NodeKept
    <2> HIDE DEF good, r, s, a
    <2> QED
      BY <2>1, <2>2, <1>3, CodesOf
  <1>10. CASE l.kind = "start" /\ ~dup
    <2>1. r = FieldBody(node, w, p) /\ s = FieldBody(node, ls, d + p)
      BY <1>1, <1>10 DEF NodeStep, Blank, Remark, Is
    <2> HIDE DEF r, s
    <2> QED
      BY <2>1, FieldBodyMoves
  <1>11. CASE l.kind = "body"
    <2> DEFINE x == CollectPipeBody(w, p)
               y == CollectPipeBody(ls, d + p)
    <2>1. MovedText(x, y, d, p + 1, n)
      BY PipeBodyMoves
    <2>2. /\ r = [pos |-> x.pos, node |-> AssignBody(node, x.text, dup), errors |-> <<>>]
          /\ s = [pos |-> y.pos, node |-> AssignBody(node, y.text, dup), errors |-> <<>>]
      BY <1>1, <1>11 DEF NodeStep, Blank, Remark, Is
    <2> HIDE DEF r, s, x, y, n, dup
    <2> QED
      BY <2>1, <2>2, NodeKept, CodesOf DEF MovedText, MovedStep
  <1> QED
    BY <1>2, <1>4, <1>5, <1>6, <1>7, <1>8, <1>9, <1>10, <1>11 DEF Kinds

-------------------------------------------------------------------------------
(***************************************************************************)
(* A round over the lines of the header                                    *)
(***************************************************************************)

MovedHeader(r, s, d, p, n) ==
    /\ s.pos = d + r.pos /\ s.header = r.header /\ s.errors = r.errors
    /\ r.pos \in p .. n + 1 /\ r.errors \in Seq(Codes)

\* An error repeated is a list of errors.
LEMMA RepeatedCodes ==
    ASSUME NEW S, IsFiniteSet(S)
    PROVE  Repeated("P001", Cardinality(S)) \in Seq(Codes)
  <1>1. Cardinality(S) \in Nat
    BY FS_CardinalityType
  <1> DEFINE k == Cardinality(S)
             s == [i \in 1 .. k |-> "P001"]
  <1> HIDE DEF k
  <1>2. "P001" \in Codes
    BY DEF Codes
  <1>3. s \in [1 .. k -> Codes]
    BY <1>2
  <1> HIDE DEF s
  <1>4. s \in Seq(Codes)
    BY <1>1, <1>3, SeqDef DEF k
  <1> QED
    BY <1>4 DEF Repeated, s, k

\* parse_imports reports codes only.
LEMMA ImportErrors ==
    ASSUME NEW T, NEW items \in Seq(T)
    PROVE  ParseImports(items).errors \in Seq(Codes)
  <1> DEFINE S == {i \in DOMAIN items : ~(Len(items[i]) = 1 /\ items[i][1] \notin BadWords)}
  <1>1. ParseImports(items).errors = Repeated("P001", Cardinality(S))
    BY DEF ParseImports
  <1>2. IsFiniteSet(S)
    <2>1. DOMAIN items = 1 .. Len(items) /\ Len(items) \in Nat
      BY LenProperties
    <2>2. IsFiniteSet(1 .. Len(items))
      BY <2>1, FS_Interval
    <2> QED
      BY <2>1, <2>2, FS_Subset
  <1> HIDE DEF S
  <1> QED
    BY <1>1, <1>2, RepeatedCodes

\* What a list field of a header gives.
LEMMA ListItems ==
    ASSUME NEW w \in Seq(Lines), NEW p \in 1 .. Len(w) + 1, NEW q \in p .. Len(w) + 1
    PROVE  ItemsOf(Upto(w, p, q)) \in Seq(Seq(STRING))
  <1> DEFINE s == Upto(w, p, q)
             found == [i \in DOMAIN s |-> IF Item(s[i]) THEN <<s[i].val>> ELSE <<>>]
  <1>1. s \in Seq(Lines)
    <2>1. p \in Int /\ q - 1 \in Int
      OBVIOUS
    <2>2. \A i \in p .. q - 1 : w[i] \in Lines
      BY SeqFacts
    <2> QED
      BY <2>1, <2>2, SubSeqProperties DEF Upto
  <1> HIDE DEF s
  <1>2. DOMAIN s = 1 .. Len(s) /\ Len(s) \in Nat /\ \A i \in 1 .. Len(s) : s[i] \in Lines
    BY <1>1, SeqFacts
  <1>3. \A i \in 1 .. Len(s) : found[i] \in Seq(Seq(STRING))
    <2> SUFFICES ASSUME NEW i \in 1 .. Len(s) PROVE found[i] \in Seq(Seq(STRING))
      OBVIOUS
    <2>1. s[i].val \in Seq(STRING)
      BY <1>2 DEF Lines
    <2> DEFINE val == s[i].val
    <2>2. found[i] = IF Item(s[i]) THEN <<val>> ELSE <<>>
      BY <1>2
    <2> HIDE DEF val, found
    <2>3. val \in Seq(STRING)
      BY <2>1 DEF val
    <2> DEFINE V == Seq(STRING)
    <2>4. val \in V
      BY <2>3
    <2> HIDE DEF V
    <2>5. <<val>> \in Seq(V) /\ <<>> \in Seq(V)
      BY <2>4, EmptySeq
    <2> QED
      BY <2>2, <2>5 DEF V
  <1>4. found \in [1 .. Len(s) -> Seq(Seq(STRING))]
    BY <1>2, <1>3
  <1>5. found \in Seq(Seq(Seq(STRING)))
    <2> HIDE DEF found
    <2> QED
      BY <1>2, <1>4, SeqDef
  <1> HIDE DEF found
  <1>6. FlattenSeq(found) \in Seq(Seq(STRING))
    BY <1>5, FlattenType
  <1> QED
    BY <1>6 DEF ItemsOf, found, s

\* One field of the header.
LEMMA HeaderFieldMoves ==
    ASSUME NEW ls, NEW w, NEW d, Window(ls, w, d), NEW p \in 1 .. Len(w), NEW header,
           w[p].kind \in {"scalar", "list", "start"}
    PROVE  MovedHeader(HeaderField(header, w, p), HeaderField(header, ls, d + p), d, p + 1, Len(w))
  <1> DEFINE n == Len(w)
             l == w[p]
             r == HeaderField(header, w, p)
             s == HeaderField(header, ls, d + p)
             good == MovedHeader(r, s, d, p + 1, n)
  <1> SUFFICES good
    OBVIOUS
  <1>1. /\ ls[d + p] = l /\ p + 1 \in 1 .. n + 1 /\ (d + p) + 1 = d + (p + 1) /\ p + 1 \in p + 1 .. n + 1
        /\ l \in Lines /\ w \in Seq(Lines)
    BY WindowFacts DEF Window
  <1>2. ASSUME NEW x, NEW y, NEW new, NEW errors \in Seq(Codes), y = d + x, x \in p + 1 .. n + 1,
               r = [pos |-> x, header |-> new, errors |-> errors],
               s = [pos |-> y, header |-> new, errors |-> errors]
        PROVE  good
    <2> HIDE DEF r, s, n
    <2> QED
      BY <1>2 DEF MovedHeader
  <1>3. CASE l.kind = "scalar"
    <2> DEFINE text == (IF l.key \in HeaderTexts THEN (l.key :> [text |-> OneLine(l.val)]) ELSE <<>>) @@ header
               errors == IF l.key \in FormattedHeaderFields /\ ~Parses(OneLine(l.val)) THEN <<"P001">> ELSE <<>>
    <2>1. /\ r = [pos |-> p + 1, header |-> text, errors |-> errors]
          /\ s = [pos |-> (d + p) + 1, header |-> text, errors |-> errors]
      BY <1>1, <1>3 DEF HeaderField, Is
    <2>2. errors \in Seq(Codes)
      BY CodesOf
    <2> HIDE DEF text, errors, r, s, good
    <2> QED
      BY <1>1, <1>2, <2>1, <2>2
  <1>4. CASE l.kind = "list" /\ l.key = "tags"
    <2> DEFINE new == ("tags" :> [list |-> l.items]) @@ header
    <2>1. /\ r = [pos |-> p + 1, header |-> new, errors |-> <<>>]
          /\ s = [pos |-> (d + p) + 1, header |-> new, errors |-> <<>>]
      BY <1>1, <1>4 DEF HeaderField, Is
    <2> HIDE DEF new, r, s, good
    <2> QED
      BY <1>1, <1>2, <2>1, CodesOf
  <1>5. CASE l.kind = "list" /\ l.key = "imports"
    <2> DEFINE found == ParseImports(l.items)
               new == ("imports" :> [list |-> found.items]) @@ header
    <2>1. /\ r = [pos |-> p + 1, header |-> new, errors |-> found.errors]
          /\ s = [pos |-> (d + p) + 1, header |-> new, errors |-> found.errors]
      BY <1>1, <1>5 DEF HeaderField, Is
    <2>2. l.items \in Seq(Seq(STRING))
      BY <1>1 DEF Lines
    <2>3. found.errors \in Seq(Codes)
      BY <2>2, ImportErrors
    <2> HIDE DEF found, new, r, s, good
    <2> QED
      BY <1>1, <1>2, <2>1, <2>3
  <1>6. CASE l.kind = "start" /\ l.key = "tags"
    <2> DEFINE a == ParseIndentedList(w, p + 1)
               b == ParseIndentedList(ls, d + (p + 1))
    <2>1. MovedList(a, b, d, p + 1, n)
      BY <1>1, IndentedListMoves
    <2>2. /\ r = [pos |-> a.pos, header |-> ("tags" :> [list |-> a.items]) @@ header, errors |-> <<>>]
          /\ s = [pos |-> b.pos, header |-> ("tags" :> [list |-> b.items]) @@ header, errors |-> <<>>]
      BY <1>1, <1>6 DEF HeaderField, Is
    <2> HIDE DEF a, b, r, s, good, n
    <2>3. b.pos = d + a.pos /\ b.items = a.items /\ a.pos \in p + 1 .. n + 1
      BY <2>1 DEF MovedList
    <2> QED
      BY <1>2, <2>2, <2>3, CodesOf
  <1>7. CASE l.kind = "start" /\ l.key = "imports"
    <2> DEFINE a == ParseIndentedList(w, p + 1)
               b == ParseIndentedList(ls, d + (p + 1))
               set(all) == [pos |-> all.pos,
                            header |-> ("imports" :> [list |-> ParseImports(all.items).items]) @@ header,
                            errors |-> ParseImports(all.items).errors]
    <2>1. MovedList(a, b, d, p + 1, n)
      BY <1>1, IndentedListMoves
    <2>2. r = set(a) /\ s = set(b)
      BY <1>1, <1>7 DEF HeaderField, Is
    <2>3. a.items \in Seq(Seq(STRING))
      <3> DEFINE e == Reach(w, p + 1, Items(w) \cup Remarks(w), Blanks(w) \cup Remarks(w), Items(w))
      <3>1. a = ListUpto(w, p + 1, e)
        BY DEF ParseIndentedList
      <3>2. e \in p + 1 .. n + 1
        <4>1. a.pos \in p + 1 .. n + 1
          BY <2>1 DEF MovedList
        <4> HIDE DEF a, e
        <4> QED
          BY <3>1, <4>1 DEF ListUpto
      <3> HIDE DEF a, e
      <3>3. ItemsOf(Upto(w, p + 1, e)) \in Seq(Seq(STRING))
        BY <1>1, <3>2, ListItems
      <3> QED
        BY <3>1, <3>3 DEF ListUpto
    <2> HIDE DEF a, b, r, s, good, n
    <2>4. b.pos = d + a.pos /\ b.items = a.items /\ a.pos \in p + 1 .. n + 1
      BY <2>1 DEF MovedList
    <2> DEFINE found == ParseImports(a.items)
               new == ("imports" :> [list |-> found.items]) @@ header
    <2>5. found.errors \in Seq(Codes)
      BY <2>3, ImportErrors
    <2>6. r = [pos |-> a.pos, header |-> new, errors |-> found.errors] /\ s = [pos |-> b.pos, header |-> new, errors |-> found.errors]
      BY <2>2, <2>4
    <2> HIDE DEF found, new
    <2> QED
      BY <1>2, <2>4, <2>5, <2>6
  <1>8. CASE l.kind = "list" /\ l.key \notin {"tags", "imports"}
    <2> DEFINE new == <<>> @@ header
    <2>1. /\ r = [pos |-> p + 1, header |-> new, errors |-> <<>>]
          /\ s = [pos |-> (d + p) + 1, header |-> new, errors |-> <<>>]
      BY <1>1, <1>8 DEF HeaderField, Is
    <2> HIDE DEF new, r, s, good
    <2> QED
      BY <1>1, <1>2, <2>1, CodesOf
  <1>9. CASE l.kind = "start" /\ l.key = "description"
    <2> DEFINE a == ParseBlock(w, p + 1)
               b == ParseBlock(ls, d + (p + 1))
    <2>1. MovedText(a, b, d, p + 1, n)
      BY <1>1, BlockMoves
    <2>2. /\ r = [pos |-> a.pos, header |-> ("description" :> [text |-> a.text]) @@ header, errors |-> <<>>]
          /\ s = [pos |-> b.pos, header |-> ("description" :> [text |-> b.text]) @@ header, errors |-> <<>>]
      BY <1>1, <1>9 DEF HeaderField, Is
    <2> HIDE DEF a, b, r, s, good, n
    <2>3. b.pos = d + a.pos /\ b.text = a.text /\ a.pos \in p + 1 .. n + 1
      BY <2>1 DEF MovedText
    <2> QED
      BY <1>2, <2>2, <2>3, CodesOf
  <1>10. CASE l.kind = "start" /\ l.key = "load_profiles"
    <2> DEFINE a == ParseLoadProfiles(w, p + 1)
               b == ParseLoadProfiles(ls, d + (p + 1))
    <2>1. MovedValue(a, b, d, p + 1, n)
      BY <1>1, LoadProfilesMove
    <2>2. /\ r = [pos |-> a.pos, header |-> ("load_profiles" :> a.value) @@ header, errors |-> a.errors]
          /\ s = [pos |-> b.pos, header |-> ("load_profiles" :> b.value) @@ header, errors |-> b.errors]
      BY <1>1, <1>10 DEF HeaderField, Is
    <2> HIDE DEF a, b, r, s, good, n
    <2>3. b.pos = d + a.pos /\ b.value = a.value /\ b.errors = a.errors /\ a.pos \in p + 1 .. n + 1 /\ a.errors \in Seq(Codes)
      BY <2>1 DEF MovedValue
    <2> QED
      BY <1>2, <2>2, <2>3
  <1>11. CASE l.kind = "start" /\ l.key \notin {"tags", "imports", "description", "load_profiles"}
    <2> DEFINE x == SkipFieldBody(w, p + 1)
               y == SkipFieldBody(ls, d + (p + 1))
               new == <<>> @@ header
    <2>1. y = d + x /\ x \in p + 1 .. n + 1
      BY <1>1, StructuredRawMoves
    <2>2. /\ r = [pos |-> x, header |-> new, errors |-> <<>>]
          /\ s = [pos |-> y, header |-> new, errors |-> <<>>]
      BY <1>1, <1>11 DEF HeaderField, Is
    <2> HIDE DEF r, s, x, y, n, new, good
    <2> QED
      BY <1>2, <2>1, <2>2, CodesOf
  <1> QED
    BY <1>3, <1>4, <1>5, <1>6, <1>7, <1>8, <1>9, <1>10, <1>11

\* One line of the header gives the same header and errors.
LEMMA HeaderStepMoves ==
    ASSUME NEW ls, NEW w, NEW d, Window(ls, w, d), NEW p \in 1 .. Len(w), w[p].kind # "node",
           NEW header, NEW seen
    PROVE  MovedHeader(HeaderStep(header, w, p, seen), HeaderStep(header, ls, d + p, seen), d, p + 1, Len(w))
  <1> DEFINE n == Len(w)
             l == w[p]
             r == HeaderStep(header, w, p, seen)
             s == HeaderStep(header, ls, d + p, seen)
             good == MovedHeader(r, s, d, p + 1, n)
  <1> SUFFICES good
    OBVIOUS
  <1>1. /\ ls[d + p] = l /\ p + 1 \in 1 .. n + 1 /\ (d + p) + 1 = d + (p + 1) /\ p + 1 \in p + 1 .. n + 1
        /\ l \in Lines
    BY WindowFacts
  <1>2. l.kind \in Kinds
    BY <1>1 DEF Lines
  <1>3. ASSUME NEW x, NEW y, NEW errors \in Seq(Codes), y = d + x, x \in p + 1 .. n + 1,
               r = [pos |-> x, header |-> header, errors |-> errors],
               s = [pos |-> y, header |-> header, errors |-> errors]
        PROVE  good
    <2> HIDE DEF r, s, n
    <2> QED
      BY <1>3 DEF MovedHeader
  <1>4. CASE l.kind \in {"blank", "comment", "expect", "body"}
    <2>1. /\ r = [pos |-> p + 1, header |-> header, errors |-> <<>>]
          /\ s = [pos |-> (d + p) + 1, header |-> header, errors |-> <<>>]
      BY <1>1, <1>4 DEF HeaderStep, Blank, Remark, Is
    <2> HIDE DEF good, r, s
    <2> QED
      BY <1>1, <2>1, <1>3, CodesOf
  <1>5. CASE l.kind \in {"item", "plain"}
    <2>1. /\ r = [pos |-> p + 1, header |-> header, errors |-> <<"P003">>]
          /\ s = [pos |-> (d + p) + 1, header |-> header, errors |-> <<"P003">>]
      BY <1>1, <1>5 DEF HeaderStep, Blank, Remark, Is
    <2> HIDE DEF good, r, s
    <2> QED
      BY <1>1, <2>1, <1>3, CodesOf
  <1>6. CASE l.kind \in {"scalar", "list"} /\ l.key \in seen
    <2>1. /\ r = [pos |-> p + 1, header |-> header, errors |-> <<"P006">>]
          /\ s = [pos |-> (d + p) + 1, header |-> header, errors |-> <<"P006">>]
      BY <1>1, <1>6 DEF HeaderStep, Blank, Remark, Is
    <2> HIDE DEF good, r, s
    <2> QED
      BY <1>1, <2>1, <1>3, CodesOf
  <1>7. CASE l.kind = "start" /\ l.key \in seen
    <2> DEFINE x == SkipFieldBody(w, p + 1)
               y == SkipFieldBody(ls, d + (p + 1))
    <2>1. y = d + x /\ x \in p + 1 .. n + 1
      BY <1>1, StructuredRawMoves
    <2>2. /\ r = [pos |-> x, header |-> header, errors |-> <<"P006">>]
          /\ s = [pos |-> y, header |-> header, errors |-> <<"P006">>]
      BY <1>1, <1>7 DEF HeaderStep, Blank, Remark, Is
    <2> HIDE DEF r, s, x, y, n, good
    <2> QED
      BY <2>1, <2>2, <1>3, CodesOf
  <1>8. CASE l.kind \in {"scalar", "list", "start"} /\ l.key \notin seen
    <2>1. r = HeaderField(header, w, p) /\ s = HeaderField(header, ls, d + p)
      BY <1>1, <1>8 DEF HeaderStep, Blank, Remark, Is
    <2> HIDE DEF r, s
    <2> QED
      BY <2>1, <1>8, HeaderFieldMoves
  <1> QED
    BY <1>2, <1>4, <1>5, <1>6, <1>7, <1>8 DEF Kinds

-------------------------------------------------------------------------------
(***************************************************************************)
(* The whole node and the whole header                                     *)
(***************************************************************************)

\* f is the function of NodeLoop, for the first c rounds.
IsNodeLoop(f, ls, start, c) ==
    f = [k \in 0 .. c |-> IF k = 0 THEN start ELSE NodeRound(ls, f[k - 1])]

\* It exists for any number of rounds.
LEMMA NodeLoopExists ==
    ASSUME NEW ls, NEW start, NEW c \in Nat
    PROVE  \E f : IsNodeLoop(f, ls, start, c)
  <1> DEFINE Bad == {n \in Nat : ~\E f : IsNodeLoop(f, ls, start, n)}
  <1>1. ASSUME Bad # {} PROVE FALSE
    <2>1. PICK n \in Bad : \A m \in Bad : n <= m
      BY <1>1, LeastNumber
    <2>2. CASE n = 0
      <3> DEFINE f == [k \in 0 .. 0 |-> start]
      <3>1. IsNodeLoop(f, ls, start, 0)
        BY DEF IsNodeLoop
      <3> QED
        BY <2>2, <3>1
    <2>3. CASE n # 0
      <3>1. n - 1 \in Nat /\ n \in Nat /\ n - 1 \notin Bad
        BY <2>1, <2>3
      <3>2. PICK g : IsNodeLoop(g, ls, start, n - 1)
        BY <3>1
      <3>3. \A k \in 0 .. n - 1 : g[k] = IF k = 0 THEN start ELSE NodeRound(ls, g[k - 1])
        BY <3>2 DEF IsNodeLoop
      <3> DEFINE f == [k \in 0 .. n |-> IF k < n THEN g[k] ELSE NodeRound(ls, g[n - 1])]
      <3>4. \A k \in 0 .. n : f[k] = IF k = 0 THEN start ELSE NodeRound(ls, f[k - 1])
        <4> SUFFICES ASSUME NEW k \in 0 .. n
                     PROVE  f[k] = IF k = 0 THEN start ELSE NodeRound(ls, f[k - 1])
          OBVIOUS
        <4>1. CASE k < n
          <5>1. k \in 0 .. n - 1 /\ f[k] = g[k] /\ (k # 0 => f[k - 1] = g[k - 1])
            BY <3>1, <4>1
          <5> QED
            BY <3>3, <5>1
        <4>2. CASE k = n
          <5>1. f[k] = NodeRound(ls, g[n - 1]) /\ f[k - 1] = g[n - 1] /\ k # 0
            BY <2>3, <3>1, <4>2
          <5> QED
            BY <4>2, <5>1
        <4> QED
          BY <3>1, <4>1, <4>2
      <3>5. DOMAIN f = 0 .. n /\ f = [k \in 0 .. n |-> f[k]]
        OBVIOUS
      <3> HIDE DEF f
      <3>6. IsNodeLoop(f, ls, start, n)
        BY <3>4, <3>5 DEF IsNodeLoop
      <3> QED
        BY <2>1, <3>6
    <2> QED
      BY <2>2, <2>3
  <1> QED
    BY <1>1

\* It starts at the start and makes one round after the other.
LEMMA NodeLoopSteps ==
    ASSUME NEW ls, Len(ls) \in Nat, NEW start
    PROVE  \E f : /\ IsNodeLoop(f, ls, start, Len(ls))
                  /\ f[0] = start /\ \A k \in 1 .. Len(ls) : f[k] = NodeRound(ls, f[k - 1])
                  /\ NodeLoop(ls, start) = f[Len(ls)]
  <1> DEFINE after == CHOOSE f : f = [k \in 0 .. Len(ls) |-> IF k = 0 THEN start ELSE NodeRound(ls, f[k - 1])]
  <1>1. PICK f : IsNodeLoop(f, ls, start, Len(ls))
    BY NodeLoopExists
  <1>2. IsNodeLoop(after, ls, start, Len(ls))
    BY <1>1 DEF IsNodeLoop
  <1>3. NodeLoop(ls, start) = after[Len(ls)]
    BY DEF NodeLoop
  <1> HIDE DEF after
  <1>4. \A k \in 0 .. Len(ls) : after[k] = IF k = 0 THEN start ELSE NodeRound(ls, after[k - 1])
    BY <1>2 DEF IsNodeLoop
  <1>5. after[0] = start /\ \A k \in 1 .. Len(ls) : after[k] = NodeRound(ls, after[k - 1])
    BY <1>4
  <1> QED
    BY <1>2, <1>3, <1>5

\* The loop over a node's lines in w, and the same loop in the lines around it; it starts at a.
MovedNode(s, t, d, a, n, id) ==
    /\ t.pos = d + s.pos /\ t.node = s.node /\ t.errors = s.errors /\ t.seen = s.seen
    /\ s.pos \in a .. n + 1 /\ s.errors \in Seq(Codes) /\ IsNode(s.node, id)

\* One round of a node that is not over moves with the window.
LEMMA NodeRoundMoves ==
    ASSUME NEW ls, NEW w, NEW d, Window(ls, w, d), NEW a \in 1 .. Len(w) + 1, NEW id,
           NEW s, NEW t, MovedNode(s, t, d, a, Len(w), id)
    PROVE  /\ MovedNode(NodeRound(w, s), NodeRound(ls, t), d, a, Len(w), id)
           /\ ~AtSectionEnd(w, s.pos) => NodeRound(w, s).pos \in s.pos + 1 .. Len(w) + 1
           /\ s.pos = Len(w) + 1 => NodeRound(w, s) = s /\ NodeRound(ls, t) = t
  <1> DEFINE n == Len(w)
             p == s.pos
  <1>1. /\ n \in Nat /\ Len(ls) \in Nat /\ p \in a .. n + 1 /\ p \in 1 .. n + 1 /\ t.pos = d + p
        /\ a \in Nat
    BY WindowFacts DEF MovedNode
  <1>2. CASE p > n
    <2>1. AtSectionEnd(w, p)
      BY <1>2 DEF AtSectionEnd
    <2>2. d + p > Len(ls) \/ ls[d + p].kind = "node"
      BY <1>1, <1>2, WindowEnd
    <2>3. AtSectionEnd(ls, t.pos)
      BY <1>1, <2>2 DEF AtSectionEnd, Is
    <2>4. NodeRound(w, s) = s /\ NodeRound(ls, t) = t
      BY <2>1, <2>3 DEF NodeRound
    <2> QED
      BY <2>1, <2>4
  <1>3. CASE ~(p > n)
    <2>1. p \in 1 .. n /\ p # n + 1
      BY <1>1, <1>3
    <2>2. w[p] = ls[d + p] /\ ~(d + p > Len(ls))
      BY <2>1, WindowFacts
    <2>3. AtSectionEnd(w, s.pos) <=> w[p].kind = "node"
      BY <1>3 DEF AtSectionEnd, Is
    <2>4. AtSectionEnd(ls, t.pos) <=> w[p].kind = "node"
      BY <1>1, <2>2 DEF AtSectionEnd, Is
    <2>5. CASE w[p].kind = "node"
      <3>1. NodeRound(w, s) = s /\ NodeRound(ls, t) = t
        BY <2>3, <2>4, <2>5 DEF NodeRound
      <3> QED
        BY <2>1, <2>3, <2>5, <3>1
    <2>6. CASE w[p].kind # "node"
      <3> DEFINE x == NodeStep(s.node, w, p, s.seen)
                 y == NodeStep(s.node, ls, d + p, s.seen)
                 seen == Met(s.seen, w[p])
                 u == NodeRound(w, s)
                 v == NodeRound(ls, t)
      <3>1. MovedStep(x, y, d, p + 1, n) /\ IsNode(x.node, id)
        BY <2>1, <2>6, NodeStepMoves DEF MovedNode
      <3>2. /\ u = AfterStep(s, x, seen)
            /\ v = AfterStep(t, y, seen)
        BY <1>1, <2>2, <2>3, <2>4, <2>6 DEF NodeRound, MovedNode
      <3> HIDE DEF x, y, u, v, n, seen
      <3>3. /\ u.pos = x.pos /\ u.node = x.node /\ u.errors = Join(s.errors, x.errors) /\ u.seen = seen
            /\ v.pos = y.pos /\ v.node = y.node /\ v.errors = Join(t.errors, y.errors) /\ v.seen = seen
        BY <3>2, Zenon DEF AfterStep, Join
      <3>4. /\ y.pos = d + x.pos /\ y.node = x.node /\ y.errors = x.errors /\ x.pos \in p + 1 .. n + 1
            /\ x.errors \in Seq(Codes) /\ t.errors = s.errors /\ s.errors \in Seq(Codes)
        BY <3>1 DEF MovedStep, MovedNode
      <3>5. Join(s.errors, x.errors) \in Seq(Codes)
        BY <3>4, JoinFacts
      <3>6. x.pos \in a .. n + 1
        BY <1>1, <3>4
      <3>7. MovedNode(u, v, d, a, n, id)
        BY <3>1, <3>3, <3>4, <3>5, <3>6 DEF MovedNode
      <3>8. u.pos \in p + 1 .. n + 1
        BY <3>3, <3>4
      <3> QED
        BY <2>1, <3>7, <3>8 DEF u, v, n
    <2> QED
      BY <2>5, <2>6
  <1> QED
    BY <1>2, <1>3

\* The whole loop: in the longer file it makes more rounds, which change nothing.
LEMMA NodeLoopMoves ==
    ASSUME NEW ls, NEW w, NEW d, Window(ls, w, d), NEW a \in 1 .. Len(w) + 1, NEW id,
           NEW s, NEW t, MovedNode(s, t, d, a, Len(w), id)
    PROVE  /\ NodeLoop(w, s).pos \in a .. Len(w) + 1
           /\ NodeLoop(w, s).errors \in Seq(Codes) /\ IsNode(NodeLoop(w, s).node, id)
           /\ (\A q \in a .. Len(w) : w[q].kind # "node") =>
                /\ NodeLoop(w, s).pos = Len(w) + 1
                /\ MovedNode(NodeLoop(w, s), NodeLoop(ls, t), d, a, Len(w), id)
  <1> DEFINE n == Len(w)
             m == Len(ls)
             solid == \A q \in a .. n : w[q].kind # "node"
  <1>1. n \in Nat /\ m \in Nat /\ d \in Nat /\ d + n <= m /\ a \in Nat /\ a >= 1 /\ 0 \in 0 .. n /\ n \in 0 .. n
    BY WindowFacts
  <1>2. PICK f : f[0] = s /\ (\A k \in 1 .. n : f[k] = NodeRound(w, f[k - 1])) /\ NodeLoop(w, s) = f[n]
    BY <1>1, NodeLoopSteps
  <1>3. PICK g : g[0] = t /\ (\A k \in 1 .. m : g[k] = NodeRound(ls, g[k - 1])) /\ NodeLoop(ls, t) = g[m]
    BY <1>1, NodeLoopSteps
  <1> DEFINE Good(k) == /\ MovedNode(f[k], g[k], d, a, n, id)
                        /\ solid => f[k].pos >= a + k \/ f[k].pos = n + 1
             Bad == {k \in 0 .. n : ~Good(k)}
  <1>4. ASSUME Bad # {} PROVE FALSE
    <2>1. Bad \in SUBSET Nat
      OBVIOUS
    <2>2. PICK k \in Bad : \A j \in Bad : k <= j
      BY <1>4, <2>1, LeastNumber
    <2>3. k # 0
      <3>1. MovedNode(f[0], g[0], d, a, n, id)
        BY <1>2, <1>3
      <3>2. f[0].pos \in a .. n + 1 /\ a + 0 = a
        BY <1>1, <3>1 DEF MovedNode
      <3>3. f[0].pos >= a + 0
        <4> HIDE DEF n
        <4> QED
          BY <1>1, <3>2
      <3> HIDE DEF n, solid
      <3> QED
        BY <2>2, <3>1, <3>3
    <2>4. k \in 1 .. n /\ k - 1 \in 0 .. n /\ k - 1 \notin Bad /\ k \in 1 .. m
      <3> HIDE DEF Good
      <3> QED
        BY <1>1, <2>2, <2>3
    <2> DEFINE x == f[k - 1]
               y == g[k - 1]
    <2>5. Good(k - 1)
      BY <2>4
    <2>6. f[k] = NodeRound(w, x) /\ g[k] = NodeRound(ls, y)
      BY <1>2, <1>3, <2>4
    <2>7. MovedNode(x, y, d, a, n, id)
      BY <2>5
    <2>8. solid => x.pos >= a + (k - 1) \/ x.pos = n + 1
      BY <2>5
    <2>9. x.pos \in a .. n + 1
      BY <2>7 DEF MovedNode
    <2> HIDE DEF x, y
    <2>10. /\ MovedNode(NodeRound(w, x), NodeRound(ls, y), d, a, n, id)
           /\ ~AtSectionEnd(w, x.pos) => NodeRound(w, x).pos \in x.pos + 1 .. n + 1
           /\ x.pos = n + 1 => NodeRound(w, x) = x
      BY <2>7, NodeRoundMoves
    <2>11. solid => f[k].pos >= a + k \/ f[k].pos = n + 1
      <3> SUFFICES ASSUME solid PROVE f[k].pos >= a + k \/ f[k].pos = n + 1
        OBVIOUS
      <3>1. CASE x.pos = n + 1
        BY <2>6, <2>10, <3>1
      <3>2. CASE x.pos # n + 1
        <4>1. x.pos \in a .. n /\ ~(x.pos > n) /\ x.pos >= a + (k - 1)
          <5> HIDE DEF n, solid
          <5> QED
            BY <1>1, <2>8, <2>9, <3>2
        <4>2. ~AtSectionEnd(w, x.pos)
          BY <4>1 DEF AtSectionEnd, Is
        <4>3. f[k].pos \in x.pos + 1 .. n + 1
          BY <2>6, <2>10, <4>2
        <4>4. k \in Nat
          BY <2>4
        <4> HIDE DEF n, solid
        <4> QED
          BY <1>1, <4>1, <4>3, <4>4
      <3> QED
        BY <3>1, <3>2
    <2>12. Good(k)
      <3> HIDE DEF solid
      <3> QED
        BY <2>6, <2>10, <2>11
    <2> HIDE DEF Good
    <2> QED
      BY <2>2, <2>12
  <1>5. Good(n)
    <2> HIDE DEF Good
    <2> QED
      BY <1>1, <1>4
  <1>6. /\ f[n].pos \in a .. n + 1 /\ f[n].errors \in Seq(Codes) /\ IsNode(f[n].node, id)
    BY <1>5 DEF MovedNode
  <1>7. ASSUME solid
        PROVE  f[n].pos = n + 1 /\ MovedNode(f[n], g[m], d, a, n, id)
    <2>1. f[n].pos = n + 1
      <3>1. f[n].pos >= a + n \/ f[n].pos = n + 1
        <4> HIDE DEF solid
        <4> QED
          BY <1>5, <1>7
      <3> HIDE DEF n
      <3> QED
        BY <1>1, <1>6, <3>1
    <2> DEFINE Late == {k \in n .. m : g[k] # g[n]}
    <2>2. ASSUME Late # {} PROVE FALSE
      <3>1. Late \in SUBSET Nat
        BY <1>1
      <3>2. PICK k \in Late : \A j \in Late : k <= j
        BY <2>2, <3>1, LeastNumber
      <3>3. k # n
        BY <3>2
      <3>4. k - 1 \in n .. m /\ k - 1 \notin Late /\ k \in 1 .. m
        <4>1. k \in n .. m /\ k \in Nat
          BY <3>1, <3>2
        <4>2. k - 1 \in n .. m /\ ~(k <= k - 1) /\ k \in 1 .. m
          <5> HIDE DEF n, m
          <5> QED
            BY <1>1, <3>3, <4>1
        <4> HIDE DEF Late
        <4> QED
          BY <3>2, <4>2
      <3>5. g[k] = NodeRound(ls, g[n])
        <4>1. g[k] = NodeRound(ls, g[k - 1])
          BY <1>3, <3>4
        <4>2. g[k - 1] = g[n]
          BY <3>4
        <4> QED
          BY <4>1, <4>2
      <3>6. MovedNode(f[n], g[n], d, a, n, id)
        BY <1>5
      <3> DEFINE x == f[n]
                 y == g[n]
      <3>7. MovedNode(x, y, d, a, n, id) /\ x.pos = n + 1
        BY <2>1, <3>6
      <3> HIDE DEF x, y
      <3>8. /\ MovedNode(NodeRound(w, x), NodeRound(ls, y), d, a, n, id)
            /\ x.pos = n + 1 => NodeRound(w, x) = x /\ NodeRound(ls, y) = y
        BY <3>7, NodeRoundMoves
      <3> QED
        BY <3>2, <3>5, <3>7, <3>8 DEF y
    <2>3. g[m] = g[n]
      <3>1. m \in n .. m
        <4> HIDE DEF n, m
        <4> QED
          BY <1>1
      <3> QED
        BY <2>2, <3>1
    <2> HIDE DEF solid
    <2> QED
      BY <1>5, <2>1, <2>3
  <1> HIDE DEF Good
  <1> QED
    BY <1>2, <1>3, <1>6, <1>7

\* What the loop over the header's lines keeps is a record.
IsHead(s) == s = [pos |-> s.pos, header |-> s.header, errors |-> s.errors, seen |-> s.seen]

\* f is the function of HeaderLoop, for the first c rounds.
IsHeaderLoop(f, ls, start, c) ==
    f = [k \in 0 .. c |-> IF k = 0 THEN start ELSE HeaderRound(ls, f[k - 1])]

\* It exists for any number of rounds.
LEMMA HeaderLoopExists ==
    ASSUME NEW ls, NEW start, NEW c \in Nat
    PROVE  \E f : IsHeaderLoop(f, ls, start, c)
  <1> DEFINE Bad == {n \in Nat : ~\E f : IsHeaderLoop(f, ls, start, n)}
  <1>1. ASSUME Bad # {} PROVE FALSE
    <2>1. PICK n \in Bad : \A m \in Bad : n <= m
      BY <1>1, LeastNumber
    <2>2. CASE n = 0
      <3> DEFINE f == [k \in 0 .. 0 |-> start]
      <3>1. IsHeaderLoop(f, ls, start, 0)
        BY DEF IsHeaderLoop
      <3> QED
        BY <2>2, <3>1
    <2>3. CASE n # 0
      <3>1. n - 1 \in Nat /\ n \in Nat /\ n - 1 \notin Bad
        BY <2>1, <2>3
      <3>2. PICK g : IsHeaderLoop(g, ls, start, n - 1)
        BY <3>1
      <3>3. \A k \in 0 .. n - 1 : g[k] = IF k = 0 THEN start ELSE HeaderRound(ls, g[k - 1])
        BY <3>2 DEF IsHeaderLoop
      <3> DEFINE f == [k \in 0 .. n |-> IF k < n THEN g[k] ELSE HeaderRound(ls, g[n - 1])]
      <3>4. \A k \in 0 .. n : f[k] = IF k = 0 THEN start ELSE HeaderRound(ls, f[k - 1])
        <4> SUFFICES ASSUME NEW k \in 0 .. n
                     PROVE  f[k] = IF k = 0 THEN start ELSE HeaderRound(ls, f[k - 1])
          OBVIOUS
        <4>1. CASE k < n
          <5>1. k \in 0 .. n - 1 /\ f[k] = g[k] /\ (k # 0 => f[k - 1] = g[k - 1])
            BY <3>1, <4>1
          <5> QED
            BY <3>3, <5>1
        <4>2. CASE k = n
          <5>1. f[k] = HeaderRound(ls, g[n - 1]) /\ f[k - 1] = g[n - 1] /\ k # 0
            BY <2>3, <3>1, <4>2
          <5> QED
            BY <4>2, <5>1
        <4> QED
          BY <3>1, <4>1, <4>2
      <3>5. DOMAIN f = 0 .. n /\ f = [k \in 0 .. n |-> f[k]]
        OBVIOUS
      <3> HIDE DEF f
      <3>6. IsHeaderLoop(f, ls, start, n)
        BY <3>4, <3>5 DEF IsHeaderLoop
      <3> QED
        BY <2>1, <3>6
    <2> QED
      BY <2>2, <2>3
  <1> QED
    BY <1>1

\* It starts at the start and makes one round after the other.
LEMMA HeaderLoopSteps ==
    ASSUME NEW ls, Len(ls) \in Nat, NEW start
    PROVE  \E f : /\ IsHeaderLoop(f, ls, start, Len(ls))
                  /\ f[0] = start /\ \A k \in 1 .. Len(ls) : f[k] = HeaderRound(ls, f[k - 1])
                  /\ HeaderLoop(ls, start) = f[Len(ls)]
  <1> DEFINE after == CHOOSE f : f = [k \in 0 .. Len(ls) |-> IF k = 0 THEN start ELSE HeaderRound(ls, f[k - 1])]
  <1>1. PICK f : IsHeaderLoop(f, ls, start, Len(ls))
    BY HeaderLoopExists
  <1>2. IsHeaderLoop(after, ls, start, Len(ls))
    BY <1>1 DEF IsHeaderLoop
  <1>3. HeaderLoop(ls, start) = after[Len(ls)]
    BY DEF HeaderLoop
  <1> HIDE DEF after
  <1>4. \A k \in 0 .. Len(ls) : after[k] = IF k = 0 THEN start ELSE HeaderRound(ls, after[k - 1])
    BY <1>2 DEF IsHeaderLoop
  <1>5. after[0] = start /\ \A k \in 1 .. Len(ls) : after[k] = HeaderRound(ls, after[k - 1])
    BY <1>4
  <1> QED
    BY <1>2, <1>3, <1>5

\* The loop over the header's lines in w, and the same loop in the lines around it; it starts at a.
MovedHead(s, t, d, a, n) ==
    /\ t.pos = d + s.pos /\ t.header = s.header /\ t.errors = s.errors /\ t.seen = s.seen
    /\ s.pos \in a .. n + 1 /\ s.errors \in Seq(Codes) /\ IsHead(s) /\ IsHead(t)

\* One round of a header that is not over gives the same in front of its file.
LEMMA HeaderRoundMoves ==
    ASSUME NEW ls, NEW w, NEW d, Window(ls, w, d), NEW a \in 1 .. Len(w) + 1,
           NEW s, NEW t, MovedHead(s, t, d, a, Len(w))
    PROVE  /\ MovedHead(HeaderRound(w, s), HeaderRound(ls, t), d, a, Len(w))
           /\ ~AtSectionEnd(w, s.pos) => HeaderRound(w, s).pos \in s.pos + 1 .. Len(w) + 1
           /\ s.pos = Len(w) + 1 => HeaderRound(w, s) = s /\ HeaderRound(ls, t) = t
  <1> DEFINE n == Len(w)
             p == s.pos
  <1>1. /\ n \in Nat /\ Len(ls) \in Nat /\ p \in a .. n + 1 /\ p \in 1 .. n + 1 /\ t.pos = d + p
        /\ a \in Nat
    BY WindowFacts DEF MovedHead
  <1>2. CASE p > n
    <2>1. AtSectionEnd(w, p)
      BY <1>2 DEF AtSectionEnd
    <2>2. d + p > Len(ls) \/ ls[d + p].kind = "node"
      BY <1>1, <1>2, WindowEnd
    <2>3. AtSectionEnd(ls, t.pos)
      BY <1>1, <2>2 DEF AtSectionEnd, Is
    <2>4. HeaderRound(w, s) = s /\ HeaderRound(ls, t) = t
      BY <2>1, <2>3 DEF HeaderRound
    <2> QED
      BY <2>1, <2>4
  <1>3. CASE ~(p > n)
    <2>1. p \in 1 .. n /\ p # n + 1
      BY <1>1, <1>3
    <2>2. w[p] = ls[d + p] /\ ~(d + p > Len(ls))
      BY <2>1, WindowFacts
    <2>3. AtSectionEnd(w, s.pos) <=> w[p].kind = "node"
      BY <1>3 DEF AtSectionEnd, Is
    <2>4. AtSectionEnd(ls, t.pos) <=> w[p].kind = "node"
      BY <1>1, <2>2 DEF AtSectionEnd, Is
    <2>5. CASE w[p].kind = "node"
      <3>1. HeaderRound(w, s) = s /\ HeaderRound(ls, t) = t
        BY <2>3, <2>4, <2>5 DEF HeaderRound
      <3> QED
        BY <2>1, <2>3, <2>5, <3>1
    <2>6. CASE w[p].kind # "node"
      <3> DEFINE x == HeaderStep(s.header, w, p, s.seen)
                 y == HeaderStep(s.header, ls, d + p, s.seen)
                 seen == IF Is(w[p], {"body"}) THEN s.seen ELSE Met(s.seen, w[p])
                 u == HeaderRound(w, s)
                 v == HeaderRound(ls, t)
      <3>1. MovedHeader(x, y, d, p + 1, n)
        BY <2>1, <2>6, HeaderStepMoves
      <3>2. /\ u = AfterHeaderStep(s, x, seen)
            /\ v = AfterHeaderStep(t, y, seen)
        BY <1>1, <2>2, <2>3, <2>4, <2>6 DEF HeaderRound, MovedHead
      <3> HIDE DEF x, y, u, v, n, seen
      <3>3. /\ u.pos = x.pos /\ u.header = x.header /\ u.errors = Join(s.errors, x.errors) /\ u.seen = seen
            /\ v.pos = y.pos /\ v.header = y.header /\ v.errors = Join(t.errors, y.errors) /\ v.seen = seen
        BY <3>2, Zenon DEF AfterHeaderStep, Join
      <3>4. /\ y.pos = d + x.pos /\ y.header = x.header /\ y.errors = x.errors /\ x.pos \in p + 1 .. n + 1
            /\ x.errors \in Seq(Codes) /\ t.errors = s.errors /\ s.errors \in Seq(Codes)
        BY <3>1 DEF MovedHeader, MovedHead
      <3>5. Join(s.errors, x.errors) \in Seq(Codes)
        BY <3>4, JoinFacts
      <3>6. x.pos \in a .. n + 1
        BY <1>1, <3>4
      <3>9. IsHead(u) /\ IsHead(v)
        BY <3>2 DEF AfterHeaderStep, IsHead
      <3>7. MovedHead(u, v, d, a, n)
        BY <3>1, <3>3, <3>4, <3>5, <3>6, <3>9 DEF MovedHead
      <3>8. u.pos \in p + 1 .. n + 1
        BY <3>3, <3>4
      <3> QED
        BY <2>1, <3>7, <3>8 DEF u, v, n
    <2> QED
      BY <2>5, <2>6
  <1> QED
    BY <1>2, <1>3

\* The whole loop: in the longer file it makes more rounds, which change nothing.
LEMMA HeaderLoopMoves ==
    ASSUME NEW ls, NEW w, NEW d, Window(ls, w, d), NEW a \in 1 .. Len(w) + 1,
           NEW s, NEW t, MovedHead(s, t, d, a, Len(w))
    PROVE  /\ HeaderLoop(w, s).pos \in a .. Len(w) + 1
           /\ HeaderLoop(w, s).errors \in Seq(Codes)
           /\ (\A q \in a .. Len(w) : w[q].kind # "node") =>
                /\ HeaderLoop(w, s).pos = Len(w) + 1
                /\ MovedHead(HeaderLoop(w, s), HeaderLoop(ls, t), d, a, Len(w))
  <1> DEFINE n == Len(w)
             m == Len(ls)
             solid == \A q \in a .. n : w[q].kind # "node"
  <1>1. n \in Nat /\ m \in Nat /\ d \in Nat /\ d + n <= m /\ a \in Nat /\ a >= 1 /\ 0 \in 0 .. n /\ n \in 0 .. n
    BY WindowFacts
  <1>2. PICK f : f[0] = s /\ (\A k \in 1 .. n : f[k] = HeaderRound(w, f[k - 1])) /\ HeaderLoop(w, s) = f[n]
    BY <1>1, HeaderLoopSteps
  <1>3. PICK g : g[0] = t /\ (\A k \in 1 .. m : g[k] = HeaderRound(ls, g[k - 1])) /\ HeaderLoop(ls, t) = g[m]
    BY <1>1, HeaderLoopSteps
  <1> DEFINE Good(k) == /\ MovedHead(f[k], g[k], d, a, n)
                        /\ solid => f[k].pos >= a + k \/ f[k].pos = n + 1
             Bad == {k \in 0 .. n : ~Good(k)}
  <1>4. ASSUME Bad # {} PROVE FALSE
    <2>1. Bad \in SUBSET Nat
      OBVIOUS
    <2>2. PICK k \in Bad : \A j \in Bad : k <= j
      BY <1>4, <2>1, LeastNumber
    <2>3. k # 0
      <3>1. MovedHead(f[0], g[0], d, a, n)
        BY <1>2, <1>3
      <3>2. f[0].pos \in a .. n + 1 /\ a + 0 = a
        BY <1>1, <3>1 DEF MovedHead
      <3>3. f[0].pos >= a + 0
        <4> HIDE DEF n
        <4> QED
          BY <1>1, <3>2
      <3> HIDE DEF n, solid
      <3> QED
        BY <2>2, <3>1, <3>3
    <2>4. k \in 1 .. n /\ k - 1 \in 0 .. n /\ k - 1 \notin Bad /\ k \in 1 .. m
      <3> HIDE DEF Good
      <3> QED
        BY <1>1, <2>2, <2>3
    <2> DEFINE x == f[k - 1]
               y == g[k - 1]
    <2>5. Good(k - 1)
      BY <2>4
    <2>6. f[k] = HeaderRound(w, x) /\ g[k] = HeaderRound(ls, y)
      BY <1>2, <1>3, <2>4
    <2>7. MovedHead(x, y, d, a, n)
      BY <2>5
    <2>8. solid => x.pos >= a + (k - 1) \/ x.pos = n + 1
      BY <2>5
    <2>9. x.pos \in a .. n + 1
      BY <2>7 DEF MovedHead
    <2> HIDE DEF x, y
    <2>10. /\ MovedHead(HeaderRound(w, x), HeaderRound(ls, y), d, a, n)
           /\ ~AtSectionEnd(w, x.pos) => HeaderRound(w, x).pos \in x.pos + 1 .. n + 1
           /\ x.pos = n + 1 => HeaderRound(w, x) = x
      BY <2>7, HeaderRoundMoves
    <2>11. solid => f[k].pos >= a + k \/ f[k].pos = n + 1
      <3> SUFFICES ASSUME solid PROVE f[k].pos >= a + k \/ f[k].pos = n + 1
        OBVIOUS
      <3>1. CASE x.pos = n + 1
        BY <2>6, <2>10, <3>1
      <3>2. CASE x.pos # n + 1
        <4>1. x.pos \in a .. n /\ ~(x.pos > n) /\ x.pos >= a + (k - 1)
          <5> HIDE DEF n, solid
          <5> QED
            BY <1>1, <2>8, <2>9, <3>2
        <4>2. ~AtSectionEnd(w, x.pos)
          BY <4>1 DEF AtSectionEnd, Is
        <4>3. f[k].pos \in x.pos + 1 .. n + 1
          BY <2>6, <2>10, <4>2
        <4>4. k \in Nat
          BY <2>4
        <4> HIDE DEF n, solid
        <4> QED
          BY <1>1, <4>1, <4>3, <4>4
      <3> QED
        BY <3>1, <3>2
    <2>12. Good(k)
      <3> HIDE DEF solid
      <3> QED
        BY <2>6, <2>10, <2>11
    <2> HIDE DEF Good
    <2> QED
      BY <2>2, <2>12
  <1>5. Good(n)
    <2> HIDE DEF Good
    <2> QED
      BY <1>1, <1>4
  <1>6. /\ f[n].pos \in a .. n + 1 /\ f[n].errors \in Seq(Codes)
    BY <1>5 DEF MovedHead
  <1>7. ASSUME solid
        PROVE  f[n].pos = n + 1 /\ MovedHead(f[n], g[m], d, a, n)
    <2>1. f[n].pos = n + 1
      <3>1. f[n].pos >= a + n \/ f[n].pos = n + 1
        <4> HIDE DEF solid
        <4> QED
          BY <1>5, <1>7
      <3> HIDE DEF n
      <3> QED
        BY <1>1, <1>6, <3>1
    <2> DEFINE Late == {k \in n .. m : g[k] # g[n]}
    <2>2. ASSUME Late # {} PROVE FALSE
      <3>1. Late \in SUBSET Nat
        BY <1>1
      <3>2. PICK k \in Late : \A j \in Late : k <= j
        BY <2>2, <3>1, LeastNumber
      <3>3. k # n
        BY <3>2
      <3>4. k - 1 \in n .. m /\ k - 1 \notin Late /\ k \in 1 .. m
        <4>1. k \in n .. m /\ k \in Nat
          BY <3>1, <3>2
        <4>2. k - 1 \in n .. m /\ ~(k <= k - 1) /\ k \in 1 .. m
          <5> HIDE DEF n, m
          <5> QED
            BY <1>1, <3>3, <4>1
        <4> HIDE DEF Late
        <4> QED
          BY <3>2, <4>2
      <3>5. g[k] = HeaderRound(ls, g[n])
        <4>1. g[k] = HeaderRound(ls, g[k - 1])
          BY <1>3, <3>4
        <4>2. g[k - 1] = g[n]
          BY <3>4
        <4> QED
          BY <4>1, <4>2
      <3>6. MovedHead(f[n], g[n], d, a, n)
        BY <1>5
      <3> DEFINE x == f[n]
                 y == g[n]
      <3>7. MovedHead(x, y, d, a, n) /\ x.pos = n + 1
        BY <2>1, <3>6
      <3> HIDE DEF x, y
      <3>8. /\ MovedHead(HeaderRound(w, x), HeaderRound(ls, y), d, a, n)
            /\ x.pos = n + 1 => HeaderRound(w, x) = x /\ HeaderRound(ls, y) = y
        BY <3>7, HeaderRoundMoves
      <3> QED
        BY <3>2, <3>5, <3>7, <3>8 DEF y
    <2>3. g[m] = g[n]
      <3>1. m \in n .. m
        <4> HIDE DEF n, m
        <4> QED
          BY <1>1
      <3> QED
        BY <2>2, <3>1
    <2> HIDE DEF solid
    <2> QED
      BY <1>5, <2>1, <2>3
  <1> HIDE DEF Good
  <1> QED
    BY <1>2, <1>3, <1>6, <1>7

-------------------------------------------------------------------------------
(***************************************************************************)
(* What is parsed alone is what is parsed in its place                     *)
(***************************************************************************)

\* The joining of lists of anything is associative.
LEMMA SeqsAssociate ==
    ASSUME NEW s, IsSeq(s), NEW t, IsSeq(t), NEW u, IsSeq(u)
    PROVE  Join(Join(s, t), u) = Join(s, Join(t, u)) /\ Join(s, <<>>) = s /\ Join(<<>>, s) = s
  <1>1. PICK A, B, C : s \in Seq(A) /\ t \in Seq(B) /\ u \in Seq(C)
    BY DEF IsSeq
  <1> DEFINE V == A \cup B \cup C
  <1>2. A \subseteq V /\ B \subseteq V /\ C \subseteq V
    OBVIOUS
  <1> HIDE DEF V
  <1>3. s \in Seq(V) /\ t \in Seq(V) /\ u \in Seq(V)
    BY <1>1, <1>2, SeqMonotonic
  <1> QED
    BY <1>3, JoinFacts

\* A node parsed alone is the node parsed in its place in the file.
THEOREM ParseNodeMoves ==
    ASSUME NEW ls, NEW w, NEW d, Window(ls, w, d), w # <<>>,
           \A q \in 2 .. Len(w) : w[q].kind # "node"
    PROVE  /\ ParseNode(ls, d + 1).pos = d + Len(w) + 1
           /\ ParseNode(ls, d + 1).node = ParseNode(w, 1).node
           /\ ParseNode(ls, d + 1).errors = ParseNode(w, 1).errors
           /\ IsNode(ParseNode(w, 1).node, w[1].val)
           /\ ParseNode(w, 1).errors \in Seq(Codes)
  <1> DEFINE n == Len(w)
             id == w[1].val
             errors == IF Len(id) = 1 /\ id[1] \in NodeIds THEN <<>> ELSE <<"P002">>
             s == [pos |-> 1 + 1, node |-> DefaultNode(id), errors |-> errors, seen |-> {}]
             t == [pos |-> (d + 1) + 1, node |-> DefaultNode(id), errors |-> errors, seen |-> {}]
  <1>1. n \in Nat /\ d \in Nat /\ n # 0 /\ 1 \in 1 .. n
    <2>1. w \in Seq(Lines) /\ d \in Nat
      BY DEF Window
    <2>2. n \in Nat /\ n # 0
      BY <2>1, LenProperties, EmptySeq
    <2> HIDE DEF n
    <2> QED
      BY <2>1, <2>2
  <1>2. StartOfNode(w, 1) = s /\ StartOfNode(ls, d + 1) = t
    <2>1. w[1] = ls[d + 1]
      BY <1>1, WindowFacts
    <2> QED
      BY <2>1 DEF StartOfNode
  <1>3. MovedNode(s, t, d, 2, n, id)
    <2>1. errors \in Seq(Codes)
      BY CodesOf
    <2>2. IsNode(DefaultNode(id), id)
      BY DEF IsNode, DefaultNode
    <2>3. t.pos = d + 2 /\ s.pos = 2 /\ 2 \in 2 .. n + 1
      BY <1>1
    <2> HIDE DEF errors, id, n
    <2> QED
      BY <2>1, <2>2, <2>3 DEF MovedNode
  <1>4. 2 \in 1 .. n + 1
    BY <1>1
  <1> HIDE DEF s, t, id
  <1> DEFINE x == NodeLoop(w, s)
             y == NodeLoop(ls, t)
  <1>5. x.errors \in Seq(Codes) /\ IsNode(x.node, id) /\ x.pos = n + 1 /\ MovedNode(x, y, d, 2, n, id)
    BY <1>3, <1>4, NodeLoopMoves
  <1>6. x = ParseNode(w, 1) /\ y = ParseNode(ls, d + 1)
    BY <1>2 DEF ParseNode
  <1> HIDE DEF x, y
  <1>7. y.pos = d + x.pos /\ y.node = x.node /\ y.errors = x.errors
    BY <1>5 DEF MovedNode
  <1>8. y.pos = d + n + 1
    BY <1>1, <1>5, <1>7
  <1> QED
    BY <1>5, <1>6, <1>7, <1>8 DEF id, n

\* A node ends after its declaration and within the file.
LEMMA ParseNodeEnds ==
    ASSUME NEW ls \in Seq(Lines), NEW q \in 1 .. Len(ls)
    PROVE  /\ ParseNode(ls, q).pos \in q + 1 .. Len(ls) + 1
           /\ ParseNode(ls, q).errors \in Seq(Codes)
  <1> DEFINE id == ls[q].val
             errors == IF Len(id) = 1 /\ id[1] \in NodeIds THEN <<>> ELSE <<"P002">>
             s == [pos |-> q + 1, node |-> DefaultNode(id), errors |-> errors, seen |-> {}]
  <1>1. Window(ls, ls, 0) /\ Len(ls) \in Nat /\ q + 1 \in 1 .. Len(ls) + 1 /\ q + 1 \in q + 1 .. Len(ls) + 1
        /\ 0 + (q + 1) = q + 1
    BY WholeIsWindow, SeqFacts
  <1>2. StartOfNode(ls, q) = s
    BY DEF StartOfNode
  <1>3. MovedNode(s, s, 0, q + 1, Len(ls), id)
    <2>1. errors \in Seq(Codes)
      BY CodesOf
    <2>2. IsNode(DefaultNode(id), id)
      BY DEF IsNode, DefaultNode
    <2>3. s.pos = q + 1
      OBVIOUS
    <2> HIDE DEF errors, id
    <2> QED
      BY <1>1, <2>1, <2>2, <2>3 DEF MovedNode
  <1> HIDE DEF s, id
  <1>4. NodeLoop(ls, s).pos \in q + 1 .. Len(ls) + 1 /\ NodeLoop(ls, s).errors \in Seq(Codes)
    <2> DEFINE a == q + 1
    <2>1. a \in 1 .. Len(ls) + 1 /\ MovedNode(s, s, 0, a, Len(ls), id)
      BY <1>1, <1>3
    <2> HIDE DEF a
    <2>2. NodeLoop(ls, s).pos \in a .. Len(ls) + 1 /\ NodeLoop(ls, s).errors \in Seq(Codes)
      BY <1>1, <2>1, NodeLoopMoves
    <2> QED
      BY <2>2 DEF a
  <1> QED
    BY <1>2, <1>4 DEF ParseNode

\* A header parsed alone is the header parsed in front of its file.
THEOREM ParseHeaderMoves ==
    ASSUME NEW ls, NEW w, Window(ls, w, 0), \A q \in 1 .. Len(w) : w[q].kind # "node"
    PROVE  /\ ParseHeader(ls, 1).pos = Len(w) + 1
           /\ ParseHeader(ls, 1).header = ParseHeader(w, 1).header
           /\ ParseHeader(ls, 1).errors = ParseHeader(w, 1).errors
           /\ ParseHeader(w, 1).errors \in Seq(Codes)
  <1> DEFINE n == Len(w)
             s == [pos |-> 1, header |-> <<>>, errors |-> <<>>, seen |-> {}]
             x == HeaderLoop(w, s)
             y == HeaderLoop(ls, s)
  <1>1. n \in Nat /\ 1 \in 1 .. n + 1
    BY WindowFacts
  <1>2. MovedHead(s, s, 0, 1, n)
    <2>1. s.pos = 0 + s.pos /\ s.pos \in 1 .. n + 1 /\ s.errors = <<>> /\ IsHead(s)
      BY <1>1 DEF IsHead
    <2> HIDE DEF s, n
    <2> QED
      BY <2>1, CodesOf DEF MovedHead
  <1> HIDE DEF s
  <1>3. x.pos = n + 1 /\ MovedHead(x, y, 0, 1, n)
    BY <1>1, <1>2, HeaderLoopMoves
  <1>4. ParseHeader(w, 1) = WholeHeader(x) /\ ParseHeader(ls, 1) = WholeHeader(y)
    BY DEF ParseHeader, StartOfHeader, s
  <1> HIDE DEF x, y, n
  <1>5. /\ IsHead(x) /\ IsHead(y) /\ y.header = x.header /\ y.errors = x.errors /\ y.pos = n + 1
        /\ x.errors \in Seq(Codes)
    BY <1>1, <1>3 DEF MovedHead
  <1> DEFINE missing == FormattedHeaderFields \ DOMAIN x.header
             more == Repeated("P001", Cardinality(missing))
             filled == x.header @@ [k \in missing |-> [text |-> NoText]]
  <1>6. /\ WholeHeader(x) = [x EXCEPT !.errors = Join(x.errors, more), !.header = filled]
        /\ WholeHeader(y) = [y EXCEPT !.errors = Join(y.errors, more), !.header = filled]
    <2>1. WholeHeader(x) = CheckedHeader(x, missing) /\ WholeHeader(y) = CheckedHeader(y, missing)
      BY <1>5 DEF WholeHeader
    <2> HIDE DEF missing
    <2>2. /\ CheckedHeader(x, missing) = [x EXCEPT !.errors = x.errors \o more, !.header = filled]
          /\ CheckedHeader(y, missing) = [y EXCEPT !.errors = y.errors \o more, !.header = filled]
      BY <1>5 DEF CheckedHeader
    <2> QED
      BY <2>1, <2>2, Zenon DEF Join
  <1>7. more \in Seq(Codes)
    <2>1. IsFiniteSet(FormattedHeaderFields)
      <3>1. FormattedHeaderFields = {"agm", "package", "version"}
        BY DEF FormattedHeaderFields
      <3>2. /\ IsFiniteSet({}) /\ IsFiniteSet({} \cup {"agm"})
            /\ IsFiniteSet(({} \cup {"agm"}) \cup {"package"})
            /\ IsFiniteSet((({} \cup {"agm"}) \cup {"package"}) \cup {"version"})
        BY FS_EmptySet, FS_AddElement
      <3>3. {"agm", "package", "version"} = (({} \cup {"agm"}) \cup {"package"}) \cup {"version"}
        OBVIOUS
      <3> QED
        BY <3>1, <3>2, <3>3
    <2>2. IsFiniteSet(missing)
      BY <2>1, FS_Subset
    <2> HIDE DEF missing
    <2> QED
      BY <2>2, RepeatedCodes
  <1> HIDE DEF more, filled
  <1>8. Join(x.errors, more) \in Seq(Codes)
    BY <1>5, <1>7, JoinFacts
  <1> DEFINE all == Join(x.errors, more)
  <1> HIDE DEF all
  <1>9. /\ WholeHeader(x) = [pos |-> x.pos, header |-> filled, errors |-> all, seen |-> x.seen]
        /\ WholeHeader(y) = [pos |-> y.pos, header |-> filled, errors |-> all, seen |-> y.seen]
    <2>1. /\ WholeHeader(x) = [x EXCEPT !.errors = all, !.header = filled]
          /\ WholeHeader(y) = [y EXCEPT !.errors = all, !.header = filled]
      BY <1>5, <1>6 DEF all
    <2> QED
      BY <1>5, <2>1 DEF IsHead
  <1>10. all \in Seq(Codes)
    BY <1>8 DEF all
  <1> QED
    BY <1>4, <1>5, <1>9, <1>10 DEF n

\* The nodes from a line on are the node there and the nodes after it.
LEMMA NodesUnfold ==
    ASSUME NEW ls \in Seq(Lines)
    PROVE  /\ \A p \in 1 .. Len(ls) :
                /\ NodesFrom(ls, p).found = Join(<<ParseNode(ls, p).node>>, NodesFrom(ls, ParseNode(ls, p).pos).found)
                /\ NodesFrom(ls, p).errors = Join(ParseNode(ls, p).errors, NodesFrom(ls, ParseNode(ls, p).pos).errors)
           /\ NodesFrom(ls, Len(ls) + 1) = Stop(Len(ls) + 1)
           /\ \A p \in 1 .. Len(ls) + 1 : IsSeq(NodesFrom(ls, p).found) /\ NodesFrom(ls, p).errors \in Seq(Codes)
  <1> DEFINE m == Len(ls)
             round == [q \in Positions(ls) |-> FileRound(ls, q)]
  <1>1. m \in Nat /\ DOMAIN round = 1 .. m + 1
    BY SeqFacts DEF Positions
  <1>2. \A q \in 1 .. m : /\ round[q] = OneNode(ParseNode(ls, q)) /\ round[q].more = TRUE
                          /\ round[q].pos = ParseNode(ls, q).pos /\ round[q].pos \in q + 1 .. m + 1
                          /\ round[q].found = <<ParseNode(ls, q).node>>
                          /\ round[q].errors = ParseNode(ls, q).errors
                          /\ ParseNode(ls, q).errors \in Seq(Codes)
    <2> SUFFICES ASSUME NEW q \in 1 .. m
                 PROVE  /\ round[q] = OneNode(ParseNode(ls, q)) /\ round[q].more = TRUE
                        /\ round[q].pos = ParseNode(ls, q).pos /\ round[q].pos \in q + 1 .. m + 1
                        /\ round[q].found = <<ParseNode(ls, q).node>>
                        /\ round[q].errors = ParseNode(ls, q).errors
                        /\ ParseNode(ls, q).errors \in Seq(Codes)
      OBVIOUS
    <2> DEFINE one == ParseNode(ls, q)
    <2>1. q \in 1 .. m + 1 /\ ~(q > m)
      BY <1>1
    <2>2. round[q] = OneNode(one)
      BY <2>1 DEF FileRound, Positions
    <2>3. one.pos \in q + 1 .. m + 1 /\ one.errors \in Seq(Codes)
      BY ParseNodeEnds
    <2> HIDE DEF one, round, m
    <2>4. /\ OneNode(one).more = TRUE /\ OneNode(one).pos = one.pos
          /\ OneNode(one).found = <<one.node>> /\ OneNode(one).errors = one.errors
      BY DEF OneNode, GoOn
    <2> QED
      BY <2>2, <2>3, <2>4 DEF one, m
  <1>3. round[m + 1] = Stop(m + 1)
    BY <1>1 DEF FileRound, Positions
  <1>4. \A p \in 1 .. m + 1 : NodesFrom(ls, p) = Rounds(round, p)
    BY DEF NodesFrom
  <1> HIDE DEF round
  <1>5. \A q \in 1 .. m + 1 : round[q].more => round[q].pos \in q + 1 .. m + 1
    <2> SUFFICES ASSUME NEW q \in 1 .. m + 1, round[q].more PROVE round[q].pos \in q + 1 .. m + 1
      OBVIOUS
    <2>1. CASE q = m + 1
      BY <1>3, <2>1 DEF Stop
    <2>2. CASE q # m + 1
      BY <1>1, <1>2, <2>2
    <2> QED
      BY <2>1, <2>2
  <1>6. \A q \in 1 .. m + 1 :
            Rounds(round, q) = IF round[q].more THEN BeforeRounds(round[q], Rounds(round, round[q].pos)) ELSE round[q]
    <2> DEFINE c == m + 1
    <2>1. c \in Nat /\ DOMAIN round = 1 .. c /\ \A q \in 1 .. c : round[q].more => round[q].pos \in q + 1 .. c
      BY <1>1, <1>5
    <2> HIDE DEF c
    <2>2. \A q \in 1 .. c :
            Rounds(round, q) = IF round[q].more THEN BeforeRounds(round[q], Rounds(round, round[q].pos)) ELSE round[q]
      BY <2>1, RoundsUnfold
    <2> QED
      BY <2>2 DEF c
  <1>7. ASSUME NEW p \in 1 .. m
        PROVE  /\ NodesFrom(ls, p).found = Join(<<ParseNode(ls, p).node>>, NodesFrom(ls, ParseNode(ls, p).pos).found)
               /\ NodesFrom(ls, p).errors = Join(ParseNode(ls, p).errors, NodesFrom(ls, ParseNode(ls, p).pos).errors)
    <2> DEFINE one == ParseNode(ls, p)
               rest == NodesFrom(ls, one.pos)
               here == round[p]
    <2>1. p \in 1 .. m + 1 /\ one.pos \in 1 .. m + 1
      <3>1. one.pos \in p + 1 .. m + 1 /\ p \in Nat /\ p >= 1
        BY ParseNodeEnds
      <3> HIDE DEF one, m
      <3> QED
        BY <1>1, <3>1
    <2>2. NodesFrom(ls, p) = BeforeRounds(here, rest)
      BY <1>2, <1>4, <1>6, <2>1
    <2>3. here.found = <<one.node>> /\ here.errors = one.errors
      BY <1>2
    <2> HIDE DEF one, rest, here
    <2>4. /\ BeforeRounds(here, rest).found = Join(here.found, rest.found)
          /\ BeforeRounds(here, rest).errors = Join(here.errors, rest.errors)
      BY Zenon DEF BeforeRounds, Join
    <2>5. /\ NodesFrom(ls, p).found = Join(<<one.node>>, rest.found)
          /\ NodesFrom(ls, p).errors = Join(one.errors, rest.errors)
      BY <2>2, <2>3, <2>4
    <2> QED
      BY <2>5 DEF one, rest
  <1>8. NodesFrom(ls, m + 1) = Stop(m + 1)
    <2>1. m + 1 \in 1 .. m + 1
      BY <1>1
    <2> QED
      BY <1>3, <1>4, <1>6, <2>1 DEF Stop
  <1>9. ASSUME NEW p \in 1 .. m + 1
        PROVE  IsSeq(NodesFrom(ls, p).found) /\ NodesFrom(ls, p).errors \in Seq(Codes)
    <2>1. \A q \in 1 .. m + 1 : MovedRound(round[q], round[0 + q], 0, q, m)
      <3> SUFFICES ASSUME NEW q \in 1 .. m + 1 PROVE MovedRound(round[q], round[0 + q], 0, q, m)
        OBVIOUS
      <3>1. 0 + q = q
        OBVIOUS
      <3>2. CASE q = m + 1
        <4>1. m + 1 \in m + 1 .. m + 1 /\ 0 + (m + 1) = m + 1
          BY <1>1
        <4>2. MovedRound(Stop(m + 1), Stop(0 + (m + 1)), 0, m + 1, m)
          BY <4>1, StopsMove
        <4> QED
          BY <1>3, <3>1, <3>2, <4>1, <4>2
      <3>3. CASE q # m + 1
        <4>1. q \in 1 .. m
          BY <1>1, <3>3
        <4> DEFINE x == round[q]
                   one == ParseNode(ls, q)
        <4>2. /\ x.more = TRUE /\ x.pos \in q + 1 .. m + 1 /\ x.found = <<one.node>> /\ x.errors \in Seq(Codes)
          BY <1>2, <4>1
        <4> HIDE DEF x, one
        <4>3. IsSeq(x.found)
          BY <4>2, OneThing
        <4>4. x.pos \in q .. m + 1 /\ x.pos = 0 + x.pos
          BY <1>1, <4>1, <4>2
        <4>5. MovedRound(x, x, 0, q, m)
          BY <4>2, <4>3, <4>4 DEF MovedRound
        <4> QED
          BY <3>1, <4>5 DEF x
      <3> QED
        BY <3>2, <3>3
    <2>2. 0 \in Nat /\ 0 + m <= m /\ p = 0 + p
      BY <1>1
    <2>3. MovedLoop(Rounds(round, p), Rounds(round, 0 + p), 0, p, m)
      <3> HIDE DEF m
      <3> QED
        BY <1>1, <1>5, <2>1, <2>2, RoundsMove
    <2> QED
      BY <1>4, <2>3 DEF MovedLoop
  <1> QED
    BY <1>7, <1>8, <1>9

-------------------------------------------------------------------------------
(***************************************************************************)
(* The lexer                                                               *)
(***************************************************************************)

AnyLines == [kind : Kinds \cup LexErrors, indent : Nat, raw : RawLines, key : Keys, val : Seq(STRING),
             items : Seq(Seq(STRING))]

\* A line of a kind the lexer accepts is a line of the parser.
LEMMA AcceptedLine == \A l \in AnyLines : l.kind \notin LexErrors => l \in Lines
  BY DEF AnyLines, Lines

\* Find gives a position of the list, or 0.
LEMMA FoundAt ==
    ASSUME NEW s \in Seq(STRING), NEW tok
    PROVE  Find(s, tok) \in 0 .. Len(s)
  <1> DEFINE S == {i \in DOMAIN s : s[i] = tok}
  <1>1. DOMAIN s = 1 .. Len(s) /\ Len(s) \in Nat
    BY SeqFacts
  <1>2. CASE S # {}
    <2>0. S \in SUBSET Nat
      BY <1>1
    <2>1. Min(S) \in S
      BY <1>2, <2>0, LeastOf
    <2>2. Find(s, tok) = Min(S)
      BY <1>2 DEF Find
    <2> QED
      BY <1>1, <2>1, <2>2
  <1>3. CASE S = {}
    <2>1. Find(s, tok) = 0
      BY <1>3 DEF Find
    <2> QED
      BY <1>1, <2>1
  <1> QED
    BY <1>2, <1>3

\* A part of a list is a list of the same things.
LEMMA PartOf ==
    ASSUME NEW T, NEW s \in Seq(T), NEW a \in 1 .. Len(s) + 1, NEW b \in 0 .. Len(s)
    PROVE  SubSeq(s, a, b) \in Seq(T)
  <1>1. a \in Int /\ b \in Int /\ \A i \in a .. b : s[i] \in T
    BY SeqFacts
  <1> QED
    BY <1>1, SubSeqProperties

\* parse_inline_list gives a list of texts.
LEMMA InlineItems ==
    ASSUME NEW val \in Seq(STRING), Len(val) >= 2
    PROVE  ParseInlineList(val) \in Seq(Seq(STRING))
  <1> DEFINE n == Len(val)
             found == [k \in DOMAIN val |->
                         IF k \in Commas(val) \cup {1} /\ ItemAfter(val, k) # <<>> THEN <<ItemAfter(val, k)>> ELSE <<>>]
  <1>1. n \in Nat /\ n >= 2 /\ DOMAIN val = 1 .. n
    BY SeqFacts
  <1>2. \A k \in 1 .. n : found[k] \in Seq(Seq(STRING))
    <2> SUFFICES ASSUME NEW k \in 1 .. n PROVE found[k] \in Seq(Seq(STRING))
      OBVIOUS
    <2> DEFINE item == ItemAfter(val, k)
    <2>1. found[k] = IF k \in Commas(val) \cup {1} /\ item # <<>> THEN <<item>> ELSE <<>>
      BY <1>1
    <2>2. k \in Commas(val) \cup {1} => item \in Seq(STRING)
      <3> SUFFICES ASSUME k \in Commas(val) \cup {1} PROVE item \in Seq(STRING)
        OBVIOUS
      <3> DEFINE S == {x \in Commas(val) \cup {Len(val)} : x > k}
                 e == Min(S)
      <3>1. Commas(val) \in SUBSET (2 .. n - 1)
        BY DEF Commas
      <3>2. k \in 1 .. n - 1
        BY <1>1, <3>1
      <3>3. S \in SUBSET (k + 1 .. n) /\ n \in S
        BY <1>1, <3>1, <3>2
      <3>4. S \in SUBSET Nat /\ S # {}
        BY <1>1, <3>3
      <3>5. e \in S
        BY <3>4, LeastOf
      <3>6. item = SubSeq(val, k + 1, e - 1)
        BY DEF ItemAfter, Between
      <3> HIDE DEF S, e, item
      <3>7. e \in k + 1 .. n
        BY <3>3, <3>5
      <3>8. k + 1 \in 1 .. n + 1 /\ e - 1 \in 0 .. n
        BY <1>1, <3>2, <3>7
      <3> QED
        BY <3>6, <3>8, PartOf
    <2> DEFINE V == Seq(STRING)
    <2>3. k \in Commas(val) \cup {1} => item \in V
      BY <2>2
    <2> HIDE DEF V, item, found
    <2>4. found[k] \in Seq(V)
      BY <2>1, <2>3, EmptySeq
    <2> QED
      BY <2>4 DEF V
  <1>3. DOMAIN found = 1 .. n
    BY <1>1
  <1>4. found \in Seq(Seq(Seq(STRING)))
    <2>1. found \in [1 .. n -> Seq(Seq(STRING))]
      <3>1. found = [k \in 1 .. n |-> found[k]]
        BY <1>3
      <3> HIDE DEF found
      <3> QED
        BY <1>2, <3>1
    <2> HIDE DEF found
    <2> QED
      BY <1>1, <2>1, SeqDef
  <1> HIDE DEF found
  <1>5. FlattenSeq(found) \in Seq(Seq(STRING))
    BY <1>4, FlattenType
  <1> QED
    BY <1>5 DEF ParseInlineList, found

\* A line without its trailing space.
LEMMA VisibleType == \A parts \in Seq(STRING) : Visible(parts) \in Seq(STRING)
  <1> SUFFICES ASSUME NEW parts \in Seq(STRING) PROVE Visible(parts) \in Seq(STRING)
    OBVIOUS
  <1>1. CASE parts = <<>>
    BY <1>1 DEF Visible
  <1>2. CASE parts # <<>>
    <2>1. Len(parts) \in Nat /\ Len(parts) # 0
      BY <1>2, LenProperties, EmptySeq
    <2>2. 1 \in 1 .. Len(parts) + 1 /\ Len(parts) - 1 \in 0 .. Len(parts)
      BY <2>1
    <2>3. SubSeq(parts, 1, Len(parts) - 1) \in Seq(STRING)
      BY <2>2, PartOf
    <2> QED
      BY <2>3 DEF Visible, Front
  <1> QED
    BY <1>1, <1>2

\* Line makes classified lines.
LEMMA LineType ==
    ASSUME NEW raw \in RawLines, NEW kind \in Kinds \cup LexErrors, NEW key \in Keys,
           NEW val \in Seq(STRING), NEW items \in Seq(Seq(STRING))
    PROVE  Line(kind, raw, key, val, items) \in AnyLines
  BY DEF Line, AnyLines, RawLines

\* classify_line gives one of the kinds, or an error code, to a line with a key or without.
LEMMA ClassifiedType ==
    ASSUME NEW raw \in RawLines, NEW p \in Seq(STRING), NEW hasKey \in BOOLEAN, NEW val \in Seq(STRING)
    PROVE  Classified(raw, p, hasKey, val) \in AnyLines
  <1> DEFINE L(kind, key, value, items) == Line(kind, raw, key, value, items)
             none == <<>>
  <1>1. none \in Seq(STRING) /\ none \in Seq(Seq(STRING))
    BY EmptySeq
  <1>2. ASSUME p # <<>> PROVE p[1] \in STRING /\ Tail(p) \in Seq(STRING)
    BY <1>2, HeadTailProperties
  <1>3. ASSUME val # <<>> PROVE Tail(val) \in Seq(STRING)
    BY <1>3, HeadTailProperties
  <1>4. ASSUME val # <<>>, val[1] = "[", ~(Last(val) # "]") PROVE ParseInlineList(val) \in Seq(Seq(STRING))
    <2>1. Len(val) \in Nat /\ Len(val) # 0 /\ Last(val) = val[Len(val)]
      BY <1>4, LenProperties, EmptySeq DEF Last
    <2>2. Len(val) # 1
      BY <1>4, <2>1
    <2> DEFINE n == Len(val)
    <2>3. n \in Nat /\ n # 0 /\ n # 1
      BY <2>1, <2>2
    <2> HIDE DEF n
    <2>4. n >= 2
      BY <2>3
    <2>5. Len(val) >= 2
      BY <2>4 DEF n
    <2> QED
      BY <2>5, InlineItems
  <1>5. ASSUME val \in BodyIndicators PROVE val # <<>>
    BY <1>5 DEF BodyIndicators
  <1>6. \A kind \in Kinds \cup LexErrors, key \in Keys, value \in Seq(STRING), items \in Seq(Seq(STRING)) :
            L(kind, key, value, items) \in AnyLines
    BY LineType
  <1>7. /\ "blank" \in Kinds /\ "expect" \in Kinds /\ "comment" \in Kinds /\ "node" \in Kinds
        /\ "body" \in Kinds /\ "list" \in Kinds /\ "scalar" \in Kinds /\ "start" \in Kinds
        /\ "item" \in Kinds /\ "plain" \in Kinds /\ "P004" \in LexErrors /\ "P007" \in LexErrors
    BY DEF Kinds, LexErrors
  <1>9. "" \in Keys /\ "body" \in Keys /\ \A word \in STRING : word \in Keys
    BY DEF Keys
  <1> DEFINE c == Classified(raw, p, hasKey, val)
  <1>8. \/ c = L("P004", "", none, none)
        \/ c = L("blank", "", none, none)
        \/ p # <<>> /\ c = L("expect", "", none, none)
        \/ p # <<>> /\ c = L("comment", "", none, none)
        \/ p # <<>> /\ c = L("node", "", Tail(p), none)
        \/ val \in BodyIndicators /\ c = L("body", "body", Tail(val), none)
        \/ c = L("P007", "", none, none)
        \/ p # <<>> /\ val # <<>> /\ val[1] = "[" /\ ~(Last(val) # "]") /\ c = L("list", p[1], none, ParseInlineList(val))
        \/ p # <<>> /\ c = L("scalar", p[1], val, none)
        \/ p # <<>> /\ c = L("start", p[1], none, none)
        \/ p # <<>> /\ c = L("item", "", Tail(p), none)
        \/ c = L("plain", "", p, none)
    BY DEF Classified
  <1> HIDE DEF c, L, none
  <1> QED
    BY <1>1, <1>2, <1>3, <1>4, <1>5, <1>6, <1>7, <1>8, <1>9 DEF c

\* Every raw line is classified.
LEMMA ClassifyType == \A raw \in RawLines : ClassifyLine(raw) \in AnyLines
  <1> SUFFICES ASSUME NEW raw \in RawLines PROVE ClassifyLine(raw) \in AnyLines
    OBVIOUS
  <1> DEFINE p == Visible(raw.parts)
             hasKey == ColonAt(p) > 0 /\ IsValidFieldKey(KeyPart(p))
             val == ValuePart(p)
  <1>1. p \in Seq(STRING)
    BY VisibleType DEF RawLines
  <1>2. ClassifyLine(raw) = Classified(raw, p, hasKey, val)
    BY DEF ClassifyLine
  <1>3. hasKey \in BOOLEAN
    OBVIOUS
  <1> HIDE DEF p, hasKey
  <1>4. val \in Seq(STRING)
    <2>1. ColonAt(p) \in 0 .. Len(p)
      BY <1>1, FoundAt DEF ColonAt
    <2>2. Len(p) \in Nat
      BY <1>1, SeqFacts
    <2>3. ColonAt(p) + 1 \in 1 .. Len(p) + 1 /\ Len(p) \in 0 .. Len(p)
      BY <2>1, <2>2
    <2> QED
      BY <1>1, <2>3, PartOf DEF ValuePart
  <1> HIDE DEF val
  <1> QED
    BY <1>1, <1>2, <1>3, <1>4, ClassifiedType

\* The lines of a document, classified.
LinesIn(d) == ClassifyAll(LinesOf(d))

\* The lines of a document are classified one by one.
LEMMA LinesInType ==
    ASSUME NEW d \in Seq(RawLines)
    PROVE  /\ LinesIn(d) \in Seq(AnyLines) /\ Len(LinesIn(d)) = Len(d)
           /\ DOMAIN LinesOf(d) = 1 .. Len(d)
           /\ \A k \in 1 .. Len(d) : LinesIn(d)[k] = ClassifyLine(LinesOf(d)[k])
  <1> DEFINE n == Len(d)
             line(i) == IF d[i].parts # <<>> /\ Last(d[i].parts) = "cr"
                        THEN [d[i] EXCEPT !.parts = Front(@)] ELSE d[i]
             ls == LinesOf(d)
  <1>1. n \in Nat /\ DOMAIN d = 1 .. n /\ \A i \in 1 .. n : d[i] \in RawLines
    BY SeqFacts
  <1>2. DOMAIN ls = 1 .. n /\ \A i \in 1 .. n : ls[i] = line(i)
    BY <1>1 DEF LinesOf
  <1>3. \A i \in 1 .. n : line(i) \in RawLines
    <2> SUFFICES ASSUME NEW i \in 1 .. n PROVE line(i) \in RawLines
      OBVIOUS
    <2> DEFINE raw == d[i]
    <2>1. raw \in RawLines
      BY <1>1
    <2>2. CASE raw.parts # <<>>
      <3>1. raw.parts \in Seq(STRING)
        BY <2>1 DEF RawLines
      <3>2. Len(raw.parts) \in Nat /\ Len(raw.parts) # 0
        BY <2>2, <3>1, LenProperties, EmptySeq
      <3>3. 1 \in 1 .. Len(raw.parts) + 1 /\ Len(raw.parts) - 1 \in 0 .. Len(raw.parts)
        BY <3>2
      <3>4. Front(raw.parts) \in Seq(STRING)
        BY <3>1, <3>3, PartOf DEF Front
      <3> HIDE DEF raw
      <3>5. [raw EXCEPT !.parts = Front(@)] \in RawLines
        BY <2>1, <3>4 DEF RawLines
      <3> QED
        BY <2>1, <3>5 DEF raw
    <2>3. CASE ~(raw.parts # <<>>)
      BY <2>1, <2>3
    <2> QED
      BY <2>2, <2>3
  <1> HIDE DEF line, ls
  <1> DEFINE all == LinesIn(d)
  <1>4. DOMAIN all = 1 .. n /\ (\A i \in 1 .. n : all[i] = ClassifyLine(ls[i])) /\ all = [i \in 1 .. n |-> all[i]]
    BY <1>2 DEF LinesIn, ClassifyAll, ls
  <1> HIDE DEF all
  <1>5. \A i \in 1 .. n : all[i] \in AnyLines
    BY <1>2, <1>3, <1>4, ClassifyType
  <1>6. all \in [1 .. n -> AnyLines]
    BY <1>4, <1>5
  <1>7. all \in Seq(AnyLines)
    BY <1>1, <1>6, SeqDef
  <1>8. Len(all) = n
    BY <1>1, <1>4, <1>7, LenProperties
  <1> QED
    BY <1>2, <1>4, <1>7, <1>8 DEF all, ls

-------------------------------------------------------------------------------
(***************************************************************************)
(* How often an error is in a list                                         *)
(***************************************************************************)

\* Counts are numbers, and 0 exactly of what is not in the list.
LEMMA CountType ==
    ASSUME NEW T, NEW s \in Seq(T), NEW x
    PROVE  /\ Count(s, x) \in Nat /\ IsFiniteSet({i \in DOMAIN s : s[i] = x})
           /\ Count(s, x) # 0 => s # <<>>
           /\ \A i \in 1 .. Len(s) : s[i] = x => Count(s, x) # 0
  <1> DEFINE S == {i \in DOMAIN s : s[i] = x}
  <1>1. DOMAIN s = 1 .. Len(s) /\ Len(s) \in Nat
    BY LenProperties
  <1>2. IsFiniteSet(1 .. Len(s)) /\ S \in SUBSET (1 .. Len(s))
    BY <1>1, FS_Interval
  <1>3. IsFiniteSet(S)
    BY <1>2, FS_Subset
  <1>4. Cardinality(S) \in Nat /\ (Cardinality(S) = 0 <=> S = {})
    BY <1>3, FS_CardinalityType, FS_EmptySet
  <1>5. s = <<>> => S = {}
    BY <1>1, EmptySeq
  <1>6. \A i \in 1 .. Len(s) : s[i] = x => S # {}
    BY <1>1
  <1> QED
    BY <1>3, <1>4, <1>5, <1>6 DEF Count

\* The counts of two lists add up in their join.
LEMMA CountJoin ==
    ASSUME NEW T, NEW s \in Seq(T), NEW t \in Seq(T), NEW x
    PROVE  Count(Join(s, t), x) = Count(s, x) + Count(t, x)
  <1> DEFINE u == Join(s, t)
             m == Len(s)
             n == Len(t)
             A == {i \in DOMAIN s : s[i] = x}
             B == {i \in DOMAIN t : t[i] = x}
             C == {i \in DOMAIN u : u[i] = x}
             D == {m + i : i \in B}
  <1>1. /\ u \in Seq(T) /\ Len(u) = m + n /\ m \in Nat /\ n \in Nat
        /\ DOMAIN u = 1 .. m + n /\ DOMAIN s = 1 .. m /\ DOMAIN t = 1 .. n
        /\ \A i \in 1 .. m : u[i] = s[i]
        /\ \A i \in 1 .. n : u[m + i] = t[i]
    <2>1. /\ u \in Seq(T) /\ Len(u) = m + n
          /\ \A i \in 1 .. m : u[i] = s[i]
          /\ \A i \in 1 .. n : u[m + i] = t[i]
      <3>1. u \in Seq(T)
        BY JoinLists
      <3>2. Len(u) = m + n
        BY JoinLists
      <3>3. \A i \in 1 .. m : u[i] = s[i]
        BY JoinLists
      <3>4. \A i \in 1 .. n : u[m + i] = t[i]
        BY JoinLists
      <3> QED
        BY <3>1, <3>2, <3>3, <3>4
    <2> HIDE DEF u
    <2>2. DOMAIN u = 1 .. Len(u) /\ DOMAIN s = 1 .. m /\ DOMAIN t = 1 .. n /\ m \in Nat /\ n \in Nat
      BY <2>1, LenProperties
    <2> QED
      BY <2>1, <2>2
  <1>2. IsFiniteSet(A) /\ IsFiniteSet(B)
    BY CountType
  <1> HIDE DEF u, m, n
  <1>3. A \subseteq 1 .. m /\ B \subseteq 1 .. n
    BY <1>1
  <1>4. C = A \cup D
    <2>1. ASSUME NEW i \in C PROVE i \in A \cup D
      <3>1. i \in 1 .. m + n /\ u[i] = x
        BY <1>1
      <3>2. CASE i <= m
        BY <1>1, <3>1, <3>2
      <3>3. CASE ~(i <= m)
        <4>1. i - m \in 1 .. n /\ m + (i - m) = i
          BY <1>1, <3>1, <3>3
        <4>2. i - m \in B
          BY <1>1, <3>1, <4>1
        <4> QED
          BY <4>1, <4>2
      <3> QED
        BY <3>2, <3>3
    <2>2. ASSUME NEW i \in A PROVE i \in C
      BY <1>1
    <2>3. ASSUME NEW i \in B PROVE m + i \in C
      <3>1. i \in 1 .. n /\ m + i \in 1 .. m + n /\ u[m + i] = t[i] /\ t[i] = x
        BY <1>1
      <3> QED
        BY <1>1, <3>1
    <2> QED
      BY <2>1, <2>2, <2>3
  <1>5. A \cap D = {}
    BY <1>1, <1>3
  <1>6. IsFiniteSet(D) /\ Cardinality(D) = Cardinality(B)
    <2> DEFINE f == [i \in B |-> m + i]
    <2>0. \A i \in B : i \in Nat /\ m + i \in D
      BY <1>1, <1>3
    <2>3. f \in [B -> D] /\ (\A i \in B : f[i] = m + i) /\ \A y \in D : \E i \in B : y = m + i
      BY <2>0
    <2> HIDE DEF f, D
    <2>4. f \in Injection(B, D)
      BY <1>1, <2>0, <2>3 DEF Injection, IsInjective
    <2>5. f \in Surjection(B, D)
      BY <2>3 DEF Surjection
    <2>1. f \in Bijection(B, D)
      BY <2>4, <2>5 DEF Bijection
    <2>2. ExistsBijection(B, D)
      BY <2>1 DEF ExistsBijection
    <2> QED
      BY <1>2, <2>2, FS_Bijection
  <1> HIDE DEF A, B, C, D
  <1>7. /\ Cardinality(A \cup D) = Cardinality(A) + Cardinality(D) - Cardinality(A \cap D)
        /\ Cardinality({}) = 0 /\ Cardinality(A) \in Nat /\ Cardinality(B) \in Nat
    BY <1>2, <1>6, FS_Union, FS_EmptySet, FS_CardinalityType
  <1>8. Cardinality(C) = Cardinality(A) + Cardinality(B)
    <2>1. Cardinality(A \cup D) = Cardinality(A) + Cardinality(B) - 0
      BY <1>5, <1>6, <1>7
    <2>2. Cardinality(A) + Cardinality(B) - 0 = Cardinality(A) + Cardinality(B)
      BY <1>7
    <2> QED
      BY <1>4, <2>1, <2>2
  <1> QED
    BY <1>8 DEF Count, A, B, C, u

\* The counts of a list of one and of none.
LEMMA CountOne ==
    ASSUME NEW c, NEW x
    PROVE  Count(<<c>>, x) = (IF c = x THEN 1 ELSE 0) /\ Count(<<>>, x) = 0
  <1>1. {i \in DOMAIN <<>> : <<>>[i] = x} = {}
    OBVIOUS
  <1>2. {i \in DOMAIN <<c>> : <<c>>[i] = x} = IF c = x THEN {1} ELSE {}
    OBVIOUS
  <1>3. Cardinality({}) = 0 /\ Cardinality({1}) = 1
    BY FS_EmptySet, FS_Singleton
  <1> QED
    BY <1>1, <1>2, <1>3 DEF Count

-------------------------------------------------------------------------------
(***************************************************************************)
(* What the caller was told of some kinds of event                         *)
(***************************************************************************)

Marks == {"Error", "HeaderComplete", "NodeStarted", "NodeComplete", "EndOfFile"}
Told == {Event(m) : m \in Marks} \cup {NodeEvent(m, id) : m \in Marks, id \in Seq(STRING)}

Pick(e, what) == IF e.event \in what THEN <<e>> ELSE <<>>
Picks(told, what) == [i \in DOMAIN told |-> Pick(told[i], what)]

\* The chosen events are those picked, put together.
LEMMA OnlyPicks == \A told, what : Only(told, what) = FlattenSeq(Picks(told, what))
  BY DEF Only, Picks, Pick

\* A picked event is one of the events.
LEMMA PickType == \A T : \A e \in T : \A what : Pick(e, what) \in Seq(T)
  BY EmptySeq DEF Pick

\* Every event is picked or not.
LEMMA PicksType ==
    ASSUME NEW T, NEW told \in Seq(T), NEW what
    PROVE  /\ Picks(told, what) \in Seq(Seq(T)) /\ Len(Picks(told, what)) = Len(told)
           /\ \A i \in 1 .. Len(told) : Picks(told, what)[i] = Pick(told[i], what)
  <1> DEFINE n == Len(told)
             V == Seq(T)
             ps == Picks(told, what)
  <1>1. n \in Nat /\ DOMAIN told = 1 .. n /\ \A i \in 1 .. n : told[i] \in T
    BY SeqFacts
  <1>2. ps = [i \in 1 .. n |-> Pick(told[i], what)]
    BY <1>1 DEF Picks
  <1>3. \A i \in 1 .. n : Pick(told[i], what) \in V
    BY <1>1, PickType
  <1> HIDE DEF V, ps, n
  <1>4. ps \in [1 .. n -> V] /\ \A i \in 1 .. n : ps[i] = Pick(told[i], what)
    BY <1>2, <1>3
  <1>5. ps \in Seq(V) /\ Len(ps) = n
    <2>1. ps \in Seq(V)
      BY <1>1, <1>4, SeqDef
    <2>2. DOMAIN ps = 1 .. n
      BY <1>2
    <2> QED
      BY <1>1, <2>1, <2>2, LenProperties
  <1> QED
    BY <1>4, <1>5 DEF V, ps, n

\* Chosen events are events.
LEMMA OnlyType == \A T : \A told \in Seq(T) : \A what : Only(told, what) \in Seq(T)
  BY PicksType, FlattenType, OnlyPicks

\* What is chosen of two lists is what is chosen of each.
LEMMA OnlyJoin ==
    ASSUME NEW T, NEW s \in Seq(T), NEW t \in Seq(T), NEW what
    PROVE  Only(Join(s, t), what) = Join(Only(s, what), Only(t, what))
  <1> DEFINE a == Picks(s, what)
             b == Picks(t, what)
             u == Join(s, t)
             c == Picks(u, what)
             V == Seq(T)
             m == Len(s)
             n == Len(t)
  <1>1. /\ u \in Seq(T) /\ Len(u) = m + n /\ m \in Nat /\ n \in Nat
        /\ \A i \in 1 .. m : u[i] = s[i]
        /\ \A i \in 1 .. n : u[m + i] = t[i]
    <2>1. u \in Seq(T)
      BY JoinLists
    <2>2. Len(u) = m + n
      BY JoinLists
    <2>3. \A i \in 1 .. m : u[i] = s[i]
      BY JoinLists
    <2>4. \A i \in 1 .. n : u[m + i] = t[i]
      BY JoinLists
    <2>5. m \in Nat /\ n \in Nat
      BY LenProperties
    <2> QED
      BY <2>1, <2>2, <2>3, <2>4, <2>5
  <1>2. a \in Seq(V) /\ Len(a) = m /\ \A i \in 1 .. m : a[i] = Pick(s[i], what)
    BY PicksType
  <1>3. b \in Seq(V) /\ Len(b) = n /\ \A i \in 1 .. n : b[i] = Pick(t[i], what)
    BY PicksType
  <1> HIDE DEF u
  <1>4. c \in Seq(V) /\ Len(c) = Len(u) /\ \A i \in 1 .. Len(u) : c[i] = Pick(u[i], what)
    BY <1>1, PicksType
  <1> HIDE DEF a, b, c, m, n
  <1>5. c = Join(a, b)
    <2> DEFINE d == Join(a, b)
    <2> HIDE DEF V
    <2>1. d \in Seq(V)
      BY <1>2, <1>3, JoinLists
    <2>2. Len(d) = m + n
      BY <1>2, <1>3, JoinLists
    <2>3. \A i \in 1 .. m : d[i] = a[i]
      BY <1>2, <1>3, JoinLists
    <2>4. \A i \in 1 .. n : d[m + i] = b[i]
      <3>0. a \in Seq(V) /\ b \in Seq(V)
        BY <1>2, <1>3
      <3>1. \A i \in 1 .. Len(b) : d[Len(a) + i] = b[i]
        BY <3>0, JoinedAfter
      <3> HIDE DEF d
      <3> QED
        BY <1>2, <1>3, <3>1
    <2> HIDE DEF d
    <2>5. \A i \in 1 .. m + n : c[i] = d[i]
      <3> SUFFICES ASSUME NEW i \in 1 .. m + n PROVE c[i] = d[i]
        OBVIOUS
      <3>1. CASE i \in 1 .. m
        BY <1>1, <1>2, <1>4, <2>3, <3>1
      <3>2. CASE i \notin 1 .. m
        <4>1. i - m \in 1 .. n /\ m + (i - m) = i
          BY <1>1, <3>2
        <4> DEFINE j == i - m
        <4>2. j \in 1 .. n /\ m + j = i
          BY <4>1
        <4> HIDE DEF j
        <4>3. d[i] = b[j] /\ u[i] = t[j] /\ b[j] = Pick(t[j], what) /\ c[i] = Pick(u[i], what)
          BY <1>1, <1>3, <1>4, <2>4, <4>2
        <4> QED
          BY <4>3
      <3> QED
        BY <3>1, <3>2
    <2>6. c = d
      BY <1>1, <1>4, <2>1, <2>2, <2>5, SeqEqual
    <2> QED
      BY <2>6 DEF d
  <1>6. FlattenSeq(a \o b) = FlattenSeq(a) \o FlattenSeq(b)
    BY <1>2, <1>3, FlattenJoined DEF V
  <1>7. FlattenSeq(Join(a, b)) = Join(FlattenSeq(a), FlattenSeq(b))
    BY <1>6, Zenon DEF Join
  <1>8. Only(u, what) = FlattenSeq(c) /\ Only(s, what) = FlattenSeq(a) /\ Only(t, what) = FlattenSeq(b)
    BY OnlyPicks DEF a, b, c
  <1> QED
    BY <1>5, <1>7, <1>8 DEF u

\* What is chosen of no event, and of one.
LEMMA OnlyOne == \A what : Only(<<>>, what) = <<>> /\ \A T : \A e \in T : Only(<<e>>, what) = Pick(e, what)
  <1>1. \A what : Only(<<>>, what) = <<>>
    <2> SUFFICES ASSUME NEW what PROVE Only(<<>>, what) = <<>>
      OBVIOUS
    <2>1. Picks(<<>>, what) = <<>>
      BY DEF Picks
    <2> QED
      BY <2>1, OnlyPicks, FlattenNone
  <1>2. ASSUME NEW what, NEW T, NEW e \in T PROVE Only(<<e>>, what) = Pick(e, what)
    <2>1. Picks(<<e>>, what) = <<Pick(e, what)>>
      <3> DEFINE s == <<e>>
      <3>1. DOMAIN s = {1} /\ s[1] = e
        OBVIOUS
      <3> HIDE DEF s
      <3>2. Picks(s, what) = [i \in {1} |-> Pick(e, what)]
        BY <3>1 DEF Picks
      <3>3. [i \in {1} |-> Pick(e, what)] = <<Pick(e, what)>>
        OBVIOUS
      <3> QED
        BY <3>2, <3>3 DEF s
    <2>2. Pick(e, what) \in Seq(T)
      BY PickType
    <2> QED
      BY <2>1, <2>2, OnlyPicks, FlattenOne
  <1> QED
    BY <1>1, <1>2

\* The events that report a list of errors.
LEMMA ErrorsTold ==
    ASSUME NEW errors \in Seq(Codes)
    PROVE  /\ ErrorEvents(errors) \in Seq(Told)
           /\ \A what : "Error" \notin what => Only(ErrorEvents(errors), what) = <<>>
           /\ Len(Only(ErrorEvents(errors), {"Error"})) = Len(errors)
  <1> DEFINE n == Len(errors)
             told == ErrorEvents(errors)
             e == Event("Error")
  <1>1. n \in Nat /\ DOMAIN errors = 1 .. n
    BY SeqFacts
  <1>2. e \in Told /\ e.event = "Error"
    BY DEF Told, Marks, Event
  <1> HIDE DEF e
  <1>3. told = [i \in 1 .. n |-> e]
    BY <1>1 DEF ErrorEvents, e
  <1>4. told \in Seq(Told) /\ Len(told) = n /\ \A i \in 1 .. n : told[i] = e
    <2> HIDE DEF told
    <2>1. told \in [1 .. n -> Told] /\ DOMAIN told = 1 .. n
      BY <1>2, <1>3
    <2>2. told \in Seq(Told)
      BY <1>1, <2>1, SeqDef
    <2> QED
      BY <1>1, <1>3, <2>1, <2>2, LenProperties
  <1> HIDE DEF told
  <1>5. ASSUME NEW what
        PROVE  \E f : /\ f[0] = <<>> /\ Only(told, what) = f[n]
                      /\ \A k \in 1 .. n : f[k] = Join(f[k - 1], Pick(e, what))
    <2> DEFINE ps == Picks(told, what)
    <2>1. ps \in Seq(Seq(Told)) /\ Len(ps) = n /\ \A i \in 1 .. n : ps[i] = Pick(told[i], what)
      <3>1. ps \in Seq(Seq(Told))
        BY <1>4, PicksType
      <3>2. Len(ps) = n
        BY <1>4, PicksType
      <3>3. \A i \in 1 .. n : ps[i] = Pick(told[i], what)
        BY <1>4, PicksType
      <3> QED
        BY <3>1, <3>2, <3>3
    <2>2. Only(told, what) = FlattenSeq(ps)
      BY OnlyPicks
    <2> HIDE DEF ps
    <2>3. PICK f : IsFlatOf(f, ps, n)
      BY <1>1, FlatsExist
    <2>4. FlattenSeq(ps) = f[n]
      <3>1. IsFlatOf(f, ps, Len(ps))
        BY <2>1, <2>3
      <3>2. FlattenSeq(ps) = f[Len(ps)]
        BY <2>1, <3>1, FlattenIsFlat
      <3> QED
        BY <2>1, <3>2
    <2>5. f[0] = <<>> /\ \A k \in 1 .. n : f[k] = Join(f[k - 1], ps[k])
      BY <1>1, <2>3, FlatSteps
    <2>6. \A k \in 1 .. n : f[k] = Join(f[k - 1], Pick(e, what))
      BY <1>4, <2>1, <2>5
    <2> QED
      BY <2>2, <2>4, <2>5, <2>6
  <1>6. ASSUME NEW what, "Error" \notin what PROVE Only(told, what) = <<>>
    <2>1. PICK f : /\ f[0] = <<>> /\ Only(told, what) = f[n]
                   /\ \A k \in 1 .. n : f[k] = Join(f[k - 1], Pick(e, what))
      BY <1>5
    <2>2. Pick(e, what) = <<>> /\ Join(<<>>, <<>>) = <<>>
      BY <1>2, <1>6, JoinFacts, EmptySeq DEF Pick
    <2>3. \A k \in 1 .. n : f[k] = Join(f[k - 1], <<>>)
      BY <2>1, <2>2
    <2> DEFINE Bad == {k \in 0 .. n : f[k] # <<>>}
    <2>4. ASSUME Bad # {} PROVE FALSE
      <3>1. Bad \in SUBSET Nat
        OBVIOUS
      <3>2. PICK k \in Bad : \A j \in Bad : k <= j
        BY <2>4, <3>1, LeastNumber
      <3>3. k # 0 /\ k \in 0 .. n
        BY <2>1, <3>2
      <3>4. k \in 1 .. n /\ k - 1 \in 0 .. n /\ k - 1 \notin Bad
        BY <1>1, <3>2, <3>3
      <3>5. f[k - 1] = <<>> /\ f[k] = Join(f[k - 1], <<>>)
        BY <2>3, <3>4
      <3> QED
        BY <2>2, <3>2, <3>5
    <2> QED
      BY <1>1, <2>1, <2>4
  <1>7. Len(Only(told, {"Error"})) = n
    <2> DEFINE one == Pick(e, {"Error"})
    <2>1. PICK f : /\ f[0] = <<>> /\ Only(told, {"Error"}) = f[n]
                   /\ \A k \in 1 .. n : f[k] = Join(f[k - 1], one)
      BY <1>5
    <2>2. one \in Seq(Told) /\ Len(one) = 1
      BY <1>2 DEF Pick
    <2> HIDE DEF one
    <2> DEFINE Bad == {k \in 0 .. n : ~(f[k] \in Seq(Told) /\ Len(f[k]) = k)}
    <2>4. ASSUME Bad # {} PROVE FALSE
      <3>1. Bad \in SUBSET Nat
        OBVIOUS
      <3>2. PICK k \in Bad : \A j \in Bad : k <= j
        BY <2>4, <3>1, LeastNumber
      <3>3. k # 0 /\ k \in 0 .. n
        <4>1. <<>> \in Seq(Told) /\ Len(<<>>) = 0
          BY EmptySeq
        <4> QED
          BY <2>1, <3>2, <4>1
      <3>4. k \in 1 .. n /\ k - 1 \in 0 .. n /\ k - 1 \notin Bad
        BY <1>1, <3>2, <3>3
      <3>5. f[k - 1] \in Seq(Told) /\ Len(f[k - 1]) = k - 1 /\ f[k] = Join(f[k - 1], one)
        BY <2>1, <3>4
      <3>6. Join(f[k - 1], one) \in Seq(Told)
        BY <2>2, <3>5, JoinLists
      <3>7. Len(Join(f[k - 1], one)) = Len(f[k - 1]) + Len(one)
        BY <2>2, <3>5, JoinLists
      <3>8. Len(f[k]) = k
        BY <2>2, <3>3, <3>5, <3>7
      <3> QED
        BY <3>2, <3>5, <3>6, <3>8
    <2> QED
      BY <1>1, <2>1, <2>4
  <1> QED
    BY <1>4, <1>6, <1>7 DEF told, n

-------------------------------------------------------------------------------
(***************************************************************************)
(* The lines the lexer refuses                                             *)
(***************************************************************************)

Refusal(line) == IF line.kind \in LexErrors THEN <<line.kind>> ELSE <<>>
RefusalsOf(lines) == [i \in DOMAIN lines |-> Refusal(lines[i])]
RefusedUpto(lines, k) == (CHOOSE f : IsFlatOf(f, RefusalsOf(lines), Len(lines)))[k]

\* A refused line is reported with its code, an accepted one is not.
LEMMA RefusalType == \A line : Refusal(line) \in Seq(LexErrors) /\ (line.kind \notin LexErrors => Refusal(line) = <<>>)
  BY EmptySeq DEF Refusal

\* The lexer reports the refused lines in their order.
LEMMA RefusalsGrow ==
    ASSUME NEW T, NEW lines \in Seq(T)
    PROVE  /\ RefusedUpto(lines, 0) = <<>>
           /\ \A k \in 1 .. Len(lines) : RefusedUpto(lines, k) = Join(RefusedUpto(lines, k - 1), Refusal(lines[k]))
           /\ \A k \in 0 .. Len(lines) : RefusedUpto(lines, k) \in Seq(LexErrors)
           /\ Lexed(lines).errors = RefusedUpto(lines, Len(lines))
           /\ Lexed(lines).lines = lines
  <1> DEFINE n == Len(lines)
             rs == RefusalsOf(lines)
             f == CHOOSE g : IsFlatOf(g, rs, n)
             V == Seq(LexErrors)
  <1>1. n \in Nat /\ DOMAIN lines = 1 .. n
    BY SeqFacts
  <1>2. rs \in Seq(V) /\ Len(rs) = n /\ \A i \in 1 .. n : rs[i] = Refusal(lines[i])
    <2>1. rs = [i \in 1 .. n |-> Refusal(lines[i])]
      BY <1>1 DEF RefusalsOf
    <2>2. \A i \in 1 .. n : Refusal(lines[i]) \in V
      BY RefusalType
    <2> HIDE DEF V, rs, n
    <2>3. rs \in [1 .. n -> V] /\ DOMAIN rs = 1 .. n /\ \A i \in 1 .. n : rs[i] = Refusal(lines[i])
      BY <2>1, <2>2
    <2>4. rs \in Seq(V)
      BY <1>1, <2>3, SeqDef
    <2> QED
      BY <1>1, <2>3, <2>4, LenProperties
  <1>3. Lexed(lines).errors = FlattenSeq(rs) /\ Lexed(lines).lines = lines
    BY DEF Lexed, RefusalsOf, Refusal
  <1>4. \A k : RefusedUpto(lines, k) = f[k]
    BY DEF RefusedUpto
  <1> HIDE DEF rs
  <1>5. \E g : IsFlatOf(g, rs, n)
    BY <1>1, FlatsExist
  <1>6. IsFlatOf(f, rs, n)
    BY <1>5
  <1> HIDE DEF f, n
  <1>7. f[0] = <<>> /\ \A k \in 1 .. n : f[k] = Join(f[k - 1], rs[k])
    BY <1>1, <1>6, FlatSteps
  <1>8. \A i \in 1 .. n : rs[i] \in Seq(LexErrors)
    BY <1>2, RefusalType
  <1>9. \A k \in 0 .. n : f[k] \in Seq(LexErrors)
    BY <1>1, <1>6, <1>8, FlatsType
  <1>10. FlattenSeq(rs) = f[n]
    <2>1. IsFlatOf(f, rs, Len(rs)) /\ rs \in Seq(Seq(LexErrors))
      BY <1>2, <1>6
    <2>2. FlattenSeq(rs) = f[Len(rs)]
      BY <2>1, FlattenIsFlat
    <2> QED
      BY <1>2, <2>2
  <1> QED
    BY <1>2, <1>3, <1>4, <1>7, <1>9, <1>10 DEF n

\* The lexer reports nothing exactly if it accepts every line.
LEMMA NothingRefused ==
    ASSUME NEW lines \in Seq(AnyLines)
    PROVE  /\ Lexed(lines).errors = <<>> => lines \in Seq(Lines)
           /\ lines \in Seq(Lines) => Lexed(lines).errors = <<>>
  <1> DEFINE n == Len(lines)
             r(k) == RefusedUpto(lines, k)
  <1>1. n \in Nat /\ \A k \in 1 .. n : lines[k] \in AnyLines
    BY SeqFacts
  <1>2. /\ r(0) = <<>> /\ \A k \in 1 .. n : r(k) = Join(r(k - 1), Refusal(lines[k]))
        /\ \A k \in 0 .. n : r(k) \in Seq(LexErrors)
        /\ Lexed(lines).errors = r(n)
    BY RefusalsGrow
  <1> HIDE DEF r, n
  <1>3. ASSUME r(n) = <<>>, NEW i \in 1 .. n, lines[i].kind \in LexErrors PROVE FALSE
    <2> DEFINE Bad == {k \in 0 .. n : k >= i /\ r(k) = <<>>}
    <2>1. n \in Bad /\ Bad \in SUBSET Nat
      BY <1>1, <1>3
    <2>2. PICK k \in Bad : \A j \in Bad : k <= j
      BY <2>1, LeastNumber
    <2>3. k \in 1 .. n /\ k - 1 \in 0 .. n /\ k - 1 \notin Bad
      BY <1>1, <2>2
    <2>4. /\ r(k - 1) \in Seq(LexErrors) /\ Refusal(lines[k]) \in Seq(LexErrors)
          /\ Join(r(k - 1), Refusal(lines[k])) = <<>>
      BY <1>2, <2>2, <2>3, RefusalType
    <2>5. Len(Join(r(k - 1), Refusal(lines[k]))) = Len(r(k - 1)) + Len(Refusal(lines[k]))
      BY <2>4, JoinLists
    <2>6. Len(r(k - 1)) \in Nat /\ Len(Refusal(lines[k])) \in Nat /\ Len(<<>>) = 0
      BY <2>4, LenProperties
    <2>7. Len(r(k - 1)) = 0 /\ Len(Refusal(lines[k])) = 0
      BY <2>4, <2>5, <2>6
    <2>8. CASE k = i
      <3>1. Refusal(lines[k]) = <<lines[k].kind>>
        BY <1>3, <2>8 DEF Refusal
      <3>2. Len(<<lines[k].kind>>) = 1
        OBVIOUS
      <3> QED
        BY <2>7, <3>1, <3>2
    <2>9. CASE k # i
      <3>1. k - 1 >= i
        BY <1>1, <2>2, <2>9
      <3>2. r(k - 1) = <<>>
        BY <2>4, <2>7, EmptySeq
      <3> QED
        BY <2>3, <3>1, <3>2
    <2> QED
      BY <2>8, <2>9
  <1>4. ASSUME \A i \in 1 .. n : lines[i].kind \notin LexErrors PROVE r(n) = <<>>
    <2> DEFINE Bad == {k \in 0 .. n : r(k) # <<>>}
    <2>1. ASSUME Bad # {} PROVE FALSE
      <3>1. Bad \in SUBSET Nat
        OBVIOUS
      <3>2. PICK k \in Bad : \A j \in Bad : k <= j
        BY <2>1, <3>1, LeastNumber
      <3>3. k # 0 /\ k \in 0 .. n
        BY <1>2, <3>2
      <3>4. k \in 1 .. n /\ k - 1 \in 0 .. n /\ k - 1 \notin Bad
        BY <1>1, <3>2, <3>3
      <3>5. r(k) = Join(<<>>, <<>>)
        BY <1>2, <1>4, <3>4, RefusalType
      <3>6. Join(<<>>, <<>>) = <<>>
        BY EmptySeq, JoinFacts
      <3> QED
        BY <3>2, <3>5, <3>6
    <2> QED
      BY <1>1, <2>1
  <1>5. ASSUME r(n) = <<>> PROVE lines \in Seq(Lines)
    <2>1. \A i \in 1 .. n : lines[i] \in Lines
      BY <1>1, <1>3, <1>5, AcceptedLine
    <2>2. lines \in [1 .. n -> Lines]
      <3>1. lines = [i \in 1 .. n |-> lines[i]]
        BY LenProperties DEF n
      <3> QED
        BY <2>1, <3>1
    <2> QED
      BY <1>1, <2>2, SeqDef
  <1>6. ASSUME lines \in Seq(Lines) PROVE r(n) = <<>>
    <2>1. \A i \in 1 .. n : lines[i] \in Lines
      BY <1>6, SeqFacts DEF n
    <2>2. \A l \in Lines : l.kind \notin LexErrors
      BY DEF Lines, Kinds, LexErrors
    <2> QED
      BY <1>4, <2>1, <2>2
  <1> QED
    BY <1>2, <1>5, <1>6

-------------------------------------------------------------------------------
(***************************************************************************)
(* Lines fed one after the other                                           *)
(***************************************************************************)

IsFeed(f, s, from, upto) ==
    f = [k \in from .. upto |-> IF k = from THEN s ELSE Fed(f[k - 1], ClassifyLine(LinesOf(doc)[k]))]

\* The function Drained is defined by exists.
LEMMA FeedExists ==
    ASSUME NEW s, NEW from \in Nat, NEW c \in Nat
    PROVE  \E f : IsFeed(f, s, from, from + c)
  <1> DEFINE Bad == {n \in Nat : ~\E f : IsFeed(f, s, from, from + n)}
             line(k) == ClassifyLine(LinesOf(doc)[k])
  <1> HIDE DEF line
  <1>0. \A f, n : IsFeed(f, s, from, n) <=> f = [k \in from .. n |-> IF k = from THEN s ELSE Fed(f[k - 1], line(k))]
    BY DEF IsFeed, line
  <1>1. ASSUME Bad # {} PROVE FALSE
    <2>1. PICK n \in Bad : \A m \in Bad : n <= m
      BY <1>1, LeastNumber
    <2>2. CASE n = 0
      <3> DEFINE f == [k \in from .. from |-> s]
      <3>1. f = [k \in from .. from |-> IF k = from THEN s ELSE Fed(f[k - 1], line(k))]
        OBVIOUS
      <3> HIDE DEF f
      <3>2. IsFeed(f, s, from, from) /\ from + 0 = from
        BY <3>1 DEF IsFeed, line
      <3> QED
        BY <2>1, <2>2, <3>2
    <2>3. CASE n # 0
      <3>1. n - 1 \in Nat /\ n \in Nat /\ n - 1 \notin Bad
        BY <2>1, <2>3
      <3> DEFINE m == from + n
      <3>2. PICK g : IsFeed(g, s, from, from + (n - 1))
        BY <3>1
      <3>3. m \in Nat /\ from + (n - 1) = m - 1 /\ m > from
        BY <2>3, <3>1
      <3> HIDE DEF m
      <3>4. \A k \in from .. m - 1 : g[k] = IF k = from THEN s ELSE Fed(g[k - 1], line(k))
        BY <1>0, <3>2, <3>3
      <3> DEFINE f == [k \in from .. m |-> IF k < m THEN g[k] ELSE Fed(g[m - 1], line(m))]
      <3>5. \A k \in from .. m : f[k] = IF k = from THEN s ELSE Fed(f[k - 1], line(k))
        <4> SUFFICES ASSUME NEW k \in from .. m PROVE f[k] = IF k = from THEN s ELSE Fed(f[k - 1], line(k))
          OBVIOUS
        <4>1. CASE k < m
          <5>1. k \in from .. m - 1 /\ f[k] = g[k] /\ (k # from => f[k - 1] = g[k - 1])
            BY <3>3, <4>1
          <5> QED
            BY <3>4, <5>1
        <4>2. CASE k = m
          <5>1. f[k] = Fed(g[m - 1], line(m)) /\ f[k - 1] = g[m - 1] /\ k # from
            BY <3>3, <4>2
          <5> QED
            BY <4>2, <5>1
        <4> QED
          BY <3>3, <4>1, <4>2
      <3>6. f = [k \in from .. m |-> f[k]]
        OBVIOUS
      <3> HIDE DEF f
      <3>7. IsFeed(f, s, from, m)
        BY <3>5, <3>6 DEF IsFeed, line
      <3> QED
        BY <2>1, <3>7 DEF m
    <2> QED
      BY <2>2, <2>3
  <1> QED
    BY <1>1

\* f[k] is the parser after the lines up to k, read from line `from` on.
Feeds(f, s, from, upto) ==
    /\ f[from] = s /\ Drained(s, from, upto) = f[upto]
    /\ \A k \in from + 1 .. upto : f[k] = Fed(f[k - 1], ClassifyLine(LinesOf(doc)[k]))

\* Drained feeds one line after the other.
LEMMA FeedSteps == \A s : \A from, upto \in Nat : from <= upto => \E f : Feeds(f, s, from, upto)
  <1> SUFFICES ASSUME NEW s, NEW from \in Nat, NEW upto \in Nat, from <= upto
               PROVE  \E f : Feeds(f, s, from, upto)
    OBVIOUS
  <1> DEFINE after == CHOOSE f : IsFeed(f, s, from, upto)
  <1>1. \E f : IsFeed(f, s, from, upto)
    <2>1. upto - from \in Nat /\ from + (upto - from) = upto
      OBVIOUS
    <2> QED
      BY <2>1, FeedExists
  <1>2. IsFeed(after, s, from, upto)
    BY <1>1
  <1>3. Drained(s, from, upto) = after[upto]
    BY DEF Drained, IsFeed
  <1> HIDE DEF after
  <1>4. \A k \in from .. upto : after[k] = IF k = from THEN s ELSE Fed(after[k - 1], ClassifyLine(LinesOf(doc)[k]))
    BY <1>2 DEF IsFeed
  <1>5. after[from] = s /\ \A k \in from + 1 .. upto : after[k] = Fed(after[k - 1], ClassifyLine(LinesOf(doc)[k]))
    BY <1>4
  <1> QED
    BY <1>3, <1>5 DEF Feeds

-------------------------------------------------------------------------------
(***************************************************************************)
(* What each step of the state machine leaves                              *)
(***************************************************************************)

IsParsed(p) ==
    /\ p = [header |-> p.header, nodes |-> p.nodes, errors |-> p.errors]
    /\ IsSeq(p.nodes) /\ p.errors \in Seq(Codes)

IsState(s) ==
    /\ s = [state |-> s.state, buffered |-> s.buffered, parsed |-> s.parsed, events |-> s.events]
    /\ IsParsed(s.parsed) /\ s.buffered \in Seq(Lines) /\ s.events \in Seq(Told)

StateOf(where, kept, header, nodes, errors, told) ==
    [state |-> where, buffered |-> kept,
     parsed |-> [header |-> header, nodes |-> nodes, errors |-> errors], events |-> told]

\* The fields of a state.
LEMMA StateFields ==
    ASSUME NEW where, NEW kept, NEW header, NEW nodes, NEW errors, NEW told, NEW s,
           s = StateOf(where, kept, header, nodes, errors, told)
    PROVE  /\ s.state = where /\ s.buffered = kept /\ s.parsed.header = header
           /\ s.parsed.nodes = nodes /\ s.parsed.errors = errors /\ s.events = told
           /\ (kept \in Seq(Lines) /\ IsSeq(nodes) /\ errors \in Seq(Codes) /\ told \in Seq(Told)) => IsState(s)
  BY DEF StateOf, IsState, IsParsed

\* A state is made of its fields.
LEMMA FieldsState ==
    ASSUME NEW s, IsState(s)
    PROVE  s = StateOf(s.state, s.buffered, s.parsed.header, s.parsed.nodes, s.parsed.errors, s.events)
  <1>1. s = [state |-> s.state, buffered |-> s.buffered, parsed |-> s.parsed, events |-> s.events]
    BY DEF IsState
  <1>2. s.parsed = [header |-> s.parsed.header, nodes |-> s.parsed.nodes, errors |-> s.parsed.errors]
    BY DEF IsState, IsParsed
  <1> QED
    BY <1>1, <1>2, Zenon DEF StateOf

\* A refused line is reported and told, and leaves the rest.
LEMMA RefuseLeaves ==
    ASSUME NEW s, IsState(s), NEW line, line.kind \in LexErrors
    PROVE  Refuse(s, line) = StateOf(s.state, s.buffered, s.parsed.header, s.parsed.nodes,
                                     Join(s.parsed.errors, <<line.kind>>), Join(s.events, <<Event("Error")>>))
  <1> DEFINE a == Append(s.parsed.errors, line.kind)
             b == Append(s.events, Event("Error"))
  <1>1. a = Join(s.parsed.errors, <<line.kind>>)
    <2>1. s.parsed.errors \in Seq(Codes) /\ line.kind \in Codes
      BY DEF IsState, IsParsed, LexErrors, Codes
    <2> QED
      BY <2>1, AppendJoins
  <1>2. b = Join(s.events, <<Event("Error")>>)
    <2>1. s.events \in Seq(Told) /\ Event("Error") \in Told
      BY DEF IsState, Told, Marks
    <2> QED
      BY <2>1, AppendJoins
  <1>3. Refuse(s, line) = [s EXCEPT !.parsed.errors = a, !.events = b]
    BY DEF Refuse
  <1> HIDE DEF a, b
  <1>4. [s EXCEPT !.parsed.errors = a, !.events = b] = StateOf(s.state, s.buffered, s.parsed.header, s.parsed.nodes, a, b)
    <2>1. s = StateOf(s.state, s.buffered, s.parsed.header, s.parsed.nodes, s.parsed.errors, s.events)
      BY FieldsState
    <2> DEFINE c == s.state
               d == s.buffered
               e == s.parsed.header
               f == s.parsed.nodes
               g == s.parsed.errors
               h == s.events
    <2> HIDE DEF c, d, e, f, g, h
    <2>2. s = StateOf(c, d, e, f, g, h)
      BY <2>1 DEF c, d, e, f, g, h
    <2> DEFINE p == [header |-> e, nodes |-> f, errors |-> g]
               q == [s.parsed EXCEPT !.errors = a]
               r == [s EXCEPT !.parsed = q]
    <2>4. s = [state |-> c, buffered |-> d, parsed |-> p, events |-> h]
      BY <2>2 DEF StateOf
    <2>5. s.parsed = p
      BY <2>4
    <2>6. [s EXCEPT !.parsed.errors = a, !.events = b] = [r EXCEPT !.events = b]
      OBVIOUS
    <2>7. q = [header |-> e, nodes |-> f, errors |-> a]
      BY <2>5
    <2> HIDE DEF p, q
    <2>8. r = [state |-> c, buffered |-> d, parsed |-> q, events |-> h]
      BY <2>4
    <2> HIDE DEF r
    <2>9. [r EXCEPT !.events = b] = [state |-> c, buffered |-> d, parsed |-> q, events |-> b]
      BY <2>8
    <2>3. [s EXCEPT !.parsed.errors = a, !.events = b] = StateOf(c, d, e, f, a, b)
      BY <2>6, <2>7, <2>9 DEF StateOf
    <2> QED
      BY <2>3 DEF c, d, e, f
  <1> QED
    BY <1>1, <1>2, <1>3, <1>4

\* A line within a section is buffered.
LEMMA MoreLeaves ==
    ASSUME NEW s, IsState(s), NEW line \in Lines, line.kind # "node",
           s.state \in {"BeforeHeader", "InHeader", "InNode"}
    PROVE  Step(s, line) = StateOf(IF s.state = "InNode" THEN "InNode" ELSE "InHeader",
                                   Join(s.buffered, <<line>>), s.parsed.header, s.parsed.nodes,
                                   s.parsed.errors, s.events)
  <1> DEFINE a == Append(s.buffered, line)
  <1>1. a = Join(s.buffered, <<line>>)
    <2>1. s.buffered \in Seq(Lines)
      BY DEF IsState
    <2> QED
      BY <2>1, AppendJoins
  <1>2. Step(s, line) = IF s.state = "InNode" THEN [s EXCEPT !.buffered = a]
                        ELSE [s EXCEPT !.state = "InHeader", !.buffered = a]
    BY DEF Step
  <1> HIDE DEF a
  <1> DEFINE c == s.state
             d == s.buffered
             e == s.parsed.header
             f == s.parsed.nodes
             g == s.parsed.errors
             h == s.events
  <1>3. s = StateOf(c, d, e, f, g, h)
    BY FieldsState
  <1> HIDE DEF c, d, e, f, g, h
  <1>4. /\ [s EXCEPT !.buffered = a] = StateOf(c, a, e, f, g, h)
        /\ [s EXCEPT !.state = "InHeader", !.buffered = a] = StateOf("InHeader", a, e, f, g, h)
    <2> DEFINE p == [header |-> e, nodes |-> f, errors |-> g]
               q == [s EXCEPT !.state = "InHeader"]
    <2>1. s = [state |-> c, buffered |-> d, parsed |-> p, events |-> h]
      BY <1>3 DEF StateOf
    <2> HIDE DEF p
    <2>2. [s EXCEPT !.buffered = a] = [state |-> c, buffered |-> a, parsed |-> p, events |-> h]
      BY <2>1
    <2>3. q = [state |-> "InHeader", buffered |-> d, parsed |-> p, events |-> h]
      BY <2>1
    <2>4. [s EXCEPT !.state = "InHeader", !.buffered = a] = [q EXCEPT !.buffered = a]
      OBVIOUS
    <2> HIDE DEF q
    <2>5. [q EXCEPT !.buffered = a] = [state |-> "InHeader", buffered |-> a, parsed |-> p, events |-> h]
      BY <2>3
    <2> QED
      BY <2>2, <2>4, <2>5 DEF StateOf, p
  <1>5. Step(s, line) = StateOf(IF c = "InNode" THEN "InNode" ELSE "InHeader", a, e, f, g, h)
    BY <1>2, <1>4 DEF c
  <1> QED
    BY <1>1, <1>5 DEF c, d, e, f, g, h

\* flush_header leaves the header that is parsed of the buffered lines.
LEMMA HeaderLeaves ==
    ASSUME NEW s, IsState(s), NEW event,
           NEW h, h = ParseHeader(s.buffered, 1)
    PROVE  FlushHeader(s, event) = StateOf("BetweenNodes", <<>>, <<h.header>>, s.parsed.nodes,
                                           Join(s.parsed.errors, h.errors),
                                           Join(Join(s.events, ErrorEvents(h.errors)), event))
  <1> DEFINE p == s.parsed
             a == Join(p.errors, h.errors)
             told == Join(Join(s.events, ErrorEvents(h.errors)), event)
             more == [p EXCEPT !.header = <<h.header>>, !.errors = a]
  <1>1. FlushHeader(s, event) = [state |-> "BetweenNodes", buffered |-> <<>>, parsed |-> more, events |-> told]
    BY Zenon DEF FlushHeader, HeaderParsed, Join
  <1> HIDE DEF a, told
  <1>2. more = [header |-> <<h.header>>, nodes |-> p.nodes, errors |-> a]
    <2> HIDE DEF p
    <2>1. p = [header |-> p.header, nodes |-> p.nodes, errors |-> p.errors]
      BY DEF IsState, IsParsed, p
    <2> DEFINE q == [p EXCEPT !.header = <<h.header>>]
    <2>2. q = [header |-> <<h.header>>, nodes |-> p.nodes, errors |-> p.errors]
      BY <2>1
    <2>3. more = [q EXCEPT !.errors = a]
      OBVIOUS
    <2> HIDE DEF q, more
    <2>4. [q EXCEPT !.errors = a] = [header |-> <<h.header>>, nodes |-> p.nodes, errors |-> a]
      BY <2>2
    <2> QED
      BY <2>3, <2>4
  <1> HIDE DEF more
  <1>3. FlushHeader(s, event) = StateOf("BetweenNodes", <<>>, <<h.header>>, p.nodes, a, told)
    BY <1>1, <1>2 DEF StateOf
  <1> QED
    BY <1>3 DEF a, told

\* flush_node appends the node that is parsed of the buffered lines.
LEMMA NodeLeaves ==
    ASSUME NEW s, IsState(s), NEW n, n = ParseNode(s.buffered, 1)
    PROVE  FlushNode(s) = StateOf("BetweenNodes", <<>>, s.parsed.header, Join(s.parsed.nodes, <<n.node>>),
                                  Join(s.parsed.errors, n.errors),
                                  Join(Join(s.events, ErrorEvents(n.errors)), <<NodeEvent("NodeComplete", n.node.id)>>))
  <1> DEFINE p == s.parsed
             a == Join(p.errors, n.errors)
             b == Append(p.nodes, n.node)
             told == Join(Join(s.events, ErrorEvents(n.errors)), <<NodeEvent("NodeComplete", n.node.id)>>)
             more == [p EXCEPT !.nodes = b, !.errors = a]
  <1>1. FlushNode(s) = [state |-> "BetweenNodes", buffered |-> <<>>, parsed |-> more, events |-> told]
    BY Zenon DEF FlushNode, NodeParsed, Join
  <1>2. b = Join(p.nodes, <<n.node>>)
    <2>1. PICK V : p.nodes \in Seq(V)
      BY DEF IsState, IsParsed, IsSeq
    <2>2. p.nodes \in Seq(V \cup {n.node}) /\ n.node \in V \cup {n.node}
      <3>1. V \subseteq V \cup {n.node} /\ n.node \in V \cup {n.node}
        OBVIOUS
      <3> QED
        BY <2>1, <3>1, SeqMonotonic
    <2> QED
      BY <2>2, AppendJoins
  <1> HIDE DEF a, b, told
  <1>3. more = [header |-> p.header, nodes |-> b, errors |-> a]
    <2> HIDE DEF p
    <2>1. p = [header |-> p.header, nodes |-> p.nodes, errors |-> p.errors]
      BY DEF IsState, IsParsed, p
    <2> DEFINE q == [p EXCEPT !.nodes = b]
    <2>2. q = [header |-> p.header, nodes |-> b, errors |-> p.errors]
      BY <2>1
    <2>3. more = [q EXCEPT !.errors = a]
      OBVIOUS
    <2> HIDE DEF q, more
    <2>4. [q EXCEPT !.errors = a] = [header |-> p.header, nodes |-> b, errors |-> a]
      BY <2>2
    <2> QED
      BY <2>3, <2>4
  <1> HIDE DEF more
  <1>4. FlushNode(s) = StateOf("BetweenNodes", <<>>, p.header, b, a, told)
    BY <1>1, <1>3 DEF StateOf
  <1> QED
    BY <1>2, <1>4 DEF a, told

\* A declaration starts a section and is told.
LEMMA StartLeaves ==
    ASSUME NEW header, NEW nodes, IsSeq(nodes), NEW errors \in Seq(Codes), NEW told \in Seq(Told),
           NEW line \in Lines
    PROVE  StartNode(StateOf("BetweenNodes", <<>>, header, nodes, errors, told), line)
             = StateOf("InNode", <<line>>, header, nodes, errors, Join(told, <<NodeEvent("NodeStarted", line.val)>>))
  <1> DEFINE e == NodeEvent("NodeStarted", line.val)
             a == Append(told, e)
  <1>1. a = Join(told, <<e>>)
    <2>1. e \in Told
      BY DEF Told, Marks, Lines
    <2> QED
      BY <2>1, AppendJoins
  <1>2. Append(<<>>, line) = <<line>>
    OBVIOUS
  <1> DEFINE s == StateOf("BetweenNodes", <<>>, header, nodes, errors, told)
             p == [header |-> header, nodes |-> nodes, errors |-> errors]
  <1>4. s = [state |-> "BetweenNodes", buffered |-> <<>>, parsed |-> p, events |-> told]
    BY DEF StateOf
  <1>5. s.buffered = <<>> /\ s.events = told
    BY <1>4
  <1> HIDE DEF s, p
  <1>6. StartNode(s, line) = [s EXCEPT !.state = "InNode", !.buffered = <<line>>, !.events = a]
    BY <1>2, <1>5 DEF StartNode
  <1> HIDE DEF a
  <1>7. [s EXCEPT !.state = "InNode", !.buffered = <<line>>, !.events = a]
          = [state |-> "InNode", buffered |-> <<line>>, parsed |-> p, events |-> a]
    <2> DEFINE q == [s EXCEPT !.state = "InNode"]
               r == [s EXCEPT !.state = "InNode", !.buffered = <<line>>]
    <2>1. q = [state |-> "InNode", buffered |-> <<>>, parsed |-> p, events |-> told]
      BY <1>4
    <2>2. r = [q EXCEPT !.buffered = <<line>>]
      OBVIOUS
    <2>3. [s EXCEPT !.state = "InNode", !.buffered = <<line>>, !.events = a] = [r EXCEPT !.events = a]
      OBVIOUS
    <2> HIDE DEF q
    <2>4. [q EXCEPT !.buffered = <<line>>] = [state |-> "InNode", buffered |-> <<line>>, parsed |-> p, events |-> told]
      BY <2>1
    <2>5. r = [state |-> "InNode", buffered |-> <<line>>, parsed |-> p, events |-> told]
      BY <2>2, <2>4
    <2> HIDE DEF r
    <2>6. [r EXCEPT !.events = a] = [state |-> "InNode", buffered |-> <<line>>, parsed |-> p, events |-> a]
      BY <2>5
    <2> QED
      BY <2>3, <2>6
  <1>3. StartNode(s, line) = StateOf("InNode", <<line>>, header, nodes, errors, a)
    BY <1>6, <1>7 DEF StateOf, p
  <1> QED
    BY <1>1, <1>3 DEF s

-------------------------------------------------------------------------------
(***************************************************************************)
(* What a list of events tells                                             *)
(***************************************************************************)

\* finish reports a file without nodes, and makes the header if there is none.
LEMMA FinishedLeaves ==
    ASSUME NEW s, IsState(s), NEW h, h = ParseHeader(<<>>, 1)
    PROVE  Finished(s) =
             StateOf("Done", s.buffered, IF s.parsed.header = <<>> THEN <<h.header>> ELSE s.parsed.header,
                     s.parsed.nodes,
                     Join(Join(s.parsed.errors, IF s.parsed.nodes = <<>> THEN <<"P008">> ELSE <<>>),
                          IF s.parsed.header = <<>> THEN h.errors ELSE <<>>),
                     Join(Join(s.events, IF s.parsed.nodes = <<>> THEN <<Event("Error")>> ELSE <<>>),
                          <<Event("EndOfFile")>>))
  <1> DEFINE p == s.parsed
             x == IF p.header = <<>> THEN <<h.header>> ELSE p.header
             a == Join(Join(p.errors, IF p.nodes = <<>> THEN <<"P008">> ELSE <<>>),
                       IF p.header = <<>> THEN h.errors ELSE <<>>)
             b == Join(Join(s.events, IF p.nodes = <<>> THEN <<Event("Error")>> ELSE <<>>), <<Event("EndOfFile")>>)
             q == [s EXCEPT !.state = "Done"]
             r == [s EXCEPT !.state = "Done", !.events = b]
             t == [s EXCEPT !.state = "Done", !.events = b, !.parsed.errors = a]
             y == [p EXCEPT !.errors = a]
             u == [s EXCEPT !.state = "Done", !.events = b, !.parsed.errors = a,
                            !.parsed.header = IF p.header = <<>> THEN <<h.header>> ELSE @]
  <1>1. Finished(s) = u
    BY Zenon DEF Finished, Join
  <1> HIDE DEF a, b
  <1> DEFINE c == s.state
             d == s.buffered
             e == p.header
             f == p.nodes
             g == p.errors
             k == s.events
  <1>2. s = [state |-> c, buffered |-> d, parsed |-> p, events |-> k]
    BY DEF IsState
  <1>3. p = [header |-> e, nodes |-> f, errors |-> g]
    BY DEF IsState, IsParsed
  <1>4. u = [t EXCEPT !.parsed.header = IF p.header = <<>> THEN <<h.header>> ELSE @]
    OBVIOUS
  <1>5. t = [r EXCEPT !.parsed.errors = a]
    OBVIOUS
  <1>6. r = [q EXCEPT !.events = b]
    OBVIOUS
  <1> HIDE DEF u, t, r, x, c, d, e, f, g, k, p
  <1>7. q = [state |-> "Done", buffered |-> d, parsed |-> p, events |-> k]
    BY <1>2
  <1> HIDE DEF q
  <1>8. r = [state |-> "Done", buffered |-> d, parsed |-> p, events |-> b]
    BY <1>6, <1>7
  <1>9. y = [header |-> e, nodes |-> f, errors |-> a]
    BY <1>3
  <1>10. t = [r EXCEPT !.parsed = y]
    BY <1>5, <1>8
  <1> HIDE DEF y
  <1>11. t = [state |-> "Done", buffered |-> d, parsed |-> y, events |-> b]
    BY <1>8, <1>10
  <1> DEFINE z == [y EXCEPT !.header = x]
  <1>12. z = [header |-> x, nodes |-> f, errors |-> a]
    BY <1>9
  <1>13. t.parsed = y /\ y.header = p.header
    BY <1>3, <1>9, <1>11
  <1>14. (IF p.header = <<>> THEN <<h.header>> ELSE t.parsed.header) = x
    BY <1>13 DEF x
  <1>15. u = [t EXCEPT !.parsed = [t.parsed EXCEPT !.header = IF p.header = <<>> THEN <<h.header>> ELSE t.parsed.header]]
    BY <1>4
  <1>16. u = [t EXCEPT !.parsed = z]
    BY <1>13, <1>14, <1>15
  <1> HIDE DEF z
  <1>17. u = [state |-> "Done", buffered |-> d, parsed |-> z, events |-> b]
    BY <1>11, <1>16
  <1>18. Finished(s) = StateOf("Done", d, x, f, a, b)
    BY <1>1, <1>12, <1>17 DEF StateOf
  <1> QED
    BY <1>18 DEF d, x, f, a, b, p

Turns == {"NodeStarted", "NodeComplete"}
Firsts == {"NodeStarted", "HeaderComplete"}

InTurn(nodes) ==
    \A i \in 1 .. Len(nodes) :
        /\ nodes[i].event = (IF i % 2 = 1 THEN "NodeStarted" ELSE "NodeComplete")
        /\ i % 2 = 0 => nodes[i].id = nodes[i - 1].id

Headed(first) == \A i \in 1 .. Len(first) : (first[i].event = "HeaderComplete") = (i = 1)

\* A list of events with c nodes, open = 1 if one more has started under id, e errors; headed if the
\* header was told.
Tells(told, c, open, id, headed, e) ==
    /\ told \in Seq(Told) /\ c \in Nat /\ open \in {0, 1} /\ e \in Nat
    /\ InTurn(Only(told, Turns)) /\ Len(Only(told, Turns)) = 2 * c + open
    /\ open = 1 => Only(told, Turns)[2 * c + 1].id = id
    /\ Len(Only(told, {"NodeComplete"})) = c
    /\ Headed(Only(told, Firsts)) /\ (headed <=> Only(told, Firsts) # <<>>)
    /\ Len(Only(told, {"Error"})) = e

\* Nothing told tells nothing.
LEMMA NothingTold == \A id : Tells(<<>>, 0, 0, id, FALSE, 0)
  <1>1. \A what : Only(<<>>, what) = <<>>
    BY OnlyOne
  <1>2. <<>> \in Seq(Told) /\ Len(<<>>) = 0 /\ InTurn(<<>>) /\ Headed(<<>>)
    BY EmptySeq DEF InTurn, Headed
  <1> QED
    BY <1>1, <1>2 DEF Tells

\* n is m with x at its end.
Longer(m, n, x) ==
    /\ Len(n) = Len(m) + 1 /\ (\A i \in 1 .. Len(m) : n[i] = m[i]) /\ n[Len(m) + 1] = x /\ n # <<>>

\* One more event is chosen, or is not.
LEMMA OneTold ==
    ASSUME NEW told \in Seq(Told), NEW e \in Told, NEW what
    PROVE  /\ Only(told, what) \in Seq(Told)
           /\ e.event \in what =>
                /\ Only(Join(told, <<e>>), what) = Join(Only(told, what), <<e>>)
                /\ Len(Only(Join(told, <<e>>), what)) = Len(Only(told, what)) + 1
                /\ \A i \in 1 .. Len(Only(told, what)) : Only(Join(told, <<e>>), what)[i] = Only(told, what)[i]
                /\ Only(Join(told, <<e>>), what)[Len(Only(told, what)) + 1] = e
                /\ Only(Join(told, <<e>>), what) # <<>>
           /\ e.event \notin what => Only(Join(told, <<e>>), what) = Only(told, what)
           /\ Join(told, <<e>>) \in Seq(Told)
  <1> DEFINE one == <<e>>
             s == Only(told, what)
             t == Only(Join(told, one), what)
  <1>1. one \in Seq(Told) /\ Len(one) = 1 /\ one[1] = e
    OBVIOUS
  <1>2. Only(one, what) = Pick(e, what)
    BY OnlyOne
  <1>3. s \in Seq(Told)
    BY OnlyType
  <1>4. t = Join(s, Only(one, what))
    <2> HIDE DEF one
    <2> QED
      BY <1>1, OnlyJoin
  <1>5. Join(told, one) \in Seq(Told)
    <2> HIDE DEF one
    <2> QED
      BY <1>1, JoinLists
  <1>6. ASSUME e.event \in what
        PROVE  /\ t = Join(s, one) /\ Len(t) = Len(s) + 1 /\ \A i \in 1 .. Len(s) : t[i] = s[i]
               /\ t[Len(s) + 1] = e /\ t # <<>>
    <2>1. t = Join(s, one)
      BY <1>2, <1>4, <1>6 DEF Pick
    <2> HIDE DEF one, t, s
    <2>2. Len(t) = Len(s) + Len(one)
      BY <1>1, <1>3, <2>1, JoinLists
    <2>3. \A i \in 1 .. Len(s) : t[i] = s[i]
      BY <1>1, <1>3, <2>1, JoinLists
    <2>4. \A i \in 1 .. Len(one) : Join(s, one)[Len(s) + i] = one[i]
      BY <1>1, <1>3, JoinedAfter
    <2>5. t[Len(s) + 1] = e
      BY <1>1, <2>1, <2>4
    <2>6. Len(s) \in Nat
      BY <1>3, LenProperties
    <2>7. t # <<>>
      BY <1>1, <2>2, <2>6
    <2> QED
      BY <1>1, <2>1, <2>2, <2>3, <2>5, <2>7
  <1>7. ASSUME e.event \notin what PROVE t = s
    <2>1. t = Join(s, <<>>)
      BY <1>2, <1>4, <1>7 DEF Pick
    <2> QED
      BY <1>3, <2>1, JoinFacts
  <1> QED
    BY <1>3, <1>5, <1>6, <1>7

\* Errors told after the rest add up, and change nothing else.
LEMMA ErrorsTell ==
    ASSUME NEW told, NEW c, NEW open, NEW id, NEW headed, NEW e, Tells(told, c, open, id, headed, e),
           NEW errors \in Seq(Codes)
    PROVE  Tells(Join(told, ErrorEvents(errors)), c, open, id, headed, e + Len(errors))
  <1> DEFINE more == ErrorEvents(errors)
             t == Join(told, more)
  <1>1. told \in Seq(Told) /\ c \in Nat /\ e \in Nat /\ Len(errors) \in Nat
    BY LenProperties DEF Tells
  <1>2. /\ more \in Seq(Told) /\ \A what : "Error" \notin what => Only(more, what) = <<>>
        /\ Len(Only(more, {"Error"})) = Len(errors)
    BY ErrorsTold
  <1> HIDE DEF more
  <1>3. t \in Seq(Told) /\ \A what : Only(t, what) = Join(Only(told, what), Only(more, what))
    <2>1. t \in Seq(Told)
      BY <1>1, <1>2, JoinLists
    <2>2. \A what : Only(t, what) = Join(Only(told, what), Only(more, what))
      BY <1>1, <1>2, OnlyJoin
    <2> QED
      BY <2>1, <2>2
  <1>4. \A what : "Error" \notin what => Only(t, what) = Only(told, what)
    <2> SUFFICES ASSUME NEW what, "Error" \notin what PROVE Only(t, what) = Only(told, what)
      OBVIOUS
    <2>1. Only(t, what) = Join(Only(told, what), <<>>) /\ Only(told, what) \in Seq(Told)
      BY <1>1, <1>2, <1>3, OnlyType
    <2> QED
      BY <2>1, JoinFacts
  <1>5. Len(Only(t, {"Error"})) = e + Len(errors)
    <2> DEFINE a == Only(told, {"Error"})
               b == Only(more, {"Error"})
    <2>1. a \in Seq(Told) /\ b \in Seq(Told) /\ Len(a) = e /\ Len(b) = Len(errors)
      BY <1>1, <1>2, OnlyType DEF Tells
    <2>2. Only(t, {"Error"}) = Join(a, b)
      BY <1>3
    <2> HIDE DEF a, b
    <2>3. Len(Join(a, b)) = Len(a) + Len(b)
      BY <2>1, JoinLists
    <2> QED
      BY <2>1, <2>2, <2>3
  <1>6. "Error" \notin Turns /\ "Error" \notin Firsts /\ "Error" \notin {"NodeComplete"}
    BY DEF Turns, Firsts
  <1> HIDE DEF t
  <1>7. /\ Only(t, Turns) = Only(told, Turns) /\ Only(t, Firsts) = Only(told, Firsts)
        /\ Only(t, {"NodeComplete"}) = Only(told, {"NodeComplete"})
    BY <1>4, <1>6
  <1>8. e + Len(errors) \in Nat
    BY <1>1
  <1>9. Tells(t, c, open, id, headed, e + Len(errors))
    BY <1>3, <1>5, <1>7, <1>8 DEF Tells
  <1> QED
    BY <1>9 DEF t, more

\* So does one error; the end of the file is none.
LEMMA ErrorTells ==
    ASSUME NEW told, NEW c, NEW open, NEW id, NEW headed, NEW e, Tells(told, c, open, id, headed, e)
    PROVE  /\ Tells(Join(told, <<Event("Error")>>), c, open, id, headed, e + 1)
           /\ Tells(Join(told, <<Event("EndOfFile")>>), c, open, id, headed, e)
  <1> DEFINE x == Event("Error")
             y == Event("EndOfFile")
  <1>1. x \in Told /\ y \in Told /\ x.event = "Error" /\ y.event = "EndOfFile"
    BY DEF Told, Marks, Event
  <1>2. /\ "Error" \notin Turns /\ "Error" \notin Firsts /\ "Error" \notin {"NodeComplete"} /\ "Error" \in {"Error"}
        /\ "EndOfFile" \notin Turns /\ "EndOfFile" \notin Firsts /\ "EndOfFile" \notin {"NodeComplete"}
        /\ "EndOfFile" \notin {"Error"}
    BY DEF Turns, Firsts
  <1>3. told \in Seq(Told) /\ e \in Nat
    BY DEF Tells
  <1> HIDE DEF x, y
  <1>4. Tells(Join(told, <<x>>), c, open, id, headed, e + 1)
    <2> DEFINE t == Join(told, <<x>>)
    <2>1. /\ Only(t, Turns) = Only(told, Turns) /\ Only(t, Firsts) = Only(told, Firsts)
          /\ Only(t, {"NodeComplete"}) = Only(told, {"NodeComplete"})
      BY <1>1, <1>2, <1>3, OneTold
    <2>2. Len(Only(t, {"Error"})) = Len(Only(told, {"Error"})) + 1 /\ t \in Seq(Told)
      BY <1>1, <1>2, <1>3, OneTold
    <2> HIDE DEF t
    <2>3. Tells(t, c, open, id, headed, e + 1)
      BY <1>3, <2>1, <2>2 DEF Tells
    <2> QED
      BY <2>3 DEF t
  <1>5. Tells(Join(told, <<y>>), c, open, id, headed, e)
    <2> DEFINE t == Join(told, <<y>>)
    <2>1. /\ Only(t, Turns) = Only(told, Turns) /\ Only(t, Firsts) = Only(told, Firsts)
          /\ Only(t, {"NodeComplete"}) = Only(told, {"NodeComplete"}) /\ Only(t, {"Error"}) = Only(told, {"Error"})
          /\ t \in Seq(Told)
      BY <1>1, <1>2, <1>3, OneTold
    <2> HIDE DEF t
    <2>3. Tells(t, c, open, id, headed, e)
      BY <1>3, <2>1 DEF Tells
    <2> QED
      BY <2>3 DEF t
  <1> QED
    BY <1>4, <1>5 DEF x, y

\* The header is told first.
LEMMA HeaderTells ==
    ASSUME NEW told, NEW old, NEW e, Tells(told, 0, 0, old, FALSE, e), NEW id
    PROVE  Tells(Join(told, <<Event("HeaderComplete")>>), 0, 0, id, TRUE, e)
  <1> DEFINE x == Event("HeaderComplete")
             t == Join(told, <<x>>)
  <1>1. x \in Told /\ x.event = "HeaderComplete"
    BY DEF Told, Marks, Event
  <1>2. /\ "HeaderComplete" \notin Turns /\ "HeaderComplete" \in Firsts
        /\ "HeaderComplete" \notin {"NodeComplete"} /\ "HeaderComplete" \notin {"Error"}
    BY DEF Turns, Firsts
  <1>3. told \in Seq(Told) /\ Only(told, Firsts) = <<>>
    BY DEF Tells
  <1> HIDE DEF x
  <1>0. \A what :
                 /\ "HeaderComplete" \in what => Longer(Only(told, what), Only(t, what), x)
                 /\ "HeaderComplete" \notin what => Only(t, what) = Only(told, what)
    <2>1. x \in Told /\ x.event = "HeaderComplete" /\ told \in Seq(Told)
      BY <1>1, <1>3
    <2> QED
      BY <2>1, OneTold DEF Longer
  <1>00. t \in Seq(Told)
    <2>1. x \in Told /\ told \in Seq(Told)
      BY <1>1, <1>3
    <2> QED
      BY <2>1, OneTold
  <1>4. /\ Only(t, Turns) = Only(told, Turns) /\ t \in Seq(Told)
        /\ Only(t, {"NodeComplete"}) = Only(told, {"NodeComplete"}) /\ Only(t, {"Error"}) = Only(told, {"Error"})
    BY <1>0, <1>00, <1>2
  <1>5. /\ Len(Only(t, Firsts)) = Len(Only(told, Firsts)) + 1
        /\ Only(t, Firsts)[Len(Only(told, Firsts)) + 1] = x /\ Only(t, Firsts) # <<>>
    <2>1. Longer(Only(told, Firsts), Only(t, Firsts), x)
      BY <1>0, <1>2
    <2> QED
      BY <2>1 DEF Longer
  <1>6. Len(Only(t, Firsts)) = 1 /\ Only(t, Firsts)[1] = x
    <2>1. Len(<<>>) = 0
      OBVIOUS
    <2> QED
      BY <1>3, <1>5, <2>1
  <1>7. Headed(Only(t, Firsts))
    BY <1>1, <1>6 DEF Headed
  <1> HIDE DEF t
  <1>8. Tells(t, 0, 0, id, TRUE, e)
    BY <1>4, <1>5, <1>7 DEF Tells
  <1> QED
    BY <1>8 DEF t, x

\* A node is started when the one before is complete.
LEMMA StartTells ==
    ASSUME NEW told, NEW c, NEW old, NEW e, Tells(told, c, 0, old, TRUE, e), NEW id \in Seq(STRING)
    PROVE  Tells(Join(told, <<NodeEvent("NodeStarted", id)>>), c, 1, id, TRUE, e)
  <1> DEFINE x == NodeEvent("NodeStarted", id)
             t == Join(told, <<x>>)
             m == Only(told, Turns)
             n == Only(t, Turns)
             f == Only(told, Firsts)
             g == Only(t, Firsts)
  <1>1. x \in Told /\ x.event = "NodeStarted" /\ x.id = id
    BY DEF Told, Marks, NodeEvent
  <1>2. /\ "NodeStarted" \in Turns /\ "NodeStarted" \in Firsts
        /\ "NodeStarted" \notin {"NodeComplete"} /\ "NodeStarted" \notin {"Error"}
    BY DEF Turns, Firsts
  <1>3. told \in Seq(Told) /\ c \in Nat /\ InTurn(m) /\ Len(m) = 2 * c /\ Headed(f) /\ f # <<>>
    BY DEF Tells
  <1> HIDE DEF x
  <1>0. \A what :
                 /\ "NodeStarted" \in what => Longer(Only(told, what), Only(t, what), x)
                 /\ "NodeStarted" \notin what => Only(t, what) = Only(told, what)
    <2>1. x \in Told /\ x.event = "NodeStarted" /\ told \in Seq(Told)
      BY <1>1, <1>3
    <2> QED
      BY <2>1, OneTold DEF Longer
  <1>00. t \in Seq(Told)
    <2>1. x \in Told /\ told \in Seq(Told)
      BY <1>1, <1>3
    <2> QED
      BY <2>1, OneTold
  <1>4. /\ t \in Seq(Told)
        /\ Only(t, {"NodeComplete"}) = Only(told, {"NodeComplete"}) /\ Only(t, {"Error"}) = Only(told, {"Error"})
    BY <1>0, <1>00, <1>2
  <1>5. /\ Len(n) = Len(m) + 1 /\ (\A i \in 1 .. Len(m) : n[i] = m[i]) /\ n[Len(m) + 1] = x
    <2>1. Longer(m, n, x)
      BY <1>0, <1>2
    <2> HIDE DEF m, n, f, g
    <2> QED
      BY <2>1 DEF Longer
  <1>6. /\ Len(g) = Len(f) + 1 /\ (\A i \in 1 .. Len(f) : g[i] = f[i]) /\ g[Len(f) + 1] = x /\ g # <<>>
    <2>1. Longer(f, g, x)
      BY <1>0, <1>2
    <2> HIDE DEF m, n, f, g
    <2> QED
      BY <2>1 DEF Longer
  <1>7. Len(f) \in Nat /\ Len(f) # 0
    <2>1. f \in Seq(Told)
      BY <1>3, OnlyType
    <2> HIDE DEF f
    <2> QED
      BY <1>3, <2>1, LenProperties, EmptySeq
  <1> HIDE DEF t, m, n, f, g
  <1>8. InTurn(n)
    <2> SUFFICES ASSUME NEW i \in 1 .. Len(n)
                 PROVE  /\ n[i].event = (IF i % 2 = 1 THEN "NodeStarted" ELSE "NodeComplete")
                        /\ i % 2 = 0 => n[i].id = n[i - 1].id
      BY DEF InTurn
    <2>1. CASE i \in 1 .. Len(m)
      <3>1. /\ m[i].event = (IF i % 2 = 1 THEN "NodeStarted" ELSE "NodeComplete")
            /\ i % 2 = 0 => m[i].id = m[i - 1].id
        BY <1>3, <2>1 DEF InTurn
      <3>2. i % 2 = 0 => i - 1 \in 1 .. Len(m)
        BY <1>3, <2>1
      <3> QED
        BY <1>5, <2>1, <3>1, <3>2
    <2>2. CASE i = 2 * c + 1
      <3>1. i % 2 = 1
        BY <1>3, <2>2
      <3> QED
        BY <1>1, <1>3, <1>5, <2>2, <3>1
    <2> QED
      BY <1>3, <1>5, <2>1, <2>2
  <1>9. Headed(g)
    <2> SUFFICES ASSUME NEW i \in 1 .. Len(g) PROVE (g[i].event = "HeaderComplete") = (i = 1)
      BY DEF Headed
    <2>1. CASE i \in 1 .. Len(f)
      BY <1>3, <1>6, <2>1 DEF Headed
    <2>2. CASE i = Len(f) + 1
      BY <1>1, <1>6, <1>7, <2>2
    <2> QED
      BY <1>6, <1>7, <2>1, <2>2
  <1>10. Len(n) = 2 * c + 1 /\ n[2 * c + 1].id = id
    BY <1>1, <1>3, <1>5
  <1>11. Tells(t, c, 1, id, TRUE, e)
    BY <1>4, <1>6, <1>8, <1>9, <1>10 DEF Tells, n, g
  <1> QED
    BY <1>11 DEF t, x

\* A node is completed under the id it was started with.
LEMMA CompleteTells ==
    ASSUME NEW told, NEW c, NEW id \in Seq(STRING), NEW e, Tells(told, c, 1, id, TRUE, e), NEW other
    PROVE  Tells(Join(told, <<NodeEvent("NodeComplete", id)>>), c + 1, 0, other, TRUE, e)
  <1> DEFINE x == NodeEvent("NodeComplete", id)
             t == Join(told, <<x>>)
             m == Only(told, Turns)
             n == Only(t, Turns)
             f == Only(told, {"NodeComplete"})
             g == Only(t, {"NodeComplete"})
  <1>1. x \in Told /\ x.event = "NodeComplete" /\ x.id = id
    BY DEF Told, Marks, NodeEvent
  <1>2. /\ "NodeComplete" \in Turns /\ "NodeComplete" \notin Firsts
        /\ "NodeComplete" \in {"NodeComplete"} /\ "NodeComplete" \notin {"Error"}
    BY DEF Turns, Firsts
  <1>3. told \in Seq(Told) /\ c \in Nat /\ InTurn(m) /\ Len(m) = 2 * c + 1 /\ Len(f) = c /\ m[2 * c + 1].id = id
    BY DEF Tells
  <1> HIDE DEF x
  <1>0. \A what :
                 /\ "NodeComplete" \in what => Longer(Only(told, what), Only(t, what), x)
                 /\ "NodeComplete" \notin what => Only(t, what) = Only(told, what)
    <2>1. x \in Told /\ x.event = "NodeComplete" /\ told \in Seq(Told)
      BY <1>1, <1>3
    <2> QED
      BY <2>1, OneTold DEF Longer
  <1>00. t \in Seq(Told)
    <2>1. x \in Told /\ told \in Seq(Told)
      BY <1>1, <1>3
    <2> QED
      BY <2>1, OneTold
  <1>4. t \in Seq(Told) /\ Only(t, Firsts) = Only(told, Firsts) /\ Only(t, {"Error"}) = Only(told, {"Error"})
    BY <1>0, <1>00, <1>2
  <1>5. /\ Len(n) = Len(m) + 1 /\ (\A i \in 1 .. Len(m) : n[i] = m[i]) /\ n[Len(m) + 1] = x
    <2>1. Longer(m, n, x)
      BY <1>0, <1>2
    <2> HIDE DEF m, n, f, g
    <2> QED
      BY <2>1 DEF Longer
  <1>6. Len(g) = Len(f) + 1
    <2>1. Longer(f, g, x)
      BY <1>0, <1>2
    <2> HIDE DEF m, n, f, g
    <2> QED
      BY <2>1 DEF Longer
  <1> HIDE DEF t, m, n, f, g
  <1>8. InTurn(n)
    <2> SUFFICES ASSUME NEW i \in 1 .. Len(n)
                 PROVE  /\ n[i].event = (IF i % 2 = 1 THEN "NodeStarted" ELSE "NodeComplete")
                        /\ i % 2 = 0 => n[i].id = n[i - 1].id
      BY DEF InTurn
    <2>1. CASE i \in 1 .. Len(m)
      <3>1. /\ m[i].event = (IF i % 2 = 1 THEN "NodeStarted" ELSE "NodeComplete")
            /\ i % 2 = 0 => m[i].id = m[i - 1].id
        BY <1>3, <2>1 DEF InTurn
      <3>2. i % 2 = 0 => i - 1 \in 1 .. Len(m)
        BY <1>3, <2>1
      <3> QED
        BY <1>5, <2>1, <3>1, <3>2
    <2>2. CASE i = 2 * c + 2
      <3>1. i % 2 = 0 /\ i % 2 # 1 /\ i - 1 = 2 * c + 1 /\ 2 * c + 1 \in 1 .. Len(m) /\ Len(m) + 1 = i
        BY <1>3, <2>2
      <3>2. n[i] = x /\ n[i - 1] = m[2 * c + 1]
        BY <1>5, <3>1
      <3> QED
        BY <1>1, <1>3, <3>1, <3>2
    <2>3. i \in 1 .. Len(m) \/ i = 2 * c + 2
      BY <1>3, <1>5
    <2> QED
      BY <2>1, <2>2, <2>3
  <1>9. Len(n) = 2 * (c + 1) + 0 /\ Len(g) = c + 1 /\ c + 1 \in Nat
    BY <1>3, <1>5, <1>6
  <1>10. Tells(t, c + 1, 0, other, TRUE, e)
    BY <1>4, <1>8, <1>9 DEF Tells, n, g
  <1> QED
    BY <1>10 DEF t, x

-------------------------------------------------------------------------------
(***************************************************************************)
(* What has been parsed is what the batch parser parses up to the same line*)
(***************************************************************************)

\* The header, nodes and errors are those of the file up to its line d.
AllOf(ls, header, nodes, errors, d) ==
    LET whole == ParseHeader(ls, 1)
    IN /\ whole.pos \in 1 .. Len(ls) + 1 /\ whole.errors \in Seq(Codes)
       /\ header = <<whole.header>>
       /\ Join(whole.errors, NodesFrom(ls, whole.pos).errors) = Join(errors, NodesFrom(ls, d + 1).errors)
       /\ NodesFrom(ls, whole.pos).found = Join(nodes, NodesFrom(ls, d + 1).found)

\* The buffered header is the header of the file, and all its nodes come after it.
LEMMA HeaderInPlace ==
    ASSUME NEW ls, NEW w, Window(ls, w, 0), \A q \in 1 .. Len(w) : w[q].kind # "node",
           NEW h, h = ParseHeader(w, 1)
    PROVE  AllOf(ls, <<h.header>>, <<>>, h.errors, Len(w)) /\ h.errors \in Seq(Codes)
  <1> DEFINE whole == ParseHeader(ls, 1)
             rest == NodesFrom(ls, Len(w) + 1)
  <1>1. whole.pos = Len(w) + 1 /\ whole.header = h.header /\ whole.errors = h.errors /\ h.errors \in Seq(Codes)
    BY ParseHeaderMoves
  <1>2. Len(w) \in Nat /\ Len(ls) \in Nat /\ 0 + Len(w) <= Len(ls) /\ ls \in Seq(Lines)
    BY WindowFacts DEF Window
  <1>3. Len(w) + 1 \in 1 .. Len(ls) + 1
    BY <1>2
  <1>4. IsSeq(rest.found)
    BY <1>2, <1>3, NodesUnfold
  <1>5. Join(<<>>, rest.found) = rest.found
    BY <1>4, Nothing, SeqsAssociate
  <1> HIDE DEF rest, whole
  <1>6. NodesFrom(ls, whole.pos) = rest
    BY <1>1 DEF rest
  <1>7. AllOf(ls, <<h.header>>, <<>>, h.errors, Len(w))
    BY <1>1, <1>3, <1>5, <1>6 DEF AllOf, whole, rest
  <1> QED
    BY <1>1, <1>7

\* The buffered node is the next of the file.
LEMMA NodeInPlace ==
    ASSUME NEW ls, NEW w, NEW d, Window(ls, w, d), w # <<>>, \A q \in 2 .. Len(w) : w[q].kind # "node",
           NEW header, NEW nodes, IsSeq(nodes), NEW errors \in Seq(Codes), AllOf(ls, header, nodes, errors, d),
           NEW n, n = ParseNode(w, 1)
    PROVE  /\ AllOf(ls, header, Join(nodes, <<n.node>>), Join(errors, n.errors), d + Len(w))
           /\ n.errors \in Seq(Codes) /\ n.node.id = w[1].val
  <1> DEFINE whole == ParseHeader(ls, 1)
             from == NodesFrom(ls, whole.pos)
             here == NodesFrom(ls, d + 1)
             rest == NodesFrom(ls, d + Len(w) + 1)
             one == <<n.node>>
  <1>1. /\ ParseNode(ls, d + 1).pos = d + Len(w) + 1
        /\ ParseNode(ls, d + 1).node = n.node /\ ParseNode(ls, d + 1).errors = n.errors
        /\ IsNode(n.node, w[1].val) /\ n.errors \in Seq(Codes)
    BY ParseNodeMoves
  <1>2. n.node.id = w[1].val
    BY <1>1 DEF IsNode
  <1>3. /\ Len(w) \in Nat /\ Len(ls) \in Nat /\ d \in Nat /\ d + Len(w) <= Len(ls) /\ ls \in Seq(Lines)
        /\ Len(w) # 0
    <2>1. w \in Seq(Lines)
      BY DEF Window
    <2> QED
      BY <2>1, WindowFacts, EmptySeq DEF Window
  <1>4. d + 1 \in 1 .. Len(ls) /\ d + Len(w) + 1 \in 1 .. Len(ls) + 1
    BY <1>3
  <1>5. /\ here.found = Join(<<ParseNode(ls, d + 1).node>>, NodesFrom(ls, ParseNode(ls, d + 1).pos).found)
        /\ here.errors = Join(ParseNode(ls, d + 1).errors, NodesFrom(ls, ParseNode(ls, d + 1).pos).errors)
    BY <1>3, <1>4, NodesUnfold
  <1>6. here.found = Join(one, rest.found) /\ here.errors = Join(n.errors, rest.errors)
    BY <1>1, <1>5
  <1>7. IsSeq(rest.found) /\ rest.errors \in Seq(Codes)
    BY <1>3, <1>4, NodesUnfold
  <1>8. /\ whole.pos \in 1 .. Len(ls) + 1 /\ whole.errors \in Seq(Codes) /\ header = <<whole.header>>
        /\ Join(whole.errors, from.errors) = Join(errors, here.errors)
        /\ from.found = Join(nodes, here.found)
    BY DEF AllOf
  <1>9. IsSeq(one)
    BY OneThing
  <1> HIDE DEF here, rest, from, whole, one
  <1>10. Join(errors, here.errors) = Join(Join(errors, n.errors), rest.errors)
    <2>1. n.errors \in Seq(Codes) /\ rest.errors \in Seq(Codes)
      BY <1>1, <1>7
    <2>2. Join(Join(errors, n.errors), rest.errors) = Join(errors, Join(n.errors, rest.errors))
      BY <2>1, JoinFacts
    <2> QED
      BY <1>6, <2>2
  <1>11. Join(nodes, here.found) = Join(Join(nodes, one), rest.found)
    BY <1>6, <1>7, <1>9, SeqsAssociate
  <1>12. (d + Len(w)) + 1 = d + Len(w) + 1
    BY <1>3
  <1>13. AllOf(ls, header, Join(nodes, one), Join(errors, n.errors), d + Len(w))
    <2>1. Join(whole.errors, from.errors) = Join(Join(errors, n.errors), rest.errors)
      BY <1>8, <1>10
    <2>2. from.found = Join(Join(nodes, one), rest.found)
      BY <1>8, <1>11
    <2> QED
      BY <1>8, <1>12, <2>1, <2>2 DEF AllOf, whole, from, rest
  <1> QED
    BY <1>1, <1>2, <1>13 DEF one

-------------------------------------------------------------------------------
(***************************************************************************)
(* The parser between two lines                                            *)
(***************************************************************************)

\* What is buffered is one section, what is parsed is what comes before it.
Section(s) ==
    /\ s.state \in {"BeforeHeader", "InHeader", "InNode"}
    /\ s.state = "BeforeHeader" => s.buffered = <<>>
    /\ s.state # "InNode" => /\ s.parsed.header = <<>> /\ s.parsed.nodes = <<>>
                             /\ \A q \in 1 .. Len(s.buffered) : s.buffered[q].kind # "node"
    /\ s.state = "InNode" => /\ s.buffered # <<>> /\ s.buffered[1].kind = "node"
                             /\ \A q \in 2 .. Len(s.buffered) : s.buffered[q].kind # "node"
                             /\ \E h : s.parsed.header = <<h>>

\* If the lexer refuses nothing, what is buffered and parsed is all of the first k lines.
Whole(ls, s, k) ==
    /\ s.state # "InNode" => /\ Len(s.buffered) = k /\ s.parsed.errors = <<>>
                             /\ \A q \in 1 .. k : s.buffered[q] = ls[q]
    /\ s.state = "InNode" =>
        \E d \in Nat : /\ d + Len(s.buffered) = k
                       /\ \A q \in 1 .. Len(s.buffered) : s.buffered[q] = ls[d + q]
                       /\ AllOf(ls, s.parsed.header, s.parsed.nodes, s.parsed.errors, d)

AtLeast(errors, refused) == \A code \in Codes : Count(errors, code) >= Count(refused, code)

Good(ls, s, k) ==
    /\ IsState(s) /\ Section(s)
    /\ Tells(s.events, Len(s.parsed.nodes), IF s.state = "InNode" THEN 1 ELSE 0, s.buffered[1].val,
             s.state = "InNode", Len(s.parsed.errors))
    /\ s.state = "BeforeHeader" => \A i \in 1 .. k : ls[i].kind \in LexErrors
    /\ AtLeast(s.parsed.errors, RefusedUpto(ls, k))
    /\ ls \in Seq(Lines) => Whole(ls, s, k)

\* More errors are no fewer of each.
LEMMA MoreErrors ==
    ASSUME NEW errors \in Seq(Codes), NEW more \in Seq(Codes), NEW refused, NEW T, refused \in Seq(T),
           AtLeast(errors, refused)
    PROVE  AtLeast(Join(errors, more), refused) /\ Join(errors, more) \in Seq(Codes)
  <1>1. ASSUME NEW code \in Codes PROVE Count(Join(errors, more), code) >= Count(refused, code)
    <2>1. Count(Join(errors, more), code) = Count(errors, code) + Count(more, code)
      BY CountJoin
    <2>2. Count(errors, code) \in Nat
      BY CountType
    <2>3. Count(more, code) \in Nat
      BY CountType
    <2>4. Count(refused, code) \in Nat
      BY CountType
    <2>5. Count(errors, code) >= Count(refused, code)
      BY DEF AtLeast
    <2> DEFINE a == Count(errors, code)
               b == Count(more, code)
               c == Count(refused, code)
    <2> HIDE DEF a, b, c
    <2>6. a \in Nat /\ b \in Nat /\ c \in Nat /\ a >= c
      BY <2>2, <2>3, <2>4, <2>5 DEF a, b, c
    <2>7. a + b >= c
      BY <2>6
    <2> QED
      BY <2>1, <2>7 DEF a, b, c
  <1>2. Join(errors, more) \in Seq(Codes)
    BY JoinLists
  <1> QED
    BY <1>1, <1>2 DEF AtLeast

\* A refused line is one more in both lists.
LEMMA SameRefusal ==
    ASSUME NEW errors \in Seq(Codes), NEW refused \in Seq(LexErrors), AtLeast(errors, refused),
           NEW c \in LexErrors
    PROVE  AtLeast(Join(errors, <<c>>), Join(refused, <<c>>)) /\ Join(errors, <<c>>) \in Seq(Codes)
  <1> DEFINE one == <<c>>
  <1>1. one \in Seq(LexErrors) /\ one \in Seq(Codes)
    <2>1. c \in Codes
      BY DEF LexErrors, Codes
    <2> QED
      BY <2>1
  <1> HIDE DEF one
  <1>2. ASSUME NEW code \in Codes PROVE Count(Join(errors, one), code) >= Count(Join(refused, one), code)
    <2>1. Count(Join(errors, one), code) = Count(errors, code) + Count(one, code)
      BY <1>1, CountJoin
    <2>2. Count(Join(refused, one), code) = Count(refused, code) + Count(one, code)
      BY <1>1, CountJoin
    <2>3. Count(errors, code) \in Nat
      BY CountType
    <2>4. Count(one, code) \in Nat
      BY <1>1, CountType
    <2>5. Count(refused, code) \in Nat
      BY CountType
    <2>6. Count(errors, code) >= Count(refused, code)
      BY DEF AtLeast
    <2> DEFINE a == Count(errors, code)
               b == Count(one, code)
               d == Count(refused, code)
    <2> HIDE DEF a, b, d
    <2>7. a \in Nat /\ b \in Nat /\ d \in Nat /\ a >= d
      BY <2>3, <2>4, <2>5, <2>6 DEF a, b, d
    <2>8. a + b >= d + b
      BY <2>7
    <2> QED
      BY <2>1, <2>2, <2>8 DEF a, b, d
  <1>3. Join(errors, one) \in Seq(Codes)
    BY <1>1, JoinLists
  <1> QED
    BY <1>2, <1>3 DEF AtLeast, one

-------------------------------------------------------------------------------
(***************************************************************************)
(* A line fed to the parser                                                *)
(***************************************************************************)

\* A line the lexer refuses; the lines are no file then.
LEMMA RefusedFits ==
    ASSUME NEW ls \in Seq(AnyLines), NEW k \in 0 .. Len(ls) - 1, NEW s, Good(ls, s, k),
           ls[k + 1].kind \in LexErrors
    PROVE  Good(ls, Refuse(s, ls[k + 1]), k + 1)
  <1> DEFINE l == ls[k + 1]
             t == Refuse(s, l)
             errors == Join(s.parsed.errors, <<l.kind>>)
             told == Join(s.events, <<Event("Error")>>)
             c == Len(s.parsed.nodes)
             open == IF s.state = "InNode" THEN 1 ELSE 0
             id == s.buffered[1].val
  <1>1. Len(ls) \in Nat /\ k \in Nat /\ k + 1 \in 1 .. Len(ls) /\ k \in 0 .. Len(ls) /\ (k + 1) - 1 = k
    <2>1. Len(ls) \in Nat
      BY LenProperties
    <2> QED
      BY <2>1
  <1>2. IsState(s) /\ Section(s)
    BY DEF Good
  <1>3. t = StateOf(s.state, s.buffered, s.parsed.header, s.parsed.nodes, errors, told)
    BY <1>2, RefuseLeaves
  <1>4. /\ s.parsed.errors \in Seq(Codes) /\ IsSeq(s.parsed.nodes) /\ s.buffered \in Seq(Lines)
    BY <1>2 DEF IsState, IsParsed
  <1>5. RefusedUpto(ls, k + 1) = Join(RefusedUpto(ls, k), <<l.kind>>) /\ RefusedUpto(ls, k) \in Seq(LexErrors)
    <2>1. RefusedUpto(ls, k + 1) = Join(RefusedUpto(ls, (k + 1) - 1), Refusal(l))
      BY <1>1, RefusalsGrow
    <2>2. RefusedUpto(ls, k) \in Seq(LexErrors)
      BY <1>1, RefusalsGrow
    <2> QED
      BY <1>1, <2>1, <2>2 DEF Refusal
  <1>6. AtLeast(s.parsed.errors, RefusedUpto(ls, k))
    BY DEF Good
  <1>7. AtLeast(errors, RefusedUpto(ls, k + 1)) /\ errors \in Seq(Codes)
    BY <1>4, <1>5, <1>6, SameRefusal
  <1>8. Tells(s.events, c, open, id, s.state = "InNode", Len(s.parsed.errors))
    BY DEF Good
  <1>9. Tells(told, c, open, id, s.state = "InNode", Len(s.parsed.errors) + 1)
    BY <1>8, ErrorTells
  <1>10. Len(errors) = Len(s.parsed.errors) + 1
    <2> DEFINE one == <<l.kind>>
    <2>1. one \in Seq(Codes) /\ Len(one) = 1
      BY DEF LexErrors, Codes
    <2> HIDE DEF one
    <2>2. Len(Join(s.parsed.errors, one)) = Len(s.parsed.errors) + Len(one)
      BY <1>4, <2>1, JoinLists
    <2> QED
      BY <2>1, <2>2 DEF one
  <1>11. told \in Seq(Told)
    BY <1>9 DEF Tells
  <1> HIDE DEF t, errors, told, c, open, id
  <1>12. /\ t.state = s.state /\ t.buffered = s.buffered /\ t.parsed.header = s.parsed.header
         /\ t.parsed.nodes = s.parsed.nodes /\ t.parsed.errors = errors /\ t.events = told
         /\ IsState(t)
    BY <1>3, <1>4, <1>7, <1>11, StateFields
  <1>13. Section(t)
    BY <1>2, <1>12 DEF Section
  <1>14. Tells(t.events, Len(t.parsed.nodes), IF t.state = "InNode" THEN 1 ELSE 0, t.buffered[1].val,
               t.state = "InNode", Len(t.parsed.errors))
    BY <1>9, <1>10, <1>12 DEF c, open, id
  <1>15. ASSUME t.state = "BeforeHeader", NEW i \in 1 .. k + 1 PROVE ls[i].kind \in LexErrors
    <2>1. CASE i \in 1 .. k
      BY <1>12, <1>15, <2>1 DEF Good
    <2>2. CASE i = k + 1
      BY <2>2
    <2> QED
      BY <1>1, <2>1, <2>2
  <1>16. ls \notin Seq(Lines)
    <2> SUFFICES ASSUME ls \in Seq(Lines) PROVE FALSE
      OBVIOUS
    <2>1. l \in Lines
      BY <1>1, SeqFacts
    <2> QED
      BY <2>1 DEF Lines, Kinds, LexErrors
  <1>17. Good(ls, t, k + 1)
    BY <1>7, <1>12, <1>13, <1>14, <1>15, <1>16 DEF Good
  <1> QED
    BY <1>17 DEF t

\* A line the lexer accepts refuses nothing.
LEMMA NothingNew ==
    ASSUME NEW ls \in Seq(AnyLines), NEW k \in 0 .. Len(ls) - 1, ls[k + 1].kind \notin LexErrors
    PROVE  RefusedUpto(ls, k + 1) = RefusedUpto(ls, k) /\ RefusedUpto(ls, k) \in Seq(LexErrors)
           /\ k + 1 \in 1 .. Len(ls) /\ k \in Nat /\ k \in 0 .. Len(ls) /\ Len(ls) \in Nat
           /\ ls[k + 1] \in Lines
  <1>1. Len(ls) \in Nat
    BY LenProperties
  <1>2. k \in Nat /\ k + 1 \in 1 .. Len(ls) /\ k \in 0 .. Len(ls) /\ (k + 1) - 1 = k
    BY <1>1
  <1>3. RefusedUpto(ls, k + 1) = Join(RefusedUpto(ls, (k + 1) - 1), Refusal(ls[k + 1]))
    BY <1>2, RefusalsGrow
  <1>4. RefusedUpto(ls, k) \in Seq(LexErrors)
    BY <1>2, RefusalsGrow
  <1>5. Refusal(ls[k + 1]) = <<>>
    BY DEF Refusal
  <1>6. Join(RefusedUpto(ls, k), <<>>) = RefusedUpto(ls, k)
    BY <1>4, JoinFacts
  <1>7. ls[k + 1] \in Lines
    BY <1>2, SeqFacts, AcceptedLine
  <1>8. RefusedUpto(ls, k + 1) = RefusedUpto(ls, k)
    BY <1>2, <1>3, <1>5, <1>6
  <1> QED
    BY <1>1, <1>2, <1>4, <1>7, <1>8

\* A line that goes on with the section.
LEMMA MoreFits ==
    ASSUME NEW ls \in Seq(AnyLines), NEW k \in 0 .. Len(ls) - 1, NEW s, Good(ls, s, k),
           ls[k + 1].kind \notin LexErrors, ls[k + 1].kind # "node"
    PROVE  Good(ls, Step(s, ls[k + 1]), k + 1)
  <1> DEFINE l == ls[k + 1]
             t == Step(s, l)
             where == IF s.state = "InNode" THEN "InNode" ELSE "InHeader"
             one == <<l>>
             more == Join(s.buffered, one)
             n == Len(s.buffered)
  <1>1. /\ RefusedUpto(ls, k + 1) = RefusedUpto(ls, k)
        /\ k + 1 \in 1 .. Len(ls) /\ k \in Nat /\ k \in 0 .. Len(ls) /\ Len(ls) \in Nat /\ l \in Lines
    BY NothingNew
  <1>2. IsState(s) /\ Section(s)
    BY DEF Good
  <1>3. t = StateOf(where, more, s.parsed.header, s.parsed.nodes, s.parsed.errors, s.events)
    <2>1. s.state \in {"BeforeHeader", "InHeader", "InNode"}
      BY <1>2 DEF Section
    <2> HIDE DEF l
    <2> QED
      BY <1>1, <1>2, <2>1, MoreLeaves DEF l
  <1>4. /\ s.parsed.errors \in Seq(Codes) /\ IsSeq(s.parsed.nodes) /\ s.buffered \in Seq(Lines)
        /\ s.events \in Seq(Told)
    BY <1>2 DEF IsState, IsParsed
  <1>5. one \in Seq(Lines) /\ Len(one) = 1 /\ one[1] = l
    BY <1>1
  <1> HIDE DEF one, l
  <1>6. /\ more \in Seq(Lines) /\ Len(more) = n + 1 /\ n \in Nat
        /\ \A q \in 1 .. n : more[q] = s.buffered[q]
        /\ more[n + 1] = l
    <2>1. more \in Seq(Lines)
      BY <1>4, <1>5, JoinLists
    <2>2. Len(more) = n + Len(one)
      BY <1>4, <1>5, JoinLists
    <2>3. \A q \in 1 .. n : more[q] = s.buffered[q]
      BY <1>4, <1>5, JoinLists
    <2>4. \A q \in 1 .. Len(one) : more[n + q] = one[q]
      <3>1. one \in Seq(Lines) /\ s.buffered \in Seq(Lines)
        BY <1>4, <1>5
      <3> QED
        BY <3>1, JoinedAfter
    <2>5. n \in Nat
      BY <1>4, LenProperties
    <2> QED
      BY <1>5, <2>1, <2>2, <2>3, <2>4, <2>5
  <1> HIDE DEF t, more, n, where
  <1>7. /\ t.state = where /\ t.buffered = more /\ t.parsed.header = s.parsed.header
        /\ t.parsed.nodes = s.parsed.nodes /\ t.parsed.errors = s.parsed.errors /\ t.events = s.events
        /\ IsState(t)
    BY <1>3, <1>4, <1>6, StateFields
  <1>8. (t.state = "InNode") = (s.state = "InNode") /\ t.state \in {"InHeader", "InNode"}
    BY <1>7 DEF where
  <1>9. l.kind # "node"
    BY DEF l
  <1>10. Section(t)
    <2>1. CASE s.state = "InNode"
      <3>1. /\ s.buffered # <<>> /\ s.buffered[1].kind = "node"
            /\ \A q \in 2 .. n : s.buffered[q].kind # "node"
            /\ \E h : s.parsed.header = <<h>>
        BY <1>2, <2>1 DEF Section, n
      <3>2. n # 0
        BY <1>4, <3>1, EmptySeq DEF n
      <3>3. more # <<>> /\ more[1] = s.buffered[1]
        BY <1>6, <3>2
      <3>4. \A q \in 2 .. n + 1 : more[q].kind # "node"
        <4> SUFFICES ASSUME NEW q \in 2 .. n + 1 PROVE more[q].kind # "node"
          OBVIOUS
        <4>1. CASE q = n + 1
          BY <1>6, <1>9, <4>1
        <4>2. CASE q # n + 1
          <5>1. q \in 2 .. n /\ q \in 1 .. n
            BY <1>6, <4>2
          <5> QED
            BY <1>6, <3>1, <5>1
        <4> QED
          BY <4>1, <4>2
      <3> QED
        BY <1>6, <1>7, <1>8, <2>1, <3>1, <3>3, <3>4 DEF Section
    <2>2. CASE s.state # "InNode"
      <3>1. /\ s.parsed.header = <<>> /\ s.parsed.nodes = <<>>
            /\ \A q \in 1 .. n : s.buffered[q].kind # "node"
        BY <1>2, <2>2 DEF Section, n
      <3>4. \A q \in 1 .. n + 1 : more[q].kind # "node"
        <4> SUFFICES ASSUME NEW q \in 1 .. n + 1 PROVE more[q].kind # "node"
          OBVIOUS
        <4>1. CASE q = n + 1
          BY <1>6, <1>9, <4>1
        <4>2. CASE q # n + 1
          <5>1. q \in 1 .. n
            BY <1>6, <4>2
          <5> QED
            BY <1>6, <3>1, <5>1
        <4> QED
          BY <4>1, <4>2
      <3> QED
        BY <1>6, <1>7, <1>8, <2>2, <3>1, <3>4 DEF Section
    <2> QED
      BY <2>1, <2>2
  <1>11. Tells(t.events, Len(t.parsed.nodes), IF t.state = "InNode" THEN 1 ELSE 0, t.buffered[1].val,
               t.state = "InNode", Len(t.parsed.errors))
    <2>1. Tells(s.events, Len(s.parsed.nodes), IF s.state = "InNode" THEN 1 ELSE 0, s.buffered[1].val,
                s.state = "InNode", Len(s.parsed.errors))
      BY DEF Good
    <2>2. CASE s.state = "InNode"
      <3>1. n # 0
        <4>1. s.buffered # <<>>
          BY <1>2, <2>2 DEF Section
        <4> QED
          BY <1>4, <4>1, EmptySeq DEF n
      <3>2. more[1] = s.buffered[1]
        BY <1>6, <3>1
      <3> QED
        BY <1>7, <1>8, <2>1, <2>2, <3>2
    <2>3. CASE s.state # "InNode"
      <3>1. Tells(s.events, Len(s.parsed.nodes), 0, s.buffered[1].val, FALSE, Len(s.parsed.errors))
        BY <2>1, <2>3
      <3>2. Tells(s.events, Len(s.parsed.nodes), 0, more[1].val, FALSE, Len(s.parsed.errors))
        BY <3>1 DEF Tells
      <3> QED
        BY <1>7, <1>8, <2>3, <3>2
    <2> QED
      BY <2>2, <2>3
  <1>12. AtLeast(t.parsed.errors, RefusedUpto(ls, k + 1))
    BY <1>1, <1>7 DEF Good
  <1>13. ASSUME ls \in Seq(Lines) PROVE Whole(ls, t, k + 1)
    <2>0. Whole(ls, s, k)
      BY <1>13 DEF Good
    <2>1. CASE s.state = "InNode"
      <3>1. PICK d \in Nat : /\ d + n = k
                             /\ \A q \in 1 .. n : s.buffered[q] = ls[d + q]
                             /\ AllOf(ls, s.parsed.header, s.parsed.nodes, s.parsed.errors, d)
        BY <2>0, <2>1 DEF Whole, n
      <3>2. d + (n + 1) = k + 1
        BY <1>1, <1>6, <3>1
      <3>3. \A q \in 1 .. n + 1 : more[q] = ls[d + q]
        <4> SUFFICES ASSUME NEW q \in 1 .. n + 1 PROVE more[q] = ls[d + q]
          OBVIOUS
        <4>1. CASE q = n + 1
          BY <1>6, <3>2, <4>1 DEF l
        <4>2. CASE q # n + 1
          <5>1. q \in 1 .. n
            BY <1>6, <4>2
          <5> QED
            BY <1>6, <3>1, <5>1
        <4> QED
          BY <4>1, <4>2
      <3>4. \E x \in Nat : /\ x + Len(more) = k + 1
                           /\ \A q \in 1 .. Len(more) : more[q] = ls[x + q]
                           /\ AllOf(ls, s.parsed.header, s.parsed.nodes, s.parsed.errors, x)
        BY <1>6, <3>1, <3>2, <3>3
      <3> QED
        BY <1>7, <1>8, <2>1, <3>4 DEF Whole
    <2>2. CASE s.state # "InNode"
      <3>1. n = k /\ s.parsed.errors = <<>> /\ \A q \in 1 .. k : s.buffered[q] = ls[q]
        BY <2>0, <2>2 DEF Whole, n
      <3>2. \A q \in 1 .. k + 1 : more[q] = ls[q]
        <4> SUFFICES ASSUME NEW q \in 1 .. k + 1 PROVE more[q] = ls[q]
          OBVIOUS
        <4>1. CASE q = k + 1
          BY <1>6, <3>1, <4>1 DEF l
        <4>2. CASE q # k + 1
          <5>1. q \in 1 .. k
            BY <1>1, <4>2
          <5> QED
            BY <1>6, <3>1, <5>1
        <4> QED
          BY <4>1, <4>2
      <3> QED
        BY <1>6, <1>7, <1>8, <2>2, <3>1, <3>2 DEF Whole
    <2> QED
      BY <2>1, <2>2
  <1>14. Good(ls, t, k + 1)
    BY <1>7, <1>8, <1>10, <1>11, <1>12, <1>13 DEF Good
  <1> QED
    BY <1>14 DEF t, l

-------------------------------------------------------------------------------
(***************************************************************************)
(* A section closed                                                        *)
(***************************************************************************)

\* After the section has been closed, d lines of the file are parsed.
Closed(ls, s, d) ==
    /\ s = StateOf("BetweenNodes", <<>>, s.parsed.header, s.parsed.nodes, s.parsed.errors, s.events)
    /\ IsState(s) /\ \E h : s.parsed.header = <<h>>
    /\ \A id : Tells(s.events, Len(s.parsed.nodes), 0, id, TRUE, Len(s.parsed.errors))
    /\ AtLeast(s.parsed.errors, RefusedUpto(ls, d))
    /\ ls \in Seq(Lines) => AllOf(ls, s.parsed.header, s.parsed.nodes, s.parsed.errors, d)

\* The header parsed, whether the caller is told that it is complete or not.
HeaderOver(ls, s, d, told) ==
    /\ IsState(s) /\ s.buffered = <<>> /\ \E h : s.parsed.header = <<h>>
    /\ s.parsed.nodes = <<>>
    /\ Tells(told, 0, 0, "", FALSE, Len(s.parsed.errors))
    /\ AtLeast(s.parsed.errors, RefusedUpto(ls, d))
    /\ ls \in Seq(Lines) => AllOf(ls, s.parsed.header, <<>>, s.parsed.errors, d)

\* The fields of a state between two nodes.
LEMMA ClosedFields ==
    ASSUME NEW header, NEW nodes, IsSeq(nodes), NEW errors \in Seq(Codes), NEW told \in Seq(Told),
           NEW s, s = StateOf("BetweenNodes", <<>>, header, nodes, errors, told)
    PROVE  /\ s.state = "BetweenNodes" /\ s.buffered = <<>> /\ s.parsed.header = header
           /\ s.parsed.nodes = nodes /\ s.parsed.errors = errors /\ s.events = told
           /\ IsState(s)
  <1>1. <<>> \in Seq(Lines)
    BY EmptySeq
  <1> QED
    BY <1>1 DEF StateOf, IsState, IsParsed

\* A header alone reports codes only.
LEMMA HeaderErrors ==
    ASSUME NEW w \in Seq(Lines), \A q \in 1 .. Len(w) : w[q].kind # "node"
    PROVE  ParseHeader(w, 1).errors \in Seq(Codes)
  <1>1. Window(w, w, 0)
    BY WholeIsWindow
  <1> QED
    BY <1>1, ParseHeaderMoves

\* A node alone reports codes only and keeps the id of its declaration.
LEMMA NodeErrors ==
    ASSUME NEW w \in Seq(Lines), w # <<>>, \A q \in 2 .. Len(w) : w[q].kind # "node"
    PROVE  ParseNode(w, 1).errors \in Seq(Codes) /\ ParseNode(w, 1).node.id = w[1].val
  <1>1. Window(w, w, 0)
    BY WholeIsWindow
  <1> DEFINE n == ParseNode(w, 1)
  <1>2. n.errors \in Seq(Codes) /\ IsNode(n.node, w[1].val)
    BY <1>1, ParseNodeMoves
  <1> HIDE DEF n
  <1>3. n.node.id = w[1].val
    BY <1>2 DEF IsNode
  <1> QED
    BY <1>2, <1>3 DEF n

\* Events joined are events.
LEMMA EventsJoin ==
    ASSUME NEW s \in Seq(Told), NEW t \in Seq(Told)
    PROVE  Join(s, t) \in Seq(Told)
  BY JoinLists

\* The header flushed at line k, which ends it.
LEMMA HeaderCloses ==
    ASSUME NEW ls \in Seq(AnyLines), NEW k \in 0 .. Len(ls), NEW s, Good(ls, s, k), s.state # "InNode",
           k < Len(ls) => ls[k + 1].kind = "node", NEW event \in Seq(Told)
    PROVE  /\ FlushHeader(s, event).events
                = Join(Join(s.events, ErrorEvents(ParseHeader(s.buffered, 1).errors)), event)
           /\ HeaderOver(ls, FlushHeader(s, event), k,
                         Join(s.events, ErrorEvents(ParseHeader(s.buffered, 1).errors)))
           /\ FlushHeader(s, event).state = "BetweenNodes"
  <1> DEFINE w == s.buffered
             h == ParseHeader(w, 1)
             t == FlushHeader(s, event)
             errors == Join(s.parsed.errors, h.errors)
             told == Join(s.events, ErrorEvents(h.errors))
             all == Join(told, event)
  <1>1. IsState(s) /\ Section(s) /\ Len(ls) \in Nat /\ k \in Nat /\ k <= Len(ls)
    <2>1. Len(ls) \in Nat
      BY LenProperties
    <2> QED
      BY <2>1 DEF Good
  <1>2. /\ s.parsed.errors \in Seq(Codes) /\ s.buffered \in Seq(Lines) /\ s.events \in Seq(Told)
    BY <1>1 DEF IsState, IsParsed
  <1>3. /\ s.parsed.header = <<>> /\ s.parsed.nodes = <<>>
        /\ \A q \in 1 .. Len(w) : w[q].kind # "node"
    BY <1>1 DEF Section
  <1>4. h.errors \in Seq(Codes)
    BY <1>2, <1>3, HeaderErrors
  <1>5. t = StateOf("BetweenNodes", <<>>, <<h.header>>, s.parsed.nodes, errors, all)
    BY <1>1, HeaderLeaves
  <1> HIDE DEF h, t, errors
  <1>6. ErrorEvents(h.errors) \in Seq(Told)
    BY <1>4, ErrorsTold
  <1>7. told \in Seq(Told)
    BY <1>2, <1>6, EventsJoin
  <1> HIDE DEF told
  <1>8. all \in Seq(Told)
    BY <1>7, EventsJoin
  <1> HIDE DEF all
  <1>9. AtLeast(errors, RefusedUpto(ls, k)) /\ errors \in Seq(Codes)
    <2>1. AtLeast(s.parsed.errors, RefusedUpto(ls, k))
      BY DEF Good
    <2>2. RefusedUpto(ls, k) \in Seq(LexErrors)
      BY RefusalsGrow
    <2>3. AtLeast(Join(s.parsed.errors, h.errors), RefusedUpto(ls, k)) /\ Join(s.parsed.errors, h.errors) \in Seq(Codes)
      BY <1>2, <1>4, <2>1, <2>2, MoreErrors
    <2> QED
      BY <2>3 DEF errors
  <1>10. IsSeq(<<>>) /\ <<>> \in Seq(Lines)
    BY Nothing, EmptySeq
  <1>11. /\ t.state = "BetweenNodes" /\ t.buffered = <<>> /\ t.parsed.header = <<h.header>>
         /\ t.parsed.nodes = <<>> /\ t.parsed.errors = errors /\ t.events = all /\ IsState(t)
    <2> DEFINE head == <<h.header>>
               nodes == s.parsed.nodes
    <2>1. t = StateOf("BetweenNodes", <<>>, head, nodes, errors, all) /\ IsSeq(nodes) /\ nodes = <<>>
      BY <1>3, <1>5, <1>10
    <2> HIDE DEF head, nodes
    <2>2. /\ t.state = "BetweenNodes" /\ t.buffered = <<>> /\ t.parsed.header = head
          /\ t.parsed.nodes = nodes /\ t.parsed.errors = errors /\ t.events = all
          /\ IsState(t)
      BY <1>8, <1>9, <2>1, ClosedFields
    <2> QED
      BY <2>1, <2>2 DEF head
  <1>12. Tells(told, 0, 0, "", FALSE, Len(errors))
    <2>1. Tells(s.events, Len(s.parsed.nodes), IF s.state = "InNode" THEN 1 ELSE 0, s.buffered[1].val,
               s.state = "InNode", Len(s.parsed.errors))
      BY DEF Good
    <2>2. Len(s.parsed.nodes) = 0
      BY <1>3
    <2>3. Tells(s.events, 0, 0, w[1].val, FALSE, Len(s.parsed.errors))
      BY <2>1, <2>2
    <2> HIDE DEF w
    <2>4. Tells(s.events, 0, 0, "", FALSE, Len(s.parsed.errors))
      BY <2>3 DEF Tells
    <2>5. Tells(Join(s.events, ErrorEvents(h.errors)), 0, 0, "", FALSE, Len(s.parsed.errors) + Len(h.errors))
      BY <1>4, <2>4, ErrorsTell
    <2>6. Len(errors) = Len(s.parsed.errors) + Len(h.errors)
      <3>1. Len(Join(s.parsed.errors, h.errors)) = Len(s.parsed.errors) + Len(h.errors)
        BY <1>2, <1>4, JoinLists
      <3> QED
        BY <3>1 DEF errors
    <2> QED
      BY <2>5, <2>6 DEF told
  <1>13. ASSUME ls \in Seq(Lines) PROVE AllOf(ls, <<h.header>>, <<>>, errors, k)
    <2>1. Len(w) = k /\ s.parsed.errors = <<>> /\ \A q \in 1 .. k : w[q] = ls[q]
      BY <1>13 DEF Good, Whole
    <2>2. \A q \in 1 .. Len(w) : w[q] = ls[0 + q]
      BY <2>1
    <2>3. 0 + Len(w) <= Len(ls) /\ 0 + Len(w) = k
      BY <1>1, <2>1
    <2>4. Window(ls, w, 0)
      BY <1>2, <1>13, <2>2, <2>3 DEF Window
    <2> HIDE DEF w
    <2>5. AllOf(ls, <<h.header>>, <<>>, h.errors, Len(w))
      <3>1. h = ParseHeader(w, 1)
        BY DEF h
      <3> QED
        BY <1>3, <2>4, <3>1, HeaderInPlace
    <2>6. Join(<<>>, h.errors) = h.errors
      BY <1>4, JoinFacts
    <2>7. errors = h.errors
      BY <2>1, <2>6 DEF errors
    <2> QED
      BY <2>1, <2>5, <2>7
  <1>14. HeaderOver(ls, t, k, told)
    BY <1>9, <1>11, <1>12, <1>13 DEF HeaderOver
  <1> QED
    BY <1>11, <1>14 DEF t, all, told, h

\* The caller is told.
LEMMA HeaderToldCloses ==
    ASSUME NEW ls \in Seq(AnyLines), NEW k \in 0 .. Len(ls), NEW s, Good(ls, s, k), s.state # "InNode",
           k < Len(ls) => ls[k + 1].kind = "node"
    PROVE  Closed(ls, FlushHeader(s, <<Event("HeaderComplete")>>), k)
  <1> DEFINE event == <<Event("HeaderComplete")>>
             t == FlushHeader(s, event)
             told == Join(s.events, ErrorEvents(ParseHeader(s.buffered, 1).errors))
  <1>1. event \in Seq(Told)
    <2>1. Event("HeaderComplete") \in Told
      BY DEF Told, Marks
    <2> QED
      BY <2>1
  <1> HIDE DEF event
  <1>2. t.events = Join(told, event) /\ HeaderOver(ls, t, k, told) /\ t.state = "BetweenNodes"
    BY <1>1, HeaderCloses
  <1> HIDE DEF t, told
  <1>3. \A id : Tells(Join(told, event), 0, 0, id, TRUE, Len(t.parsed.errors))
    BY <1>2, HeaderTells DEF HeaderOver, event
  <1>4. Len(t.parsed.nodes) = 0 /\ IsState(t) /\ t.buffered = <<>>
    BY <1>2 DEF HeaderOver
  <1>5. t = StateOf("BetweenNodes", <<>>, t.parsed.header, t.parsed.nodes, t.parsed.errors, t.events)
    BY <1>2, <1>4, FieldsState
  <1>6. \A id : Tells(t.events, Len(t.parsed.nodes), 0, id, TRUE, Len(t.parsed.errors))
    BY <1>2, <1>3, <1>4
  <1>7. /\ IsState(t) /\ \E h : t.parsed.header = <<h>>
        /\ AtLeast(t.parsed.errors, RefusedUpto(ls, k))
        /\ ls \in Seq(Lines) => AllOf(ls, t.parsed.header, t.parsed.nodes, t.parsed.errors, k)
    BY <1>2 DEF HeaderOver
  <1>8. Closed(ls, t, k)
    BY <1>5, <1>6, <1>7 DEF Closed
  <1> QED
    BY <1>8 DEF t, event

\* The node flushed at line k, which ends it.
LEMMA NodeCloses ==
    ASSUME NEW ls \in Seq(AnyLines), NEW k \in 0 .. Len(ls), NEW s, Good(ls, s, k), s.state = "InNode",
           k < Len(ls) => ls[k + 1].kind = "node"
    PROVE  Closed(ls, FlushNode(s), k) /\ FlushNode(s).parsed.nodes # <<>>
  <1> DEFINE w == s.buffered
             n == ParseNode(w, 1)
             t == FlushNode(s)
             one == <<n.node>>
             errors == Join(s.parsed.errors, n.errors)
             nodes == Join(s.parsed.nodes, one)
             x == NodeEvent("NodeComplete", n.node.id)
             told == Join(s.events, ErrorEvents(n.errors))
             all == Join(told, <<x>>)
  <1>1. IsState(s) /\ Section(s) /\ Len(ls) \in Nat /\ k \in Nat /\ k <= Len(ls)
    <2>1. Len(ls) \in Nat
      BY LenProperties
    <2> QED
      BY <2>1 DEF Good
  <1>2. /\ s.parsed.errors \in Seq(Codes) /\ s.buffered \in Seq(Lines) /\ s.events \in Seq(Told)
        /\ IsSeq(s.parsed.nodes)
    BY <1>1 DEF IsState, IsParsed
  <1>3. /\ w # <<>> /\ \A q \in 2 .. Len(w) : w[q].kind # "node"
        /\ \E h : s.parsed.header = <<h>>
    BY <1>1 DEF Section
  <1>4. n.errors \in Seq(Codes) /\ n.node.id = w[1].val
    BY <1>2, <1>3, NodeErrors
  <1>5. w[1].val \in Seq(STRING)
    <2>1. 1 \in 1 .. Len(w)
      <3>1. Len(w) \in Nat /\ Len(w) # 0
        BY <1>2, <1>3, LenProperties, EmptySeq
      <3> QED
        BY <3>1
    <2>2. w[1] \in Lines
      BY <1>2, <2>1, SeqFacts
    <2> QED
      BY <2>2 DEF Lines
  <1>6. t = StateOf("BetweenNodes", <<>>, s.parsed.header, nodes, errors, all)
    BY <1>1, NodeLeaves
  <1>7. IsSeq(one) /\ IsSeq(<<>>) /\ <<>> \in Seq(Lines)
    BY OneThing, Nothing, EmptySeq
  <1>8. IsSeq(nodes) /\ nodes # <<>> /\ Len(nodes) = Len(s.parsed.nodes) + 1 /\ Len(s.parsed.nodes) \in Nat
    <2>1. PICK V : s.parsed.nodes \in Seq(V)
      BY <1>2 DEF IsSeq
    <2> DEFINE T == V \cup {n.node}
    <2>2. V \subseteq T /\ n.node \in T
      OBVIOUS
    <2> HIDE DEF T
    <2>3. s.parsed.nodes \in Seq(T) /\ one \in Seq(T) /\ Len(one) = 1
      BY <2>1, <2>2, SeqMonotonic
    <2> HIDE DEF one
    <2>4. nodes \in Seq(T)
      BY <2>3, JoinLists
    <2>5. Len(nodes) = Len(s.parsed.nodes) + Len(one)
      BY <2>3, JoinLists
    <2>6. Len(s.parsed.nodes) \in Nat
      BY <2>3, LenProperties
    <2> HIDE DEF nodes
    <2>7. nodes # <<>>
      BY <2>3, <2>5, <2>6
    <2> QED
      BY <2>3, <2>4, <2>5, <2>6, <2>7 DEF IsSeq
  <1> HIDE DEF n, t, errors, nodes, one
  <1>9. ErrorEvents(n.errors) \in Seq(Told)
    BY <1>4, ErrorsTold
  <1>10. told \in Seq(Told)
    BY <1>2, <1>9, EventsJoin
  <1>11. x \in Told
    BY <1>4, <1>5 DEF Told, Marks
  <1> HIDE DEF told, x
  <1>12. all \in Seq(Told)
    <2>1. <<x>> \in Seq(Told)
      BY <1>11
    <2> QED
      BY <1>10, <2>1, EventsJoin
  <1> HIDE DEF all
  <1>13. AtLeast(errors, RefusedUpto(ls, k)) /\ errors \in Seq(Codes)
    <2>1. AtLeast(s.parsed.errors, RefusedUpto(ls, k))
      BY DEF Good
    <2>2. RefusedUpto(ls, k) \in Seq(LexErrors)
      BY RefusalsGrow
    <2>3. AtLeast(Join(s.parsed.errors, n.errors), RefusedUpto(ls, k)) /\ Join(s.parsed.errors, n.errors) \in Seq(Codes)
      BY <1>2, <1>4, <2>1, <2>2, MoreErrors
    <2> QED
      BY <2>3 DEF errors
  <1>14. /\ t.state = "BetweenNodes" /\ t.buffered = <<>> /\ t.parsed.header = s.parsed.header
         /\ t.parsed.nodes = nodes /\ t.parsed.errors = errors /\ t.events = all /\ IsState(t)
    <2> DEFINE head == s.parsed.header
    <2>1. t = StateOf("BetweenNodes", <<>>, head, nodes, errors, all)
      BY <1>6
    <2> HIDE DEF head
    <2>2. /\ t.state = "BetweenNodes" /\ t.buffered = <<>> /\ t.parsed.header = head
          /\ t.parsed.nodes = nodes /\ t.parsed.errors = errors /\ t.events = all
          /\ IsState(t)
      BY <1>8, <1>12, <1>13, <2>1, ClosedFields
    <2> QED
      BY <2>2 DEF head
  <1>15. \A id : Tells(all, Len(nodes), 0, id, TRUE, Len(errors))
    <2> DEFINE c == Len(s.parsed.nodes)
               old == w[1].val
               e == Len(s.parsed.errors) + Len(n.errors)
    <2>1. Tells(s.events, c, 1, old, TRUE, Len(s.parsed.errors))
      BY DEF Good
    <2> HIDE DEF old
    <2>2. Tells(Join(s.events, ErrorEvents(n.errors)), c, 1, old, TRUE, e)
      BY <1>4, <2>1, ErrorsTell
    <2>3. Len(errors) = e
      <3>1. Len(Join(s.parsed.errors, n.errors)) = Len(s.parsed.errors) + Len(n.errors)
        BY <1>2, <1>4, JoinLists
      <3> QED
        BY <3>1 DEF errors
    <2>4. Tells(told, c, 1, old, TRUE, Len(errors))
      BY <2>2, <2>3 DEF told
    <2>5. old \in Seq(STRING) /\ x = NodeEvent("NodeComplete", old)
      BY <1>4, <1>5 DEF old, x
    <2> HIDE DEF c, e
    <2>6. \A id : Tells(Join(told, <<NodeEvent("NodeComplete", old)>>), c + 1, 0, id, TRUE, Len(errors))
      BY <2>4, <2>5, CompleteTells
    <2>7. \A id : Tells(all, c + 1, 0, id, TRUE, Len(errors))
      BY <2>5, <2>6 DEF all
    <2> QED
      BY <1>8, <2>7 DEF c
  <1>16. ASSUME ls \in Seq(Lines) PROVE AllOf(ls, s.parsed.header, nodes, errors, k)
    <2>1. PICK d \in Nat : /\ d + Len(w) = k
                           /\ \A q \in 1 .. Len(w) : w[q] = ls[d + q]
                           /\ AllOf(ls, s.parsed.header, s.parsed.nodes, s.parsed.errors, d)
      BY <1>16 DEF Good, Whole
    <2>2. Window(ls, w, d)
      <3>1. d + Len(w) <= Len(ls)
        BY <1>1, <2>1
      <3>2. d + Len(w) < Len(ls) => ls[d + Len(w) + 1].kind = "node"
        BY <2>1
      <3> QED
        BY <1>2, <1>16, <2>1, <3>1, <3>2 DEF Window
    <2> HIDE DEF w
    <2>3. AllOf(ls, s.parsed.header, Join(s.parsed.nodes, <<n.node>>), Join(s.parsed.errors, n.errors), d + Len(w))
      <3>1. n = ParseNode(w, 1)
        BY DEF n
      <3> QED
        BY <1>2, <1>3, <2>1, <2>2, <3>1, NodeInPlace
    <2> QED
      BY <2>1, <2>3 DEF nodes, errors, one
  <1>17. t = StateOf("BetweenNodes", <<>>, t.parsed.header, t.parsed.nodes, t.parsed.errors, t.events)
    BY <1>14, FieldsState
  <1>18. Closed(ls, t, k)
    BY <1>3, <1>13, <1>14, <1>15, <1>16, <1>17 DEF Closed
  <1> QED
    BY <1>8, <1>14, <1>18 DEF t

-------------------------------------------------------------------------------
(***************************************************************************)
(* The lines of a chunk                                                    *)
(***************************************************************************)

\* A declaration closes the section before it and starts its own.
LEMMA NodeFits ==
    ASSUME NEW ls \in Seq(AnyLines), NEW k \in 0 .. Len(ls) - 1, NEW s, Good(ls, s, k),
           ls[k + 1].kind \notin LexErrors, ls[k + 1].kind = "node"
    PROVE  Good(ls, Step(s, ls[k + 1]), k + 1)
  <1> DEFINE l == ls[k + 1]
             c == SectionClosed(s)
             t == StartNode(c, l)
             x == NodeEvent("NodeStarted", l.val)
             told == Join(c.events, <<x>>)
             one == <<l>>
  <1>1. /\ RefusedUpto(ls, k + 1) = RefusedUpto(ls, k)
        /\ k + 1 \in 1 .. Len(ls) /\ k \in Nat /\ k \in 0 .. Len(ls) /\ Len(ls) \in Nat /\ l \in Lines
    BY NothingNew
  <1>2. s.state \in {"BeforeHeader", "InHeader", "InNode"}
    BY DEF Good, Section
  <1>3. Closed(ls, c, k)
    <2>1. CASE s.state = "InNode"
      <3>1. Closed(ls, FlushNode(s), k)
        BY <1>1, <2>1, NodeCloses
      <3>2. c = FlushNode(s)
        BY <2>1 DEF SectionClosed
      <3> QED
        BY <3>1, <3>2
    <2>2. CASE s.state # "InNode"
      <3>1. Closed(ls, FlushHeader(s, <<Event("HeaderComplete")>>), k)
        BY <1>1, <2>2, HeaderToldCloses
      <3>2. s.state # "BetweenNodes"
        BY <1>2
      <3>3. c = FlushHeader(s, <<Event("HeaderComplete")>>)
        BY <2>2, <3>2 DEF SectionClosed
      <3> QED
        BY <3>1, <3>3
    <2> QED
      BY <2>1, <2>2
  <1>4. Step(s, l) = t
    BY DEF Step
  <1> HIDE DEF c
  <1> DEFINE header == c.parsed.header
             nodes == c.parsed.nodes
             errors == c.parsed.errors
             old == c.events
  <1>5. /\ c = StateOf("BetweenNodes", <<>>, header, nodes, errors, old)
        /\ IsState(c) /\ \E h : header = <<h>>
        /\ \A id : Tells(old, Len(nodes), 0, id, TRUE, Len(errors))
        /\ AtLeast(errors, RefusedUpto(ls, k))
        /\ ls \in Seq(Lines) => AllOf(ls, header, nodes, errors, k)
    BY <1>3 DEF Closed
  <1>6. IsSeq(nodes) /\ errors \in Seq(Codes) /\ old \in Seq(Told)
    BY <1>5 DEF IsState, IsParsed
  <1>7. told = Join(old, <<x>>)
    OBVIOUS
  <1> HIDE DEF header, nodes, errors, old, told
  <1>8. t = StateOf("InNode", one, header, nodes, errors, told)
    <2> HIDE DEF l
    <2>1. StartNode(StateOf("BetweenNodes", <<>>, header, nodes, errors, old), l)
            = StateOf("InNode", <<l>>, header, nodes, errors, Join(old, <<NodeEvent("NodeStarted", l.val)>>))
      BY <1>1, <1>6, StartLeaves
    <2> QED
      BY <1>5, <1>7, <2>1
  <1>9. one \in Seq(Lines) /\ Len(one) = 1 /\ one[1] = l /\ one # <<>>
    BY <1>1
  <1>10. l.val \in Seq(STRING) /\ l.kind = "node"
    BY <1>1 DEF Lines
  <1>11. x \in Told
    BY <1>10 DEF Told, Marks
  <1>12. Tells(told, Len(nodes), 1, l.val, TRUE, Len(errors))
    <2> DEFINE v == l.val
    <2>1. Tells(old, Len(nodes), 0, v, TRUE, Len(errors)) /\ v \in Seq(STRING)
      BY <1>5, <1>10
    <2> HIDE DEF v
    <2>2. Tells(Join(old, <<NodeEvent("NodeStarted", v)>>), Len(nodes), 1, v, TRUE, Len(errors))
      BY <2>1, StartTells
    <2> QED
      BY <1>7, <2>2 DEF v
  <1>13. told \in Seq(Told)
    BY <1>12 DEF Tells
  <1> HIDE DEF t, one, l, x
  <1>14. /\ t.state = "InNode" /\ t.buffered = one /\ t.parsed.header = header
         /\ t.parsed.nodes = nodes /\ t.parsed.errors = errors /\ t.events = told
         /\ IsState(t)
    BY <1>6, <1>8, <1>9, <1>13 DEF StateOf, IsState, IsParsed
  <1>15. Section(t)
    <2>1. \A q \in 2 .. Len(t.buffered) : t.buffered[q].kind # "node"
      <3>1. Len(t.buffered) = 1 /\ \A q \in 2 .. 1 : FALSE
        BY <1>9, <1>14
      <3> QED
        BY <3>1
    <2>2. t.buffered # <<>> /\ t.buffered[1].kind = "node"
      BY <1>9, <1>10, <1>14
    <2>3. \E h : t.parsed.header = <<h>>
      BY <1>5, <1>14
    <2> QED
      BY <1>14, <2>1, <2>2, <2>3 DEF Section
  <1>16. Tells(t.events, Len(t.parsed.nodes), IF t.state = "InNode" THEN 1 ELSE 0, t.buffered[1].val,
               t.state = "InNode", Len(t.parsed.errors))
    BY <1>9, <1>12, <1>14
  <1>17. ASSUME ls \in Seq(Lines) PROVE Whole(ls, t, k + 1)
    <2>1. /\ k + Len(one) = k + 1
          /\ \A q \in 1 .. Len(one) : one[q] = ls[k + q]
          /\ AllOf(ls, header, nodes, errors, k)
      BY <1>1, <1>5, <1>9, <1>17 DEF l
    <2>2. \E d \in Nat : /\ d + Len(one) = k + 1
                         /\ \A q \in 1 .. Len(one) : one[q] = ls[d + q]
                         /\ AllOf(ls, header, nodes, errors, d)
      BY <1>1, <2>1
    <2> QED
      BY <1>14, <2>2 DEF Whole
  <1>18. Good(ls, t, k + 1)
    BY <1>1, <1>5, <1>14, <1>15, <1>16, <1>17 DEF Good
  <1> QED
    BY <1>4, <1>18 DEF t, l

\* Every line fed keeps the parser in step with its lines.
LEMMA LineFits ==
    ASSUME NEW ls \in Seq(AnyLines), NEW k \in 0 .. Len(ls) - 1, NEW s, Good(ls, s, k)
    PROVE  Good(ls, Fed(s, ls[k + 1]), k + 1)
  <1>1. CASE ls[k + 1].kind \in LexErrors
    BY <1>1, RefusedFits DEF Fed
  <1>2. CASE ls[k + 1].kind \notin LexErrors /\ ls[k + 1].kind = "node"
    BY <1>2, NodeFits DEF Fed
  <1>3. CASE ls[k + 1].kind \notin LexErrors /\ ls[k + 1].kind # "node"
    BY <1>3, MoreFits DEF Fed
  <1> QED
    BY <1>1, <1>2, <1>3

\* All the lines of a chunk.
LEMMA DrainedFits ==
    ASSUME doc \in Seq(RawLines), NEW from \in 0 .. Len(doc), NEW upto \in from .. Len(doc),
           NEW s, Good(LinesIn(doc), s, from)
    PROVE  Good(LinesIn(doc), Drained(s, from, upto), upto)
  <1> DEFINE ls == LinesIn(doc)
             n == Len(doc)
  <1>1. ls \in Seq(AnyLines) /\ Len(ls) = n /\ n \in Nat
    BY LinesInType, LenProperties
  <1>2. \A k \in 1 .. n : ls[k] = ClassifyLine(LinesOf(doc)[k])
    BY LinesInType
  <1> HIDE DEF ls, n
  <1>3. from \in Nat /\ upto \in Nat /\ from <= upto /\ upto <= n
    BY <1>1 DEF n
  <1>40. PICK f : Feeds(f, s, from, upto)
    BY <1>3, FeedSteps
  <1>4. /\ f[from] = s /\ Drained(s, from, upto) = f[upto]
        /\ \A k \in from + 1 .. upto : f[k] = Fed(f[k - 1], ClassifyLine(LinesOf(doc)[k]))
    BY <1>40 DEF Feeds
  <1> DEFINE Bad == {k \in from .. upto : ~Good(ls, f[k], k)}
  <1>5. ASSUME Bad # {} PROVE FALSE
    <2>1. Bad \in SUBSET Nat
      BY <1>3
    <2>2. PICK k \in Bad : \A j \in Bad : k <= j
      BY <1>5, <2>1, LeastNumber
    <2>3. Good(ls, f[from], from)
      BY <1>4 DEF ls
    <2>4. k \in from .. upto /\ k # from
      BY <2>2, <2>3
    <2>5. k \in from + 1 .. upto /\ k \in 1 .. n /\ k - 1 \in from .. upto /\ k - 1 \notin Bad
      BY <1>1, <1>3, <2>2, <2>4
    <2> DEFINE j == k - 1
    <2>6. j \in 0 .. Len(ls) - 1 /\ j + 1 = k /\ j \in from .. upto /\ j \notin Bad
      BY <1>1, <1>3, <2>5
    <2>7. f[k] = Fed(f[j], ls[k])
      BY <1>2, <1>4, <2>5
    <2> HIDE DEF j
    <2>8. Good(ls, f[j], j)
      BY <2>6
    <2>9. Good(ls, Fed(f[j], ls[j + 1]), j + 1)
      BY <1>1, <2>6, <2>8, LineFits
    <2> QED
      BY <2>2, <2>6, <2>7, <2>9
  <1>6. upto \in from .. upto
    BY <1>3
  <1>7. Good(ls, f[upto], upto)
    BY <1>5, <1>6
  <1> QED
    BY <1>4, <1>7 DEF ls

-------------------------------------------------------------------------------
(***************************************************************************)
(* What the end of the text leaves                                         *)
(***************************************************************************)

NoNodes(nodes) == IF nodes = <<>> THEN <<"P008">> ELSE <<>>

\* The header, nodes and errors are those the batch parser makes of the file.
SameFile(ls, header, nodes, errors) ==
    LET whole == ParseHeader(ls, 1)
        body == NodesFrom(ls, whole.pos)
    IN /\ header = <<whole.header>> /\ nodes = body.found
       /\ whole.errors \in Seq(Codes) /\ body.errors \in Seq(Codes)
       /\ SameErrors(errors, Join(Join(whole.errors, body.errors), NoNodes(nodes)))

\* The caller was told of all the nodes, of the end, and of the errors unless every line was refused.
AllTold(ls, told, nodes, errors) ==
    /\ \E some \in Seq(Told) : told = Join(some, <<Event("EndOfFile")>>)
    /\ \E id, headed, e : /\ Tells(told, Len(nodes), 0, id, headed, e)
                          /\ (\E i \in 1 .. Len(ls) : ls[i].kind \notin LexErrors) => e = Len(errors)

Ends(ls, u) ==
    /\ u.state = "Done" /\ IsState(u) /\ u.buffered = <<>> /\ \E h : u.parsed.header = <<h>>
    /\ AllTold(ls, u.events, u.parsed.nodes, u.parsed.errors)
    /\ AtLeast(u.parsed.errors, RefusedUpto(ls, Len(ls)))
    /\ ls \in Seq(Lines) => SameFile(ls, u.parsed.header, u.parsed.nodes, u.parsed.errors)

\* P008 is one of the codes.
LEMMA NoNodesType == \A nodes : NoNodes(nodes) \in Seq(Codes)
  <1>1. "P008" \in Codes
    BY DEF Codes
  <1>2. <<>> \in Seq(Codes)
    BY EmptySeq
  <1> QED
    BY <1>1, <1>2 DEF NoNodes

\* The fields of a state at the end.
LEMMA DoneState ==
    ASSUME NEW header, NEW nodes, IsSeq(nodes), NEW errors \in Seq(Codes), NEW told \in Seq(Told),
           NEW u, u = StateOf("Done", <<>>, header, nodes, errors, told)
    PROVE  /\ u.state = "Done" /\ IsState(u) /\ u.buffered = <<>> /\ u.parsed.header = header
           /\ u.parsed.nodes = nodes /\ u.parsed.errors = errors /\ u.events = told
  <1>1. <<>> \in Seq(Lines)
    BY EmptySeq
  <1> QED
    BY <1>1 DEF StateOf, IsState, IsParsed

\* The end is told after the rest.
LEMMA EndTold == \A told \in Seq(Told) : Join(told, <<Event("EndOfFile")>>) \in Seq(Told)
  <1>1. Event("EndOfFile") \in Told
    BY DEF Told, Marks
  <1>2. <<Event("EndOfFile")>> \in Seq(Told)
    BY <1>1
  <1> QED
    BY <1>2, EventsJoin

\* All of the file is parsed at its last line.
LEMMA WholeFile ==
    ASSUME NEW ls \in Seq(Lines), NEW header, NEW nodes, IsSeq(nodes), NEW errors \in Seq(Codes),
           AllOf(ls, header, nodes, errors, Len(ls))
    PROVE  SameFile(ls, header, nodes, Join(errors, NoNodes(nodes)))
  <1> DEFINE whole == ParseHeader(ls, 1)
             body == NodesFrom(ls, whole.pos)
             rest == NodesFrom(ls, Len(ls) + 1)
  <1>1. rest = Stop(Len(ls) + 1)
    BY NodesUnfold
  <1>2. rest.found = <<>> /\ rest.errors = <<>>
    BY <1>1 DEF Stop, GoOn
  <1>3. /\ whole.pos \in 1 .. Len(ls) + 1 /\ whole.errors \in Seq(Codes) /\ header = <<whole.header>>
        /\ Join(whole.errors, body.errors) = Join(errors, rest.errors)
        /\ body.found = Join(nodes, rest.found)
    BY DEF AllOf
  <1>4. body.errors \in Seq(Codes)
    BY <1>3, NodesUnfold
  <1>5. Join(errors, <<>>) = errors
    BY JoinFacts
  <1>6. Join(nodes, <<>>) = nodes
    BY Nothing, SeqsAssociate
  <1> HIDE DEF whole, body, rest
  <1>7. Join(whole.errors, body.errors) = errors /\ body.found = nodes
    BY <1>2, <1>3, <1>5, <1>6
  <1>8. SameErrors(Join(errors, NoNodes(nodes)), Join(Join(whole.errors, body.errors), NoNodes(nodes)))
    BY <1>7, Zenon DEF SameErrors
  <1> QED
    BY <1>3, <1>4, <1>7, <1>8 DEF SameFile, whole, body

\* A node was being read.
LEMMA NodeEnds ==
    ASSUME NEW ls \in Seq(AnyLines), NEW s, Good(ls, s, Len(ls)), s.state = "InNode"
    PROVE  Ends(ls, Finished(FlushCurrentSection(s)))
  <1> DEFINE t == FlushNode(s)
             u == Finished(t)
             k == Len(ls)
             h == ParseHeader(<<>>, 1)
             none == <<>>
             end == <<Event("EndOfFile")>>
  <1>1. k \in 0 .. Len(ls) /\ ~(k < Len(ls))
    <2>1. Len(ls) \in Nat
      BY LenProperties
    <2> QED
      BY <2>1
  <1>2. Closed(ls, t, k) /\ t.parsed.nodes # <<>>
    BY <1>1, NodeCloses
  <1>3. FlushCurrentSection(s) = t
    BY DEF FlushCurrentSection
  <1> HIDE DEF t, k
  <1>4. /\ IsState(t) /\ (\E x : t.parsed.header = <<x>>) /\ AtLeast(t.parsed.errors, RefusedUpto(ls, k))
        /\ Tells(t.events, Len(t.parsed.nodes), 0, "", TRUE, Len(t.parsed.errors))
        /\ ls \in Seq(Lines) => AllOf(ls, t.parsed.header, t.parsed.nodes, t.parsed.errors, k)
    BY <1>2 DEF Closed
  <1>5. t.buffered = <<>>
    BY <1>2, StateFields DEF Closed
  <1>6. t.parsed.header # <<>>
    <2>1. \A x : <<x>> # <<>>
      OBVIOUS
    <2> QED
      BY <1>4, <2>1, Zenon
  <1> DEFINE errors == t.parsed.errors
             nodes == t.parsed.nodes
             header == t.parsed.header
             told == t.events
             all == Join(told, end)
  <1>7. errors \in Seq(Codes) /\ IsSeq(nodes) /\ told \in Seq(Told)
    BY <1>4 DEF IsState, IsParsed
  <1>8. u = StateOf("Done", <<>>, header, nodes, errors, all)
    <2>1. u = StateOf("Done", t.buffered, IF t.parsed.header = <<>> THEN <<h.header>> ELSE t.parsed.header,
                 t.parsed.nodes,
                 Join(Join(t.parsed.errors, IF t.parsed.nodes = <<>> THEN <<"P008">> ELSE <<>>),
                      IF t.parsed.header = <<>> THEN h.errors ELSE <<>>),
                 Join(Join(t.events, IF t.parsed.nodes = <<>> THEN <<Event("Error")>> ELSE <<>>),
                      <<Event("EndOfFile")>>))
      BY <1>4, FinishedLeaves
    <2>2. Join(Join(errors, <<>>), <<>>) = errors /\ Join(told, <<>>) = told
      BY <1>7, JoinFacts
    <2> HIDE DEF u, h
    <2> QED
      BY <1>2, <1>5, <1>6, <2>1, <2>2
  <1> HIDE DEF u, errors, nodes, header, told
  <1>9. all \in Seq(Told)
    BY <1>7, EndTold
  <1>10. Tells(all, Len(nodes), 0, "", TRUE, Len(errors))
    <2>1. Tells(told, Len(nodes), 0, "", TRUE, Len(errors))
      BY <1>4 DEF told, nodes, errors
    <2> QED
      BY <2>1, ErrorTells
  <1>11. AllTold(ls, all, nodes, errors)
    BY <1>7, <1>10 DEF AllTold
  <1> HIDE DEF all
  <1>12. /\ u.state = "Done" /\ IsState(u) /\ u.buffered = <<>> /\ u.parsed.header = header
         /\ u.parsed.nodes = nodes /\ u.parsed.errors = errors /\ u.events = all
    BY <1>7, <1>8, <1>9, DoneState
  <1>13. ASSUME ls \in Seq(Lines) PROVE SameFile(ls, header, nodes, errors)
    <2>1. AllOf(ls, header, nodes, errors, Len(ls))
      BY <1>4, <1>13 DEF header, nodes, errors, k
    <2>2. SameFile(ls, header, nodes, Join(errors, NoNodes(nodes)))
      BY <1>7, <1>13, <2>1, WholeFile
    <2>3. NoNodes(nodes) = <<>>
      BY <1>2 DEF NoNodes, nodes
    <2>4. Join(errors, <<>>) = errors
      BY <1>7, JoinFacts
    <2> QED
      BY <2>2, <2>3, <2>4
  <1>14. Ends(ls, u)
    BY <1>4, <1>11, <1>12, <1>13 DEF Ends, header, errors, k
  <1> QED
    BY <1>3, <1>14 DEF u

\* The header was being read: the file has no node.
LEMMA HeaderEnds ==
    ASSUME NEW ls \in Seq(AnyLines), NEW s, Good(ls, s, Len(ls)), s.state = "InHeader"
    PROVE  Ends(ls, Finished(FlushCurrentSection(s)))
  <1> DEFINE event == <<>>
             t == FlushHeader(s, event)
             before == Join(s.events, ErrorEvents(ParseHeader(s.buffered, 1).errors))
             u == Finished(t)
             k == Len(ls)
             h == ParseHeader(<<>>, 1)
             end == <<Event("EndOfFile")>>
             error == <<Event("Error")>>
             more == <<"P008">>
  <1>1. k \in 0 .. Len(ls) /\ ~(k < Len(ls))
    <2>1. Len(ls) \in Nat
      BY LenProperties
    <2> QED
      BY <2>1
  <1>2. t.events = Join(before, event) /\ HeaderOver(ls, t, k, before)
    <2>1. event \in Seq(Told)
      BY EmptySeq
    <2> HIDE DEF event
    <2> QED
      BY <1>1, <2>1, HeaderCloses
  <1>3. FlushCurrentSection(s) = t
    BY DEF FlushCurrentSection
  <1> HIDE DEF t, k, before
  <1>4. /\ IsState(t) /\ (\E x : t.parsed.header = <<x>>) /\ AtLeast(t.parsed.errors, RefusedUpto(ls, k))
        /\ Tells(before, 0, 0, "", FALSE, Len(t.parsed.errors)) /\ t.buffered = <<>> /\ t.parsed.nodes = <<>>
        /\ ls \in Seq(Lines) => AllOf(ls, t.parsed.header, <<>>, t.parsed.errors, k)
    BY <1>2 DEF HeaderOver
  <1>5. t.parsed.header # <<>>
    <2>1. \A x : <<x>> # <<>>
      OBVIOUS
    <2> QED
      BY <1>4, <2>1, Zenon
  <1> DEFINE errors == t.parsed.errors
             header == t.parsed.header
             told == t.events
             some == Join(told, error)
             all == Join(some, end)
             found == Join(errors, more)
  <1>6. errors \in Seq(Codes) /\ told \in Seq(Told) /\ more \in Seq(Codes) /\ Len(more) = 1 /\ IsSeq(<<>>)
    <2>1. errors \in Seq(Codes) /\ told \in Seq(Told)
      BY <1>4 DEF IsState, IsParsed
    <2>2. more \in Seq(Codes) /\ Len(more) = 1
      BY DEF Codes
    <2> QED
      BY <2>1, <2>2, Nothing
  <1>7. u = StateOf("Done", <<>>, header, <<>>, found, all)
    <2>1. u = StateOf("Done", t.buffered, IF t.parsed.header = <<>> THEN <<h.header>> ELSE t.parsed.header,
                 t.parsed.nodes,
                 Join(Join(t.parsed.errors, IF t.parsed.nodes = <<>> THEN <<"P008">> ELSE <<>>),
                      IF t.parsed.header = <<>> THEN h.errors ELSE <<>>),
                 Join(Join(t.events, IF t.parsed.nodes = <<>> THEN <<Event("Error")>> ELSE <<>>),
                      <<Event("EndOfFile")>>))
      BY <1>4, FinishedLeaves
    <2>2. found \in Seq(Codes)
      <3> HIDE DEF errors, more
      <3> QED
        BY <1>6, JoinLists
    <2>3. Join(found, <<>>) = found
      BY <2>2, JoinFacts
    <2> HIDE DEF u, h
    <2> QED
      BY <1>4, <1>5, <2>1, <2>3
  <1> HIDE DEF u, errors, header, more
  <1>8. found \in Seq(Codes) /\ Len(found) = Len(errors) + 1
    <2>1. found \in Seq(Codes)
      BY <1>6, JoinLists
    <2>2. Len(found) = Len(errors) + Len(more)
      BY <1>6, JoinLists
    <2> QED
      BY <1>6, <2>1, <2>2
  <1>9. told = before
    <2>1. before \in Seq(Told)
      BY <1>4 DEF Tells
    <2>2. Join(before, <<>>) = before
      BY <2>1, JoinFacts
    <2> QED
      BY <1>2, <2>2
  <1>10. Tells(all, 0, 0, "", FALSE, Len(found)) /\ some \in Seq(Told)
    <2>1. Tells(told, 0, 0, "", FALSE, Len(errors))
      BY <1>4, <1>9 DEF errors
    <2> HIDE DEF told
    <2>2. Tells(some, 0, 0, "", FALSE, Len(errors) + 1)
      BY <2>1, ErrorTells
    <2> HIDE DEF some
    <2>3. Tells(all, 0, 0, "", FALSE, Len(errors) + 1)
      BY <2>2, ErrorTells
    <2>4. some \in Seq(Told)
      BY <2>2 DEF Tells
    <2> QED
      BY <1>8, <2>3, <2>4
  <1> HIDE DEF told, some, found
  <1>11. all \in Seq(Told)
    BY <1>10, EndTold
  <1>12. AllTold(ls, all, <<>>, found)
    <2>1. Len(<<>>) = 0
      OBVIOUS
    <2> QED
      BY <1>10, <2>1 DEF AllTold
  <1> HIDE DEF all
  <1>13. /\ u.state = "Done" /\ IsState(u) /\ u.buffered = <<>> /\ u.parsed.header = header
         /\ u.parsed.nodes = <<>> /\ u.parsed.errors = found /\ u.events = all
    BY <1>6, <1>7, <1>8, <1>11, DoneState
  <1>14. ASSUME ls \in Seq(Lines) PROVE SameFile(ls, header, <<>>, found)
    <2>1. AllOf(ls, header, <<>>, errors, Len(ls))
      BY <1>4, <1>14 DEF header, errors, k
    <2>2. SameFile(ls, header, <<>>, Join(errors, NoNodes(<<>>)))
      BY <1>6, <1>14, <2>1, WholeFile
    <2>3. NoNodes(<<>>) = more
      BY DEF NoNodes, more
    <2> QED
      BY <2>2, <2>3 DEF found
  <1>15. AtLeast(found, RefusedUpto(ls, k))
    <2>1. RefusedUpto(ls, k) \in Seq(LexErrors) /\ AtLeast(errors, RefusedUpto(ls, k))
      BY <1>1, <1>4, RefusalsGrow DEF errors
    <2> QED
      BY <1>6, <2>1, MoreErrors DEF found
  <1>16. \E x : header = <<x>>
    BY <1>4 DEF header
  <1>17. Ends(ls, u)
    BY <1>12, <1>13, <1>14, <1>15, <1>16 DEF Ends, k
  <1> QED
    BY <1>3, <1>17 DEF u

\* Every line was refused, or there was none.
LEMMA NothingEnds ==
    ASSUME NEW ls \in Seq(AnyLines), NEW s, Good(ls, s, Len(ls)), s.state = "BeforeHeader"
    PROVE  Ends(ls, Finished(FlushCurrentSection(s)))
  <1> DEFINE u == Finished(s)
             k == Len(ls)
             h == ParseHeader(<<>>, 1)
             end == <<Event("EndOfFile")>>
             error == <<Event("Error")>>
             more == <<"P008">>
  <1>1. k \in 0 .. Len(ls)
    <2>1. Len(ls) \in Nat
      BY LenProperties
    <2> QED
      BY <2>1
  <1>2. FlushCurrentSection(s) = s
    BY DEF FlushCurrentSection
  <1>3. /\ IsState(s) /\ s.parsed.header = <<>> /\ s.parsed.nodes = <<>> /\ s.buffered = <<>>
        /\ AtLeast(s.parsed.errors, RefusedUpto(ls, k))
    BY DEF Good, Section
  <1>4. Tells(s.events, 0, 0, s.buffered[1].val, FALSE, Len(s.parsed.errors))
    <2>1. Tells(s.events, Len(s.parsed.nodes), IF s.state = "InNode" THEN 1 ELSE 0, s.buffered[1].val,
               s.state = "InNode", Len(s.parsed.errors))
      BY DEF Good
    <2>2. Len(s.parsed.nodes) = 0
      BY <1>3
    <2> QED
      BY <2>1, <2>2
  <1>5. \A i \in 1 .. Len(ls) : ls[i].kind \in LexErrors
    BY DEF Good
  <1>6. ls \in Seq(Lines) => s.parsed.errors = <<>>
    BY DEF Good, Whole
  <1> DEFINE errors == s.parsed.errors
             told == s.events
             some == Join(told, error)
             all == Join(some, end)
             found == Join(errors, more)
             last == Join(found, h.errors)
             header == <<h.header>>
  <1>7. errors \in Seq(Codes) /\ told \in Seq(Told) /\ more \in Seq(Codes) /\ IsSeq(<<>>)
    <2>1. errors \in Seq(Codes) /\ told \in Seq(Told)
      BY <1>3 DEF IsState, IsParsed
    <2>2. more \in Seq(Codes)
      BY DEF Codes
    <2> QED
      BY <2>1, <2>2, Nothing
  <1>8. h.errors \in Seq(Codes)
    <2>1. <<>> \in Seq(Lines) /\ \A q \in 1 .. Len(<<>>) : <<>>[q].kind # "node"
      BY EmptySeq
    <2> QED
      BY <2>1, HeaderErrors
  <1>9. u = StateOf("Done", <<>>, header, <<>>, last, all)
    <2>1. u = StateOf("Done", s.buffered, IF s.parsed.header = <<>> THEN <<h.header>> ELSE s.parsed.header,
                 s.parsed.nodes,
                 Join(Join(s.parsed.errors, IF s.parsed.nodes = <<>> THEN <<"P008">> ELSE <<>>),
                      IF s.parsed.header = <<>> THEN h.errors ELSE <<>>),
                 Join(Join(s.events, IF s.parsed.nodes = <<>> THEN <<Event("Error")>> ELSE <<>>),
                      <<Event("EndOfFile")>>))
      BY <1>3, FinishedLeaves
    <2> HIDE DEF u, h
    <2> QED
      BY <1>3, <2>1
  <1> HIDE DEF u, h, errors, header, more
  <1>10. found \in Seq(Codes)
    BY <1>7, JoinLists
  <1> DEFINE e == Len(s.parsed.errors) + 1
  <1>11. Tells(all, 0, 0, s.buffered[1].val, FALSE, e) /\ some \in Seq(Told)
    <2> DEFINE v == s.buffered[1].val
               c == Len(s.parsed.errors)
    <2>1. Tells(told, 0, 0, v, FALSE, c)
      BY <1>4
    <2> HIDE DEF told, v, c
    <2>2. Tells(some, 0, 0, v, FALSE, c + 1)
      BY <2>1, ErrorTells
    <2> HIDE DEF some
    <2>3. Tells(all, 0, 0, v, FALSE, c + 1)
      BY <2>2, ErrorTells
    <2>4. some \in Seq(Told)
      BY <2>2 DEF Tells
    <2> QED
      BY <2>3, <2>4 DEF v, c
  <1> HIDE DEF told, some, found, e
  <1>12. last \in Seq(Codes)
    BY <1>8, <1>10, JoinLists
  <1> HIDE DEF last
  <1>13. all \in Seq(Told)
    BY <1>11, EndTold
  <1>14. AllTold(ls, all, <<>>, last)
    <2>1. Len(<<>>) = 0
      OBVIOUS
    <2>2. \E some2 \in Seq(Told) : all = Join(some2, end)
      BY <1>11
    <2>3. ~ \E i \in 1 .. Len(ls) : ls[i].kind \notin LexErrors
      BY <1>5
    <2> HIDE DEF all
    <2> QED
      BY <1>11, <2>1, <2>2, <2>3 DEF AllTold
  <1> HIDE DEF all
  <1>15. /\ u.state = "Done" /\ IsState(u) /\ u.buffered = <<>> /\ u.parsed.header = header
         /\ u.parsed.nodes = <<>> /\ u.parsed.errors = last /\ u.events = all
    BY <1>7, <1>9, <1>12, <1>13, DoneState
  <1>16. ASSUME ls \in Seq(Lines) PROVE SameFile(ls, header, <<>>, last)
    <2>1. Len(ls) = 0 /\ ls = <<>>
      <3>1. Len(ls) \in Nat /\ \A i \in 1 .. Len(ls) : ls[i] \in Lines
        BY <1>16, SeqFacts
      <3>2. \A l \in Lines : l.kind \notin LexErrors
        BY DEF Lines, Kinds, LexErrors
      <3>3. ~(1 \in 1 .. Len(ls))
        BY <1>5, <3>1, <3>2
      <3>4. Len(ls) = 0
        BY <3>1, <3>3
      <3> QED
        BY <1>16, <3>4, EmptySeq
    <2> DEFINE none == <<>>
               whole == ParseHeader(none, 1)
               body == NodesFrom(none, whole.pos)
    <2>2. none \in Seq(Lines) /\ Len(none) = 0
      BY EmptySeq
    <2>3. \A q \in 1 .. Len(none) : none[q].kind # "node"
      BY <2>2
    <2> HIDE DEF none
    <2>15. Window(none, none, 0)
      BY <2>2, WholeIsWindow
    <2>4. whole.pos = Len(none) + 1
      BY <2>3, <2>15, ParseHeaderMoves
    <2>5. NodesFrom(none, Len(none) + 1) = Stop(Len(none) + 1)
      BY <2>2, NodesUnfold
    <2>6. body.found = <<>> /\ body.errors = <<>>
      BY <2>4, <2>5 DEF Stop
    <2>7. whole = h
      BY DEF whole, h, none
    <2> HIDE DEF whole, body
    <2>8. NoNodes(<<>>) = more
      BY DEF NoNodes, more
    <2>9. Join(Join(whole.errors, body.errors), NoNodes(<<>>)) = Join(h.errors, more)
      <3>1. Join(h.errors, <<>>) = h.errors
        BY <1>8, JoinFacts
      <3> QED
        BY <2>6, <2>7, <2>8, <3>1
    <2>10. last = Join(more, h.errors)
      <3>1. errors = <<>>
        BY <1>6, <1>16 DEF errors
      <3>2. Join(<<>>, more) = more
        BY <1>7, JoinFacts
      <3> QED
        BY <3>1, <3>2 DEF last, found
    <2>11. SameErrors(Join(more, h.errors), Join(h.errors, more))
      <3> SUFFICES ASSUME NEW code \in Codes
                   PROVE  Count(Join(more, h.errors), code) = Count(Join(h.errors, more), code)
        BY DEF SameErrors
      <3>1. Count(Join(more, h.errors), code) = Count(more, code) + Count(h.errors, code)
        BY <1>7, <1>8, CountJoin
      <3>2. Count(Join(h.errors, more), code) = Count(h.errors, code) + Count(more, code)
        BY <1>7, <1>8, CountJoin
      <3>3. Count(more, code) \in Nat
        BY <1>7, CountType
      <3>4. Count(h.errors, code) \in Nat
        BY <1>8, CountType
      <3> QED
        BY <3>1, <3>2, <3>3, <3>4
    <2>12. <<>> \in Seq(Codes)
      BY EmptySeq
    <2>13. SameErrors(last, Join(Join(whole.errors, body.errors), NoNodes(<<>>)))
      BY <2>9, <2>10, <2>11
    <2>14. SameFile(none, header, <<>>, last)
      BY <1>8, <2>6, <2>7, <2>12, <2>13 DEF SameFile, whole, body, header
    <2> QED
      BY <2>1, <2>14 DEF none
  <1>17. AtLeast(last, RefusedUpto(ls, k))
    <2>1. RefusedUpto(ls, k) \in Seq(LexErrors) /\ AtLeast(errors, RefusedUpto(ls, k))
      BY <1>1, <1>3, RefusalsGrow DEF errors
    <2>2. AtLeast(found, RefusedUpto(ls, k))
      BY <1>7, <2>1, MoreErrors DEF found
    <2> QED
      BY <1>8, <1>10, <2>1, <2>2, MoreErrors DEF last
  <1>18. \E x : header = <<x>>
    BY DEF header
  <1>19. Ends(ls, u)
    BY <1>14, <1>15, <1>16, <1>17, <1>18 DEF Ends, k
  <1> QED
    BY <1>2, <1>19 DEF u

\* In every state, the end leaves what it should.
LEMMA SectionEnds ==
    ASSUME NEW ls \in Seq(AnyLines), NEW s, Good(ls, s, Len(ls))
    PROVE  Ends(ls, Finished(FlushCurrentSection(s)))
  <1>1. s.state \in {"BeforeHeader", "InHeader", "InNode"}
    BY DEF Good, Section
  <1> QED
    BY <1>1, NodeEnds, HeaderEnds, NothingEnds

-------------------------------------------------------------------------------
(***************************************************************************)
(* What the caller gets in the end                                         *)
(***************************************************************************)

\* A list that has each error as often as another is not empty if that is not.
LEMMA OftenMeansSome ==
    ASSUME NEW s \in Seq(Codes), NEW t, NEW T, t \in Seq(T), T \subseteq Codes,
           \A code \in Codes : Count(s, code) >= Count(t, code)
    PROVE  t # <<>> => s # <<>>
  <1> SUFFICES ASSUME t # <<>> PROVE s # <<>>
    OBVIOUS
  <1>1. Len(t) \in Nat /\ Len(t) # 0
    BY LenProperties, EmptySeq
  <1>2. 1 \in 1 .. Len(t) /\ t[1] \in T
    BY <1>1
  <1> DEFINE c == t[1]
  <1>3. Count(t, c) \in Nat /\ Count(t, c) # 0
    BY <1>2, CountType
  <1>4. Count(s, c) \in Nat /\ Count(s, c) >= Count(t, c)
    BY <1>2, CountType
  <1>5. Count(s, c) # 0
    BY <1>3, <1>4
  <1> QED
    BY <1>5, CountType

ResultOf(p) ==
    IF p.errors # <<>> THEN Failed(p.errors) ELSE [header |-> p.header[1], nodes |-> p.nodes]

\* A result is a list of errors or a file.
LEMMA FailedOrNot ==
    /\ \A errors : IsFailed(Failed(errors)) /\ Failed(errors).errors = errors
    /\ \A header, nodes : ~IsFailed([header |-> header, nodes |-> nodes])
  BY DEF IsFailed, Failed

\* What is left at the end agrees with what the batch parser makes of the document.
LEMMA EndsAgree ==
    ASSUME NEW d \in Seq(RawLines), NEW u, Ends(LinesIn(d), u)
    PROVE  Agrees(ResultOf(u.parsed), Parse(d), Lex(d).errors)
  <1> DEFINE ls == LinesIn(d)
             refused == RefusedUpto(ls, Len(ls))
             errors == u.parsed.errors
             header == u.parsed.header
             nodes == u.parsed.nodes
             result == ResultOf(u.parsed)
             batch == Parse(d)
  <1>1. ls \in Seq(AnyLines)
    BY LinesInType
  <1>2. Lex(d) = Lexed(ls)
    BY DEF Lex, LinesIn
  <1> HIDE DEF ls
  <1>3. /\ Lexed(ls).errors = refused /\ Lexed(ls).lines = ls
        /\ refused \in Seq(LexErrors) /\ LexErrors \subseteq Codes
    <2>1. Len(ls) \in 0 .. Len(ls)
      <3>1. Len(ls) \in Nat
        BY <1>1, LenProperties
      <3> QED
        BY <3>1
    <2>2. refused \in Seq(LexErrors)
      BY <1>1, <2>1, RefusalsGrow
    <2>3. Lexed(ls).errors = refused /\ Lexed(ls).lines = ls
      BY <1>1, RefusalsGrow
    <2>4. LexErrors \subseteq Codes
      BY DEF LexErrors, Codes
    <2> QED
      BY <2>2, <2>3, <2>4
  <1>4. Lex(d).errors = refused
    BY <1>2, <1>3
  <1>5. errors \in Seq(Codes) /\ \A code \in Codes : Count(errors, code) >= Count(refused, code)
    BY DEF Ends, IsState, IsParsed, AtLeast, ls
  <1>6. result = IF errors # <<>> THEN Failed(errors) ELSE [header |-> header[1], nodes |-> nodes]
    BY DEF ResultOf
  <1>7. batch = IF refused # <<>> THEN Failed(refused) ELSE AfterHeader(ls, ParseHeader(ls, 1))
    BY <1>2, <1>3, Zenon DEF Parse, ParseLines
  <1>8. ls \in Seq(Lines) => SameFile(ls, header, nodes, errors)
    BY DEF Ends, ls
  <1>9. refused = <<>> => ls \in Seq(Lines)
    BY <1>1, <1>3, NothingRefused
  <1> HIDE DEF result, batch, refused, errors, header, nodes
  <1>10. CASE refused # <<>>
    <2>1. errors # <<>>
      BY <1>3, <1>5, <1>10, OftenMeansSome
    <2>2. result = Failed(errors) /\ batch = Failed(refused)
      BY <1>6, <1>7, <1>10, <2>1
    <2>3. /\ IsFailed(result) /\ IsFailed(batch)
          /\ result.errors = errors /\ batch.errors = refused
      BY <2>2, FailedOrNot
    <2>4. Agrees(result, batch, refused)
      BY <1>5, <1>10, <2>3 DEF Agrees
    <2> QED
      BY <1>4, <2>4 DEF result, batch
  <1>11. CASE refused = <<>>
    <2> DEFINE whole == ParseHeader(ls, 1)
               body == NodesFrom(ls, whole.pos)
               all == Join(Join(whole.errors, body.errors), NoNodes(nodes))
    <2>1. /\ header = <<whole.header>> /\ nodes = body.found
          /\ whole.errors \in Seq(Codes) /\ body.errors \in Seq(Codes)
          /\ SameErrors(errors, all)
      BY <1>8, <1>9, <1>11 DEF SameFile
    <2>2. batch = AfterHeader(ls, whole)
      BY <1>7, <1>11
    <2>3. AfterHeader(ls, whole) = FileOr(all, whole.header, nodes)
      <3>1. AfterHeader(ls, whole) = FileOf(whole, body)
        BY DEF AfterHeader
      <3> HIDE DEF whole, body
      <3>2. FileOf(whole, body) = FileOr(Join(Join(whole.errors, body.errors), NoNodes(body.found)), whole.header, body.found)
        BY Zenon DEF FileOf, Join, NoNodes
      <3> QED
        BY <2>1, <3>1, <3>2
    <2> HIDE DEF whole, body
    <2>4. all \in Seq(Codes)
      <3>1. Join(whole.errors, body.errors) \in Seq(Codes)
        BY <2>1, JoinLists
      <3>2. NoNodes(nodes) \in Seq(Codes)
        BY NoNodesType
      <3> QED
        BY <3>1, <3>2, JoinLists
    <2> HIDE DEF all
    <2>5. /\ \A code \in Codes : Count(all, code) \in Nat
          /\ \A code \in Codes : Count(errors, code) \in Nat
          /\ \A code \in Codes : Count(errors, code) = Count(all, code)
      <3>1. \A code \in Codes : Count(all, code) \in Nat
        BY <2>4, CountType
      <3>2. \A code \in Codes : Count(errors, code) \in Nat
        BY <1>5, CountType
      <3> QED
        BY <2>1, <3>1, <3>2 DEF SameErrors
    <2>6. all # <<>> => errors # <<>>
      <3>1. \A code \in Codes : Count(errors, code) >= Count(all, code)
        BY <2>5
      <3> QED
        BY <1>5, <2>4, <3>1, OftenMeansSome
    <2>7. errors # <<>> => all # <<>>
      <3>1. \A code \in Codes : Count(all, code) >= Count(errors, code)
        BY <2>5
      <3> QED
        BY <1>5, <2>4, <3>1, OftenMeansSome
    <2>8. batch = IF all # <<>> THEN Failed(all) ELSE [header |-> whole.header, nodes |-> nodes]
      BY <2>2, <2>3 DEF FileOr
    <2>9. header[1] = whole.header
      BY <2>1
    <2>10. CASE all # <<>>
      <3>1. result = Failed(errors) /\ batch = Failed(all)
        BY <1>6, <2>6, <2>8, <2>10
      <3>2. /\ IsFailed(result) /\ IsFailed(batch)
            /\ result.errors = errors /\ batch.errors = all
        BY <3>1, FailedOrNot
      <3>3. Agrees(result, batch, refused)
        BY <1>11, <2>1, <3>2 DEF Agrees
      <3> QED
        BY <1>4, <3>3 DEF result, batch
    <2>11. CASE all = <<>>
      <3>1. errors = <<>>
        BY <2>7, <2>11
      <3>2. /\ result = [header |-> whole.header, nodes |-> nodes]
            /\ batch = [header |-> whole.header, nodes |-> nodes]
        BY <1>6, <2>8, <2>9, <2>11, <3>1
      <3>3. ~IsFailed(result) /\ ~IsFailed(batch) /\ result = batch
        BY <3>2, FailedOrNot
      <3>4. Agrees(result, batch, refused)
        BY <1>11, <3>3 DEF Agrees
      <3> QED
        BY <1>4, <3>4 DEF result, batch
    <2> QED
      BY <2>10, <2>11
  <1> QED
    BY <1>10, <1>11

-------------------------------------------------------------------------------
(***************************************************************************)
(* What the caller is told                                                 *)
(***************************************************************************)

\* The part of EventsTellTheFile that holds at every step.
LEMMA ToldInTurn ==
    ASSUME NEW told, NEW c, NEW open, NEW id, NEW headed, NEW e, Tells(told, c, open, id, headed, e)
    PROVE  LET nodes == Only(told, {"NodeStarted", "NodeComplete"})
               first == Only(told, {"NodeStarted", "HeaderComplete"})
           IN /\ \A i \in DOMAIN nodes :
                    /\ nodes[i].event = (IF i % 2 = 1 THEN "NodeStarted" ELSE "NodeComplete")
                    /\ i % 2 = 0 => nodes[i].id = nodes[i - 1].id
              /\ Len(Only(told, {"NodeComplete"})) = c
              /\ \A i \in DOMAIN first : (first[i].event = "HeaderComplete") = (i = 1)
              /\ Len(nodes) = 2 * c + open
              /\ Len(Only(told, {"Error"})) = e
  <1> DEFINE nodes == Only(told, Turns)
             first == Only(told, Firsts)
  <1>1. told \in Seq(Told)
    BY DEF Tells
  <1>2. nodes \in Seq(Told) /\ first \in Seq(Told)
    BY <1>1, OnlyType
  <1>3. InTurn(nodes) /\ Headed(first) /\ Len(nodes) = 2 * c + open
    BY DEF Tells
  <1> HIDE DEF nodes, first
  <1>4. DOMAIN nodes = 1 .. Len(nodes) /\ DOMAIN first = 1 .. Len(first)
    BY <1>2, LenProperties
  <1>5. \A i \in DOMAIN nodes :
            /\ nodes[i].event = (IF i % 2 = 1 THEN "NodeStarted" ELSE "NodeComplete")
            /\ i % 2 = 0 => nodes[i].id = nodes[i - 1].id
    BY <1>3, <1>4, Zenon DEF InTurn
  <1>6. \A i \in DOMAIN first : (first[i].event = "HeaderComplete") = (i = 1)
    BY <1>3, <1>4, Zenon DEF Headed
  <1>7. Len(Only(told, {"NodeComplete"})) = c /\ Len(Only(told, {"Error"})) = e
    BY DEF Tells
  <1> QED
    BY <1>3, <1>5, <1>6, <1>7, Zenon DEF nodes, first, Turns, Firsts

\* The last event.
LEMMA LastTold == \A some \in Seq(Told) : \A e \in Told : Last(Join(some, <<e>>)) = e
  <1> SUFFICES ASSUME NEW some \in Seq(Told), NEW e \in Told PROVE Last(Join(some, <<e>>)) = e
    OBVIOUS
  <1> DEFINE one == <<e>>
             all == Join(some, one)
  <1>1. one \in Seq(Told) /\ Len(one) = 1 /\ one[1] = e /\ 1 \in 1 .. Len(one)
    OBVIOUS
  <1> HIDE DEF one
  <1>2. Len(all) = Len(some) + Len(one)
    BY <1>1, JoinLists
  <1>3. all[Len(some) + 1] = one[1]
    BY <1>1, JoinedAfter
  <1> HIDE DEF all
  <1> QED
    BY <1>1, <1>2, <1>3 DEF Last, all, one

-------------------------------------------------------------------------------
(***************************************************************************)
(* The specification                                                       *)
(***************************************************************************)

\* Between two lines what is buffered, parsed and told fits the lines taken so far; at the end, the whole file.
IInv ==
    /\ doc \in Documents
    /\ sent \in 0 .. 2 * Len(doc) /\ lineNumber \in 0 .. Len(doc)
    /\ state # "Done" => lineNumber = sent \div 2 /\ Good(LinesIn(doc), Now, lineNumber)
    /\ state = "Done" => Ends(LinesIn(doc), Now)

\* A document is a list of raw lines.
LEMMA DocumentLines == doc \in Documents => doc \in Seq(RawLines) /\ Len(doc) \in Nat
  BY DocumentsAssumption, LenProperties DEF RawLines

\* The parser between two lines.
LEMMA NowFields ==
    Now.state = state /\ Now.buffered = buffered /\ Now.parsed = parsed /\ Now.events = events
  BY DEF Now

\* Half of the half lines are whole lines.
LEMMA Halves == \A n \in Nat : \A m \in 0 .. 2 * n : m \div 2 \in 0 .. n
  OBVIOUS

\* More half lines are no fewer whole lines.
LEMMA HalvesGrow == \A m \in Nat, c \in Nat : m \div 2 <= (m + c) \div 2 /\ m \div 2 \in Nat /\ (m + c) \div 2 \in Nat
  OBVIOUS

\* Nothing has been read at the start.
LEMMA InitFits == Init => IInv
  <1> SUFFICES ASSUME Init PROVE IInv
    OBVIOUS
  <1> DEFINE ls == LinesIn(doc)
  <1>1. doc \in Documents /\ doc \in Seq(RawLines) /\ Len(doc) \in Nat
    BY DocumentLines DEF Init
  <1>2. ls \in Seq(AnyLines) /\ Len(ls) = Len(doc)
    BY <1>1, LinesInType
  <1>3. sent = 0 /\ lineNumber = 0 /\ state = "BeforeHeader"
    BY DEF Init
  <1>4. Now = StateOf("BeforeHeader", <<>>, <<>>, <<>>, <<>>, <<>>)
    BY DEF Init, Now, StateOf
  <1> HIDE DEF ls
  <1> DEFINE s == Now
  <1>5. /\ s.state = "BeforeHeader" /\ s.buffered = <<>> /\ s.parsed.header = <<>>
        /\ s.parsed.nodes = <<>> /\ s.parsed.errors = <<>> /\ s.events = <<>> /\ IsState(s)
    <2>1. <<>> \in Seq(Lines) /\ <<>> \in Seq(Codes) /\ <<>> \in Seq(Told) /\ IsSeq(<<>>)
      BY EmptySeq, Nothing
    <2> HIDE DEF s
    <2>2. s = StateOf("BeforeHeader", <<>>, <<>>, <<>>, <<>>, <<>>)
      BY <1>4 DEF s
    <2> QED
      BY <2>1, <2>2 DEF StateOf, IsState, IsParsed
  <1> HIDE DEF s
  <1>6. Section(s)
    <2>1. \A q \in 1 .. Len(s.buffered) : s.buffered[q].kind # "node"
      <3>1. Len(s.buffered) = 0 /\ \A q \in 1 .. 0 : FALSE
        BY <1>5
      <3> QED
        BY <3>1
    <2> QED
      BY <1>5, <2>1 DEF Section
  <1>7. Tells(s.events, Len(s.parsed.nodes), IF s.state = "InNode" THEN 1 ELSE 0, s.buffered[1].val,
              s.state = "InNode", Len(s.parsed.errors))
    <2> DEFINE v == s.buffered[1].val
    <2>1. Tells(<<>>, 0, 0, v, FALSE, 0)
      BY NothingTold
    <2>2. Len(s.parsed.nodes) = 0 /\ Len(s.parsed.errors) = 0
      BY <1>5
    <2> HIDE DEF v
    <2>3. Tells(s.events, Len(s.parsed.nodes), IF s.state = "InNode" THEN 1 ELSE 0, v,
                s.state = "InNode", Len(s.parsed.errors))
      BY <1>5, <2>1, <2>2
    <2> QED
      BY <2>3 DEF v
  <1>8. AtLeast(s.parsed.errors, RefusedUpto(ls, 0))
    <2>1. RefusedUpto(ls, 0) = <<>>
      BY <1>2, RefusalsGrow
    <2>2. \A code \in Codes : Count(<<>>, code) = 0
      BY CountOne
    <2> QED
      BY <1>5, <2>1, <2>2 DEF AtLeast
  <1>9. Whole(ls, s, 0)
    <2>1. Len(s.buffered) = 0 /\ \A q \in 1 .. 0 : FALSE
      BY <1>5
    <2> QED
      BY <1>5, <2>1 DEF Whole
  <1>10. \A i \in 1 .. 0 : FALSE
    OBVIOUS
  <1>11. Good(ls, s, 0)
    BY <1>5, <1>6, <1>7, <1>8, <1>9, <1>10 DEF Good
  <1>12. 0 \div 2 = 0 /\ 0 \in 0 .. 2 * Len(doc) /\ 0 \in 0 .. Len(doc)
    BY <1>1
  <1> QED
    BY <1>1, <1>3, <1>11, <1>12 DEF IInv, ls, s

\* The next state of the parser is the one the step makes.
LEMMA Becomes ==
    ASSUME NEW s, IsState(s), Become(s)
    PROVE  Now' = s
  <1>1. state' = s.state /\ buffered' = s.buffered /\ parsed' = s.parsed /\ events' = s.events
    BY DEF Become
  <1>2. Now' = [state |-> state', buffered |-> buffered', parsed |-> parsed', events |-> events']
    BY DEF Now
  <1>3. s = [state |-> s.state, buffered |-> s.buffered, parsed |-> s.parsed, events |-> s.events]
    BY DEF IsState
  <1> QED
    BY <1>1, <1>2, <1>3

\* A chunk feeds whole lines only.
LEMMA PushFits == IInv /\ PushChunk => IInv'
  <1> SUFFICES ASSUME IInv, PushChunk PROVE IInv'
    OBVIOUS
  <1> DEFINE ls == LinesIn(doc)
  <1>1. doc \in Documents /\ doc \in Seq(RawLines) /\ Len(doc) \in Nat /\ doc' = doc
    BY DocumentLines DEF IInv, PushChunk
  <1>2. lineNumber = sent \div 2 /\ Good(ls, Now, lineNumber) /\ sent \in Nat
    <2>1. sent \in Nat
      BY <1>1 DEF IInv
    <2> QED
      BY <2>1 DEF IInv, PushChunk
  <1>3. PICK n \in {sent + c : c \in Chunks} \cap 0 .. (2 * Len(doc)) :
            /\ sent' = n /\ lineNumber' = n \div 2
            /\ Become(Drained(Now, lineNumber, n \div 2))
    BY DEF PushChunk
  <1> DEFINE k == n \div 2
             s == Drained(Now, lineNumber, k)
  <1>4. PICK c \in Nat : n = sent + c
    BY <1>3, ChunksAssumption
  <1>5. n \in 0 .. 2 * Len(doc) /\ k \in 0 .. Len(doc)
    BY <1>1, Halves
  <1>6. lineNumber <= k /\ lineNumber \in Nat
    BY <1>2, <1>4, HalvesGrow
  <1> HIDE DEF k
  <1>7. lineNumber \in 0 .. Len(doc) /\ k \in lineNumber .. Len(doc)
    BY <1>1, <1>5, <1>6
  <1>8. Good(ls, s, k)
    BY <1>1, <1>2, <1>7, DrainedFits
  <1> HIDE DEF s
  <1>9. Now' = s
    <2>1. Become(s)
      BY <1>3 DEF s, k
    <2>2. IsState(s)
      BY <1>8 DEF Good
    <2> QED
      BY <2>1, <2>2, Becomes
  <1>10. state' = s.state /\ s.state # "Done"
    <2>1. Become(s)
      BY <1>3 DEF s, k
    <2>2. s.state # "Done"
      BY <1>8 DEF Good, Section
    <2> QED
      BY <2>1, <2>2 DEF Become
  <1>11. lineNumber' = k /\ sent' = n /\ k = n \div 2
    BY <1>3 DEF k
  <1>12. Good(LinesIn(doc'), Now', lineNumber')
    BY <1>1, <1>8, <1>9, <1>11 DEF ls
  <1>13. doc' \in Documents /\ sent' \in 0 .. 2 * Len(doc') /\ lineNumber' \in 0 .. Len(doc')
    BY <1>1, <1>5, <1>11
  <1>14. lineNumber' = sent' \div 2 /\ state' # "Done"
    BY <1>10, <1>11
  <1>15. LinesIn(doc)' = LinesIn(doc')
    BY DEF LinesIn, ClassifyAll, LinesOf
  <1>16. Good(LinesIn(doc), Now, lineNumber)' = Good(LinesIn(doc'), Now', lineNumber')
    BY <1>15, Zenon
  <1> QED
    BY <1>12, <1>13, <1>14, <1>16 DEF IInv

\* The end feeds what is left, and parses what is buffered.
LEMMA FinishFits == IInv /\ Finish => IInv'
  <1> SUFFICES ASSUME IInv, Finish PROVE IInv'
    OBVIOUS
  <1> DEFINE ls == LinesIn(doc)
             s == Drained(Now, lineNumber, Len(doc))
             u == Finished(FlushCurrentSection(s))
  <1>1. doc \in Documents /\ doc \in Seq(RawLines) /\ Len(doc) \in Nat
    BY DocumentLines DEF IInv
  <1>2. Good(ls, Now, lineNumber) /\ lineNumber \in 0 .. Len(doc) /\ sent \in 0 .. 2 * Len(doc)
    BY DEF IInv, Finish
  <1>3. doc' = doc /\ sent' = sent /\ lineNumber' = Len(doc) /\ Become(u)
    BY DEF Finish
  <1>4. Len(doc) \in lineNumber .. Len(doc)
    BY <1>1, <1>2
  <1>5. Good(ls, s, Len(doc))
    BY <1>1, <1>2, <1>4, DrainedFits
  <1>6. ls \in Seq(AnyLines) /\ Len(ls) = Len(doc)
    BY <1>1, LinesInType
  <1> HIDE DEF s
  <1>7. Ends(ls, u)
    <2>1. Good(ls, s, Len(ls))
      BY <1>5, <1>6
    <2> HIDE DEF ls
    <2> QED
      BY <1>6, <2>1, SectionEnds
  <1> HIDE DEF u
  <1>8. Now' = u /\ state' = "Done"
    <2>1. IsState(u) /\ u.state = "Done"
      BY <1>7 DEF Ends
    <2> QED
      BY <1>3, <2>1, Becomes DEF Become
  <1>9. Ends(LinesIn(doc'), Now')
    BY <1>3, <1>7, <1>8 DEF ls
  <1>10. doc' \in Documents /\ sent' \in 0 .. 2 * Len(doc') /\ lineNumber' \in 0 .. Len(doc')
    BY <1>1, <1>2, <1>3
  <1>11. Ends(LinesIn(doc), Now)' = Ends(LinesIn(doc'), Now')
    BY Zenon
  <1> QED
    BY <1>8, <1>9, <1>10, <1>11 DEF IInv

\* Nothing happens.
LEMMA Stutters == IInv /\ UNCHANGED vars => IInv'
  <1> SUFFICES ASSUME IInv, UNCHANGED vars PROVE IInv'
    OBVIOUS
  <1>1. /\ doc' = doc /\ sent' = sent /\ state' = state /\ lineNumber' = lineNumber
        /\ buffered' = buffered /\ parsed' = parsed /\ events' = events
    BY DEF vars
  <1>2. Now' = Now
    BY <1>1 DEF Now
  <1> QED
    BY <1>1, <1>2 DEF IInv

\* The invariant is inductive.
LEMMA StepsFit == IInv /\ [Next]_vars => IInv'
  BY PushFits, FinishFits, Stutters DEF Next

\* What is buffered is one section.
LEMMA InvType == IInv => TypeOK
  <1> SUFFICES ASSUME IInv PROVE TypeOK
    OBVIOUS
  <1> DEFINE s == Now
  <1>1. s.state = state /\ s.buffered = buffered /\ s.parsed = parsed
    BY NowFields
  <1>2. sent \in 0 .. (2 * Len(doc)) /\ lineNumber \in 0 .. Len(doc)
    BY DEF IInv
  <1>3. IsState(s)
    BY DEF IInv, Good, Ends
  <1> HIDE DEF s
  <1>4. parsed.errors \in Seq(Codes) /\ buffered \in Seq(Lines)
    BY <1>1, <1>3 DEF IsState, IsParsed
  <1>5. \A i \in DOMAIN parsed.errors : parsed.errors[i] \in Codes
    BY <1>4, SeqFacts
  <1>6. DOMAIN buffered = 1 .. Len(buffered) /\ Len(buffered) \in Nat
    BY <1>4, SeqFacts
  <1>7. \A h : Len(<<h>>) = 1
    OBVIOUS
  <1>8. Len(<<>>) = 0 /\ DOMAIN <<>> = {}
    OBVIOUS
  <1>9. CASE state = "Done"
    <2>1. s.buffered = <<>> /\ \E h : s.parsed.header = <<h>>
      BY <1>9 DEF IInv, Ends, s
    <2>2. Len(parsed.header) <= 1
      BY <1>1, <1>7, <2>1
    <2>3. {i \in DOMAIN buffered : buffered[i].kind = "node"} = {}
      BY <1>1, <1>8, <2>1
    <2> QED
      BY <1>2, <1>5, <1>9, <2>2, <2>3 DEF TypeOK
  <1>10. CASE state # "Done"
    <2>1. Section(s)
      BY <1>10 DEF IInv, Good, s
    <2>2. state \in {"BeforeHeader", "InHeader", "InNode"}
      BY <1>1, <2>1 DEF Section
    <2>3. CASE state # "InNode"
      <3>1. parsed.header = <<>> /\ \A q \in 1 .. Len(buffered) : buffered[q].kind # "node"
        BY <1>1, <2>1, <2>3 DEF Section
      <3>2. {i \in DOMAIN buffered : buffered[i].kind = "node"} = {}
        BY <1>6, <3>1
      <3>3. Len(parsed.header) <= 1
        BY <1>8, <3>1
      <3> QED
        BY <1>2, <1>5, <2>2, <2>3, <3>2, <3>3 DEF TypeOK
    <2>4. CASE state = "InNode"
      <3>1. /\ buffered # <<>> /\ buffered[1].kind = "node"
            /\ \A q \in 2 .. Len(buffered) : buffered[q].kind # "node"
            /\ \E h : parsed.header = <<h>>
        BY <1>1, <2>1, <2>4 DEF Section
      <3>2. Len(buffered) # 0
        BY <1>4, <3>1, EmptySeq
      <3>3. {i \in DOMAIN buffered : buffered[i].kind = "node"} = {1}
        BY <1>6, <3>1, <3>2
      <3>4. Len(parsed.header) <= 1
        BY <1>7, <3>1
      <3> QED
        BY <1>2, <1>5, <2>2, <2>4, <3>3, <3>4 DEF TypeOK
    <2> QED
      BY <2>3, <2>4
  <1> QED
    BY <1>9, <1>10

\* At the end, nothing is left of the difference.
LEMMA InvAgrees == IInv => AgreesWithBatch
  <1> SUFFICES ASSUME IInv, state = "Done" PROVE Agrees(Result, Parse(doc), Lex(doc).errors)
    BY DEF AgreesWithBatch
  <1>1. doc \in Seq(RawLines)
    BY DocumentLines DEF IInv
  <1>2. Ends(LinesIn(doc), Now)
    BY DEF IInv
  <1>3. Agrees(ResultOf(Now.parsed), Parse(doc), Lex(doc).errors)
    BY <1>1, <1>2, EndsAgree
  <1>4. Result = ResultOf(Now.parsed)
    BY NowFields, Zenon DEF Result, ResultOf
  <1> QED
    BY <1>3, <1>4

\* The events follow the state machine.
LEMMA InvTells == IInv => EventsTellTheFile
  <1> SUFFICES ASSUME IInv PROVE EventsTellTheFile
    OBVIOUS
  <1> DEFINE ls == LinesIn(doc)
             nodes == Only(events, {"NodeStarted", "NodeComplete"})
             first == Only(events, {"NodeStarted", "HeaderComplete"})
             inTurn == /\ \A i \in DOMAIN nodes :
                             /\ nodes[i].event = (IF i % 2 = 1 THEN "NodeStarted" ELSE "NodeComplete")
                             /\ i % 2 = 0 => nodes[i].id = nodes[i - 1].id
                       /\ Len(Only(events, {"NodeComplete"})) = Len(parsed.nodes)
                       /\ \A i \in DOMAIN first : (first[i].event = "HeaderComplete") = (i = 1)
  <1>1. Now.state = state /\ Now.buffered = buffered /\ Now.parsed = parsed /\ Now.events = events
    BY NowFields
  <1>2. CASE state # "Done"
    <2> DEFINE open == IF state = "InNode" THEN 1 ELSE 0
               id == buffered[1].val
    <2>1. Tells(events, Len(parsed.nodes), open, id, state = "InNode", Len(parsed.errors))
      BY <1>1, <1>2, Zenon DEF IInv, Good
    <2> HIDE DEF open, id
    <2>2. inTurn
      BY <2>1, ToldInTurn
    <2> QED
      BY <1>2, <2>2 DEF EventsTellTheFile, Chosen
  <1>3. CASE state = "Done"
    <2>1. AllTold(ls, events, parsed.nodes, parsed.errors)
      BY <1>1, <1>3 DEF IInv, Ends
    <2>2. PICK some \in Seq(Told) : events = Join(some, <<Event("EndOfFile")>>)
      BY <2>1 DEF AllTold
    <2>3. PICK id, headed, e :
              /\ Tells(events, Len(parsed.nodes), 0, id, headed, e)
              /\ (\E i \in 1 .. Len(ls) : ls[i].kind \notin LexErrors) => e = Len(parsed.errors)
      BY <2>1 DEF AllTold
    <2>4. inTurn /\ Len(nodes) = 2 * Len(parsed.nodes) + 0 /\ Len(Only(events, {"Error"})) = e
      BY <2>3, ToldInTurn
    <2>5. Last(events).event = "EndOfFile"
      <3>1. Event("EndOfFile") \in Told
        BY DEF Told, Marks
      <3>2. Last(events) = Event("EndOfFile")
        BY <2>2, <3>1, LastTold
      <3> QED
        BY <3>2 DEF Event
    <2>6. doc \in Seq(RawLines) /\ Len(doc) \in Nat
      BY DocumentLines DEF IInv
    <2>7. /\ DOMAIN doc = 1 .. Len(ls)
          /\ \A i \in DOMAIN doc : ls[i] = ClassifyLine(LinesOf(doc)[i])
      <3>1. DOMAIN doc = 1 .. Len(doc)
        BY <2>6, SeqFacts
      <3>2. Len(ls) = Len(doc) /\ \A k \in 1 .. Len(doc) : ls[k] = ClassifyLine(LinesOf(doc)[k])
        BY <2>6, LinesInType
      <3> QED
        BY <3>1, <3>2
    <2> HIDE DEF ls
    <2>8. (\E i \in DOMAIN doc : ClassifyLine(LinesOf(doc)[i]).kind \notin LexErrors) => e = Len(parsed.errors)
      BY <2>3, <2>7
    <2>9. Len(nodes) = 2 * Len(parsed.nodes)
      <3>1. Len(parsed.nodes) \in Nat
        BY <2>3 DEF Tells
      <3> QED
        BY <2>4, <3>1
    <2>10. (\E i \in DOMAIN doc : ClassifyLine(LinesOf(doc)[i]).kind \notin LexErrors) =>
               Len(Only(events, {"Error"})) = Len(parsed.errors)
      BY <2>4, <2>8
    <2>11. inTurn
      BY <2>4
    <2> QED
      BY <2>5, <2>9, <2>10, <2>11, Zenon DEF EventsTellTheFile, Chosen
  <1> QED
    BY <1>2, <1>3

\* The state of the push parser has the shape of the code's types, and what it buffers is one
\* section: a header without a declaration, or a node with exactly one, in front (stream.rs, step).
THEOREM TypeCorrect == Spec => []TypeOK
  <1>1. Init => IInv
    BY InitFits
  <1>2. IInv /\ [Next]_vars => IInv'
    BY StepsFit
  <1>3. IInv => TypeOK
    BY InvType
  <1> QED
    BY <1>1, <1>2, <1>3, PTL DEF Spec

\* However a document is cut into chunks, the push parser ends with the file the batch parser makes
\* of the whole of it, or with the same errors of each code; if the lexer refuses a line, with at
\* least the errors of the batch parser (stream.rs, flush_* and finish).
THEOREM PushAgreesWithBatch == Spec => []AgreesWithBatch
  <1>1. Init => IInv
    BY InitFits
  <1>2. IInv /\ [Next]_vars => IInv'
    BY StepsFit
  <1>3. IInv => AgreesWithBatch
    BY InvAgrees
  <1> QED
    BY <1>1, <1>2, <1>3, PTL DEF Spec

\* The header is told before any node, each node is started and completed in turn under its own id,
\* as many errors are told as the result holds, and the end is told last (stream.rs, ParseEvent).
THEOREM ToldTheFile == Spec => []EventsTellTheFile
  <1>1. Init => IInv
    BY InitFits
  <1>2. IInv /\ [Next]_vars => IInv'
    BY StepsFit
  <1>3. IInv => EventsTellTheFile
    BY InvTells
  <1> QED
    BY <1>1, <1>2, <1>3, PTL DEF Spec
===================================================================================
