--------------------------- MODULE AuditLogProofs ---------------------------
(* The two sinks, for every set of processes, every way they may fail and  *)
(* every length of the log.  What is proved of the primary holds until a   *)
(* failed append closes its file while another process holds the lock      *)
(* (overlapped); what is proved of the mirror always holds.                *)
EXTENDS AuditLog, FiniteSetTheorems, SequenceTheorems, TLAPS

-----------------------------------------------------------------------------
(* What a write does to a sink.                                            *)

\* What a piece shows of a write that got to j
To(j) == IF j = 3 THEN 2 ELSE j
Ends(j) == j = 3
NewPiece(line, i, j) == [of |-> line, from |-> i, to |-> To(j), ended |-> Ends(j)]
Grown(piece, to, ended) == [of |-> piece.of, from |-> piece.from, to |-> to, ended |-> ended]

\* What a write does to a sink: nothing, one more piece, or its last piece grows.
PutShape(f, line, i, j, g) ==
  \/ g = f /\ (i = j \/ (i = 2 /\ j = 3 /\ ~InLine(f)))
  \/ i < j /\ i < 2 /\ ~Continues(f, line, i) /\ g = Append(f, NewPiece(line, i, j))
  \/ /\ i = 2 /\ j = 3 /\ InLine(f)
     /\ g = [f EXCEPT ![Len(f)] = Grown(f[Len(f)], f[Len(f)].to, Ends(j))]
  \/ /\ i = 1 /\ 1 < j /\ Continues(f, line, 1)
     /\ g = [f EXCEPT ![Len(f)] = Grown(f[Len(f)], 2, Ends(j))]

\* A write does one of four things to a sink.
LEMMA PutCases ==
  ASSUME NEW f \in Seq(Piece), NEW line \in Line, NEW i \in 0..3, NEW j \in i..3
  PROVE  PutShape(f, line, i, j, Put(f, line, i, j))
<1> USE DEF PutShape
<1>1. CASE i = j
  BY <1>1 DEF Put
<1>2. CASE i # j /\ i = 2
  <2>1. j = 3 /\ Ends(j) = TRUE
    BY <1>2 DEF Ends
  <2> QED
    BY <1>2, <2>1 DEF Put, LastBecomes, Grown
<1>3. CASE i # j /\ i # 2 /\ ~Continues(f, line, i)
  <2>1. i < j /\ i < 2
    BY <1>3
  <2> QED
    BY <1>3, <2>1 DEF Put, NewPiece, To, Ends
<1>4. CASE i # j /\ i # 2 /\ Continues(f, line, i)
  <2>1. f[Len(f)] \in Piece /\ f[Len(f)].to = i
    BY <1>4 DEF Continues, InLine
  <2>2. i = 1 /\ 1 < j /\ To(j) = 2
    BY <1>4, <2>1 DEF Piece, To
  <2>3. Put(f, line, i, j) = LastBecomes(f, To(j), Ends(j))
    BY <1>4 DEF Put, To, Ends
  <2> QED
    BY <1>4, <2>2, <2>3 DEF LastBecomes, Grown, Ends
<1> QED
  BY <1>1, <1>2, <1>3, <1>4

\* What every write leaves as it was: no piece is lost, and a whole one stays whole.
Kept(f, g, line) ==
  /\ g \in Seq(Piece) /\ DOMAIN f \subseteq DOMAIN g
  /\ \A n \in DOMAIN f :
       /\ g[n].of = f[n].of /\ g[n].from = f[n].from /\ f[n].to <= g[n].to
       /\ n # Len(f) => g[n] = f[n]
       /\ f[n].of # line => g[n].to = f[n].to
  /\ \A n \in DOMAIN g \ DOMAIN f : n = Len(f) + 1 /\ g[n].of = line

\* The last piece and the fields of a sink.
LEMMA SinkPieces ==
  ASSUME NEW f \in Seq(Piece)
  PROVE  /\ Len(f) \in Nat /\ DOMAIN f = 1 .. Len(f)
         /\ f # <<>> => Len(f) \in DOMAIN f /\ Len(f) > 0
         /\ f = <<>> => Len(f) = 0
         /\ \A n \in DOMAIN f :
              /\ f[n] \in Piece /\ f[n].of \in Line /\ f[n].from \in 0..1
              /\ f[n].to \in 1..2 /\ f[n].to \in Int /\ f[n].to <= 2 /\ f[n].ended \in BOOLEAN
<1>1. /\ Len(f) \in Nat /\ DOMAIN f = 1 .. Len(f)
      /\ f # <<>> => Len(f) \in DOMAIN f /\ Len(f) > 0
      /\ f = <<>> => Len(f) = 0
      /\ \A n \in DOMAIN f : f[n] \in Piece
  OBVIOUS
<1>2. \A p \in Piece : /\ p.of \in Line /\ p.from \in 0..1 /\ p.to \in 1..2
                       /\ p.to \in Int /\ p.to <= 2 /\ p.ended \in BOOLEAN
  BY DEF Piece
<1> QED
  BY <1>1, <1>2

\* A new piece leaves those before it as they were.
LEMMA AppendKeeps ==
  ASSUME NEW f \in Seq(Piece), NEW p \in Piece
  PROVE  /\ Kept(f, Append(f, p), p.of)
         /\ Len(Append(f, p)) = Len(f) + 1 /\ DOMAIN Append(f, p) = 1 .. Len(f) + 1
         /\ \A n \in DOMAIN f : Append(f, p)[n] = f[n]
         /\ Append(f, p)[Len(f) + 1] = p
<1>1. /\ Append(f, p) \in Seq(Piece) /\ Len(f) \in Nat /\ DOMAIN f = 1 .. Len(f)
      /\ Len(Append(f, p)) = Len(f) + 1 /\ DOMAIN Append(f, p) = 1 .. Len(f) + 1
      /\ \A n \in DOMAIN f : Append(f, p)[n] = f[n] /\ f[n] \in Piece
      /\ Append(f, p)[Len(f) + 1] = p
  OBVIOUS
<1> QED
  BY <1>1 DEF Kept, Piece

\* A last piece that grows leaves those before it as they were.
LEMMA GrowKeeps ==
  ASSUME NEW f \in Seq(Piece), f # <<>>, NEW to \in 1..2, NEW ended \in BOOLEAN, f[Len(f)].to <= to,
         NEW g, g = [f EXCEPT ![Len(f)] = Grown(f[Len(f)], to, ended)]
  PROVE  /\ Kept(f, g, f[Len(f)].of)
         /\ to = f[Len(f)].to => \A line : Kept(f, g, line)
         /\ Len(g) = Len(f) /\ DOMAIN g = DOMAIN f
         /\ \A n \in DOMAIN f : n # Len(f) => g[n] = f[n]
         /\ g[Len(f)] = Grown(f[Len(f)], to, ended)
         /\ g[Len(f)].of = f[Len(f)].of /\ g[Len(f)].from = f[Len(f)].from
         /\ g[Len(f)].to = to /\ g[Len(f)].ended = ended
<1> DEFINE p == Grown(f[Len(f)], to, ended)
<1>1. /\ Len(f) \in 1 .. Len(f) /\ DOMAIN f = 1 .. Len(f)
      /\ \A n \in 1 .. Len(f) : f[n] \in Piece /\ f[n].to \in Int
  BY SinkPieces
<1>2. /\ p \in Piece /\ p.of = f[Len(f)].of /\ p.from = f[Len(f)].from /\ p.to = to
      /\ p.ended = ended
  <2>1. f[Len(f)] \in Piece
    BY <1>1
  <2> QED
    BY <2>1 DEF Piece, Grown
<1> HIDE DEF p
<1>3. g = [f EXCEPT ![Len(f)] = p]
  BY DEF p
<1>4. g \in Seq(Piece) /\ Len(g) = Len(f) /\ \A n \in 1 .. Len(f) : g[n] = IF n = Len(f) THEN p ELSE f[n]
  BY <1>1, <1>2, <1>3, ExceptSeq
<1>5. DOMAIN g = DOMAIN f
  BY <1>3
<1>6. \A n \in DOMAIN f :
        /\ g[n].of = f[n].of /\ g[n].from = f[n].from /\ f[n].to <= g[n].to
        /\ n # Len(f) => g[n] = f[n]
        /\ f[n].of # f[Len(f)].of => g[n].to = f[n].to
        /\ to = f[Len(f)].to => g[n].to = f[n].to
  <2> TAKE n \in DOMAIN f
  <2>1. CASE n = Len(f)
    BY <1>1, <1>2, <1>4, <2>1
  <2>2. CASE n # Len(f)
    <3>1. g[n] = f[n]
      BY <1>1, <1>4, <2>2
    <3>2. f[n].to <= f[n].to
      BY <1>1
    <3> QED
      BY <2>2, <3>1, <3>2
  <2> QED
    BY <2>1, <2>2
<1>7. Kept(f, g, f[Len(f)].of)
  BY <1>4, <1>5, <1>6 DEF Kept
<1>8. to = f[Len(f)].to => \A line : Kept(f, g, line)
  BY <1>4, <1>5, <1>6 DEF Kept
<1> QED
  BY <1>1, <1>2, <1>4, <1>5, <1>6, <1>7, <1>8 DEF p

\* Every write leaves the pieces before it, whoever wrote them.
LEMMA PutKeeps ==
  ASSUME NEW f \in Seq(Piece), NEW line \in Line, NEW i \in 0..3, NEW j \in i..3
  PROVE  Kept(f, Put(f, line, i, j), line)
<1>1. \A n \in DOMAIN f : f[n] \in Piece /\ f[n].to \in 1..2 /\ f[n].to <= 2
  BY SinkPieces
<1>0. InLine(f) => f # <<>> /\ Len(f) \in DOMAIN f
  BY SinkPieces DEF InLine
<1>2. Kept(f, f, line)
  BY <1>1 DEF Kept
<1>3. CASE i < j /\ i < 2 /\ Put(f, line, i, j) = Append(f, NewPiece(line, i, j))
  <2>1. NewPiece(line, i, j) \in Piece /\ NewPiece(line, i, j).of = line
    BY <1>3 DEF NewPiece, Piece, To, Ends
  <2> QED
    BY <1>3, <2>1, AppendKeeps
<1>4. CASE /\ InLine(f)
           /\ Put(f, line, i, j) = [f EXCEPT ![Len(f)] = Grown(f[Len(f)], f[Len(f)].to, Ends(j))]
  <2>1. f # <<>> /\ f[Len(f)].to \in 1..2 /\ f[Len(f)].to <= f[Len(f)].to
    BY <1>0, <1>1, <1>4
  <2> DEFINE ended == Ends(j)
  <2>3. ended \in BOOLEAN
    BY DEF Ends
  <2>4. Put(f, line, i, j) = [f EXCEPT ![Len(f)] = Grown(f[Len(f)], f[Len(f)].to, ended)]
    BY <1>4
  <2> HIDE DEF ended
  <2>2. \A l : Kept(f, [f EXCEPT ![Len(f)] = Grown(f[Len(f)], f[Len(f)].to, ended)], l)
    BY <2>1, <2>3, GrowKeeps
  <2> QED
    BY <2>4, <2>2
<1>5. CASE /\ Continues(f, line, 1)
           /\ Put(f, line, i, j) = [f EXCEPT ![Len(f)] = Grown(f[Len(f)], 2, Ends(j))]
  <2>1. f # <<>> /\ f[Len(f)].to <= 2 /\ f[Len(f)].of = line
    BY <1>0, <1>1, <1>5 DEF Continues
  <2> DEFINE ended == Ends(j)
  <2>2. 2 \in 1..2 /\ ended \in BOOLEAN
    BY DEF Ends
  <2>4. Put(f, line, i, j) = [f EXCEPT ![Len(f)] = Grown(f[Len(f)], 2, ended)]
    BY <1>5
  <2> HIDE DEF ended
  <2>3. Kept(f, [f EXCEPT ![Len(f)] = Grown(f[Len(f)], 2, ended)], f[Len(f)].of)
    BY <2>1, <2>2, GrowKeeps
  <2> QED
    BY <2>1, <2>3, <2>4
<1>p. PutShape(f, line, i, j, Put(f, line, i, j))
  BY PutCases
<1>6. \/ Put(f, line, i, j) = f
      \/ i < j /\ i < 2 /\ Put(f, line, i, j) = Append(f, NewPiece(line, i, j))
      \/ InLine(f) /\ Put(f, line, i, j) = [f EXCEPT ![Len(f)] = Grown(f[Len(f)], f[Len(f)].to, Ends(j))]
      \/ Continues(f, line, 1) /\ Put(f, line, i, j) = [f EXCEPT ![Len(f)] = Grown(f[Len(f)], 2, Ends(j))]
  BY <1>p DEF PutShape
<1> QED
  BY <1>2, <1>3, <1>4, <1>5, <1>6

\* A line from its start is a piece of its own.
LEMMA PutNew ==
  ASSUME NEW f \in Seq(Piece), NEW line \in Line, NEW j \in 1..3
  PROVE  Put(f, line, 0, j) = Append(f, NewPiece(line, 0, j)) /\ NewPiece(line, 0, j) \in Piece
<1>0. f # <<>> => f[Len(f)].to \in 1..2
  BY SinkPieces
<1>1. ~Continues(f, line, 0)
  BY <1>0 DEF Continues, InLine
<1>2. NewPiece(line, 0, j) \in Piece
  BY DEF NewPiece, Piece, To, Ends
<1> QED
  BY <1>1, <1>2, PutCases DEF Put, NewPiece, To, Ends

-----------------------------------------------------------------------------
(* A sink whose entries are numbered and linked, and the line at its tail. *)

\* A line that continues the chain of a sink
Follows(line, f) ==
  /\ line.seq = Len(f)
  /\ line.prev = IF f = <<>> THEN 0 ELSE f[Len(f)].of.hash

\* A sink whose last entry was not cut short
TailWhole(f) == f # <<>> => Whole(f[Len(f)])

\* Every entry is numbered and linked, and all but the last are whole
Numbered(f) ==
  \A n \in DOMAIN f :
    /\ f[n].from = 0 /\ (n < Len(f) => f[n].to = 2)
    /\ f[n].of.seq = n - 1
    /\ f[n].of.prev = IF n = 1 THEN 0 ELSE f[n - 1].of.hash

\* A line being written, of which i is there, is the next or the last one
TailIs(f, line, i) ==
  IF i = 0 THEN Follows(line, f) /\ TailWhole(f)
           ELSE f # <<>> /\ f[Len(f)] = NewPiece(line, 0, i)

\* The entries are what they were, or one more follows them
Continued(f, line, i, g) ==
  \/ Len(g) = Len(f) /\ \A n \in DOMAIN f : g[n].of = f[n].of
  \/ i = 0 /\ Follows(line, f) /\ \E p \in Piece : p.of = line /\ g = Append(f, p)

\* The fields of a line's first piece.
LEMMA TailFacts ==
  ASSUME NEW line \in Line, NEW i \in 1..3
  PROVE  LET p == NewPiece(line, 0, i)
         IN /\ p \in Piece /\ p.of = line /\ p.from = 0
            /\ p.to = IF i = 1 THEN 1 ELSE 2
            /\ p.ended = Ends(i)
<1>1. Ends(i) \in BOOLEAN
  BY DEF Ends
<1>2. To(i) = (IF i = 1 THEN 1 ELSE 2) /\ To(i) \in 1..2
  BY DEF To
<1> QED
  BY <1>1, <1>2 DEF NewPiece, Piece

\* A sink stays numbered while its last entry grows.
LEMMA NumberedSame ==
  ASSUME NEW f \in Seq(Piece), NEW g \in Seq(Piece), Numbered(f), Len(g) = Len(f),
         \A n \in DOMAIN f : g[n].of = f[n].of /\ g[n].from = f[n].from /\ (n # Len(f) => g[n] = f[n])
  PROVE  Numbered(g)
<1>1. DOMAIN f = 1 .. Len(f) /\ DOMAIN g = 1 .. Len(f) /\ Len(f) \in Nat
  BY SinkPieces
<1>2. ASSUME NEW n \in DOMAIN g
      PROVE  /\ g[n].from = 0 /\ (n < Len(g) => g[n].to = 2)
             /\ g[n].of.seq = n - 1
             /\ g[n].of.prev = IF n = 1 THEN 0 ELSE g[n - 1].of.hash
  <2>1. n = 1 \/ n - 1 \in DOMAIN f
    BY <1>1
  <2>2. /\ f[n].from = 0 /\ (n < Len(f) => f[n].to = 2)
        /\ f[n].of.seq = n - 1 /\ f[n].of.prev = IF n = 1 THEN 0 ELSE f[n - 1].of.hash
    BY <1>1 DEF Numbered
  <2>3. n \in DOMAIN f /\ (n < Len(f) => n # Len(f))
    BY <1>1
  <2> QED
    BY <1>1, <2>1, <2>2, <2>3
<1> QED
  BY <1>2 DEF Numbered

\* A sink stays numbered when the next entry is begun.
LEMMA NumberedNext ==
  ASSUME NEW f \in Seq(Piece), Numbered(f), NEW p \in Piece, p.from = 0,
         Follows(p.of, f), TailWhole(f)
  PROVE  Numbered(Append(f, p))
<1> DEFINE g == Append(f, p)
<1>1. DOMAIN f = 1 .. Len(f) /\ Len(f) \in Nat
  BY SinkPieces
<1>2. /\ Len(g) = Len(f) + 1 /\ DOMAIN g = 1 .. Len(f) + 1
      /\ \A n \in DOMAIN f : g[n] = f[n]
      /\ g[Len(f) + 1] = p
  BY AppendKeeps
<1> HIDE DEF g
<1>3. ASSUME NEW n \in DOMAIN g
      PROVE  /\ g[n].from = 0 /\ (n < Len(g) => g[n].to = 2)
             /\ g[n].of.seq = n - 1
             /\ g[n].of.prev = IF n = 1 THEN 0 ELSE g[n - 1].of.hash
  <2>1. CASE n = Len(f) + 1
    <3>1. f = <<>> <=> Len(f) = 0
      BY SinkPieces
    <3>2. Len(f) # 0 => g[Len(f)] = f[Len(f)]
      BY <1>1, <1>2
    <3>3. g[n] = p
      BY <1>2, <2>1
    <3>4. p.of.seq = Len(f) /\ p.of.prev = IF Len(f) = 0 THEN 0 ELSE f[Len(f)].of.hash
      BY <3>1 DEF Follows
    <3>5. n - 1 = Len(f) /\ ~(n < Len(g)) /\ (n = 1 <=> Len(f) = 0)
      BY <1>1, <1>2, <2>1
    <3> QED
      BY <3>2, <3>3, <3>4, <3>5
  <2>2. CASE n \in 1 .. Len(f)
    <3>1. g[n] = f[n] /\ (n # 1 => g[n - 1] = f[n - 1])
      BY <1>1, <1>2, <2>2
    <3>2. f[n].to = 2
      <4>1. CASE n = Len(f)
        BY <1>1, <2>2, <4>1 DEF TailWhole, Whole
      <4>2. CASE n < Len(f)
        BY <1>1, <2>2, <4>2 DEF Numbered
      <4> QED
        BY <1>1, <2>2, <4>1, <4>2
    <3>3. f[n].from = 0 /\ f[n].of.seq = n - 1 /\ f[n].of.prev = IF n = 1 THEN 0 ELSE f[n - 1].of.hash
      BY <1>1, <2>2 DEF Numbered
    <3> QED
      BY <3>1, <3>2, <3>3
  <2> QED
    BY <1>1, <1>2, <2>1, <2>2
<1> QED
  BY <1>3 DEF Numbered, g

\* A process that writes alone continues the chain, however far its write gets.
LEMMA TailStep ==
  ASSUME NEW f \in Seq(Piece), NEW line \in Line, NEW i \in 0..3, NEW j \in i..3,
         Numbered(f), TailIs(f, line, i)
  PROVE  LET g == Put(f, line, i, j)
         IN Numbered(g) /\ TailIs(g, line, j) /\ Continued(f, line, i, g)
<1> DEFINE g == Put(f, line, i, j)
<1>1. CASE i = j
  BY <1>1 DEF Put, Continued
<1>2. CASE i = 0 /\ j # 0
  <2> DEFINE p == NewPiece(line, 0, j)
  <2>1. j \in 1..3
    BY <1>2
  <2>2. g = Append(f, p) /\ p \in Piece
    BY <1>2, <2>1, PutNew
  <2>3. p.of = line /\ p.from = 0
    BY <2>1, TailFacts
  <2>4. Follows(line, f) /\ TailWhole(f)
    BY <1>2 DEF TailIs
  <2> HIDE DEF p, g
  <2>5. Numbered(g)
    BY <2>2, <2>3, <2>4, NumberedNext
  <2>6. g # <<>> /\ g[Len(g)] = p
    BY <2>2, AppendKeeps
  <2> QED
    BY <1>2, <2>1, <2>2, <2>3, <2>4, <2>5, <2>6 DEF TailIs, Continued, p, g
<1>3. CASE i # 0 /\ i # j
  <2> DEFINE p == NewPiece(line, 0, i)
  <2>1. i \in 1..3 /\ j \in 1..3 /\ i < j /\ i < 3
    BY <1>3
  <2>e. ~Ends(i)
    BY <2>1 DEF Ends
  <2>2. /\ f # <<>> /\ f[Len(f)] = p /\ p.of = line /\ p.from = 0
        /\ p.to = (IF i = 1 THEN 1 ELSE 2) /\ ~p.ended
    BY <1>3, <2>e, <2>1, TailFacts DEF TailIs
  <2>3. InLine(f) /\ (i = 1 => Continues(f, line, 1))
    BY <2>1, <2>2 DEF InLine, Continues
  <2>4. PutShape(f, line, i, j, g)
    BY PutCases
  <2> HIDE DEF g, p
  <2>5. g = [f EXCEPT ![Len(f)] = Grown(f[Len(f)], 2, Ends(j))]
    <3>1. CASE i = 1
      BY <2>1, <2>3, <2>4, <3>1 DEF PutShape
    <3>2. CASE i = 2
      <4>1. j = 3 /\ f[Len(f)].to = 2
        BY <2>1, <2>2, <3>2
      <4> QED
        BY <2>3, <2>4, <3>2, <4>1 DEF PutShape
    <3> QED
      BY <2>1, <3>1, <3>2
  <2>6. 2 \in 1..2 /\ Ends(j) \in BOOLEAN /\ f[Len(f)].to <= 2
    BY <2>2 DEF Ends
  <2> DEFINE ended == Ends(j)
  <2>m. ended \in BOOLEAN /\ g = [f EXCEPT ![Len(f)] = Grown(f[Len(f)], 2, ended)]
    BY <2>5, <2>6
  <2> HIDE DEF ended
  <2>n. /\ Kept(f, g, f[Len(f)].of)
        /\ Len(g) = Len(f) /\ DOMAIN g = DOMAIN f
        /\ g[Len(f)] = Grown(f[Len(f)], 2, ended)
    <3>1. f # <<>> /\ 2 \in 1..2 /\ f[Len(f)].to <= 2
      BY <2>2, <2>6
    <3>2. ended \in BOOLEAN /\ f \in Seq(Piece)
      BY <2>m
    <3> DEFINE h == [f EXCEPT ![Len(f)] = Grown(f[Len(f)], 2, ended)]
    <3>3. /\ Kept(f, h, f[Len(f)].of)
          /\ Len(h) = Len(f) /\ DOMAIN h = DOMAIN f
          /\ h[Len(f)] = Grown(f[Len(f)], 2, ended)
      BY ONLY <3>1, <3>2, GrowKeeps
    <3> QED
      BY <3>3, <2>m
  <2>7. /\ Kept(f, g, f[Len(f)].of)
        /\ Len(g) = Len(f) /\ DOMAIN g = DOMAIN f
        /\ g[Len(f)] = Grown(f[Len(f)], 2, Ends(j))
    BY <2>n DEF ended
  <2>8. Numbered(g) /\ Continued(f, line, i, g)
    BY <2>7, NumberedSame DEF Kept, Continued
  <2>9. Grown(f[Len(f)], 2, Ends(j)) = NewPiece(line, 0, j)
    BY <2>1, <2>2 DEF Grown, NewPiece, To
  <2>10. g # <<>>
    BY <2>2, <2>7, SinkPieces DEF Kept
  <2> QED
    BY <2>1, <2>7, <2>8, <2>9, <2>10 DEF TailIs, g
<1> QED
  BY <1>1, <1>2, <1>3

-----------------------------------------------------------------------------
(* How many lines of a sink have their newline.                            *)

\* The line that has no newline yet, and those that have one
OpenLines(f) == IF InLine(f) THEN 1 ELSE 0
Closed(f) == Lines(f) - OpenLines(f)

\* A sink has finitely many lines.
LEMMA LinesFinite ==
  ASSUME NEW f \in Seq(Piece)
  PROVE  IsFiniteSet(Begins(f)) /\ Lines(f) \in Nat
<1>1. Len(f) \in Nat /\ DOMAIN f = 1 .. Len(f) /\ Begins(f) \subseteq 1 .. Len(f)
  BY SinkPieces DEF Begins
<1>2. IsFiniteSet(1 .. Len(f))
  BY <1>1, FS_Interval
<1>3. IsFiniteSet(Begins(f))
  BY <1>1, <1>2, FS_Subset
<1> QED
  BY <1>3, FS_CardinalityType DEF Lines

\* A new piece starts a line unless the last one is open.
LEMMA LinesAppend ==
  ASSUME NEW f \in Seq(Piece), NEW p \in Piece
  PROVE  /\ Lines(Append(f, p)) = Lines(f) + 1 - OpenLines(f)
         /\ InLine(Append(f, p)) <=> ~p.ended
<1> DEFINE g == Append(f, p)
           new == Len(f) + 1
<1>1. /\ Len(g) = new /\ DOMAIN g = 1 .. new
      /\ \A n \in DOMAIN f : g[n] = f[n]
      /\ g[new] = p
  BY AppendKeeps
<1>2. DOMAIN f = 1 .. Len(f) /\ Len(f) \in Nat /\ (f = <<>> <=> Len(f) = 0)
  BY SinkPieces
<1> HIDE DEF g
<1>3. InLine(g) <=> ~p.ended
  <2>1. g # <<>>
    BY <1>1, <1>2
  <2> QED
    BY <1>1, <2>1 DEF InLine
<1>4. new \in Begins(g) <=> ~InLine(f)
  <2>1. new = 1 <=> f = <<>>
    BY <1>2
  <2>2. f # <<>> => Len(f) \in DOMAIN f /\ g[new - 1] = f[Len(f)]
    BY <1>1, <1>2
  <2>3. new \in DOMAIN g
    BY <1>1, <1>2
  <2> QED
    BY <2>1, <2>2, <2>3 DEF Begins, InLine
<1>5. \A n \in DOMAIN f : n \in Begins(g) <=> n \in Begins(f)
  <2> TAKE n \in DOMAIN f
  <2>1. n # 1 => n - 1 \in DOMAIN f
    BY <1>2
  <2>2. n \in DOMAIN g
    BY <1>1, <1>2
  <2> QED
    BY <1>1, <2>1, <2>2 DEF Begins
<1>6. DOMAIN g = DOMAIN f \cup {new} /\ new \notin DOMAIN f
  BY <1>1, <1>2
<1>7. Begins(g) \subseteq DOMAIN g /\ Begins(f) \subseteq DOMAIN f
  BY DEF Begins
<1>8. /\ InLine(f) => Begins(g) = Begins(f)
      /\ ~InLine(f) => Begins(g) = Begins(f) \cup {new}
  BY <1>4, <1>5, <1>6, <1>7
<1>9. Lines(g) = Lines(f) + 1 - OpenLines(f)
  <2>1. IsFiniteSet(Begins(f)) /\ new \notin Begins(f) /\ Lines(f) \in Nat
    BY <1>6, <1>7, LinesFinite
  <2>2. Cardinality(Begins(f) \cup {new}) = Cardinality(Begins(f)) + 1
    BY <2>1, FS_AddElement
  <2>3. CASE InLine(f)
    <3>1. Lines(g) = Lines(f)
      BY <1>8, <2>3 DEF Lines
    <3>2. OpenLines(f) = 1
      BY <2>3 DEF OpenLines
    <3> QED
      BY <2>1, <3>1, <3>2
  <2>4. CASE ~InLine(f)
    <3>1. Lines(g) = Lines(f) + 1
      BY <1>8, <2>2, <2>4 DEF Lines
    <3>2. OpenLines(f) = 0
      BY <2>4 DEF OpenLines
    <3> QED
      BY <2>1, <3>1, <3>2
  <2> QED
    BY <2>3, <2>4
<1> QED
  BY <1>3, <1>9 DEF g

\* A last piece that grows starts no line.
LEMMA LinesGrow ==
  ASSUME NEW f \in Seq(Piece), NEW g \in Seq(Piece), DOMAIN g = DOMAIN f,
         \A n \in DOMAIN f : n # Len(f) => g[n] = f[n]
  PROVE  Lines(g) = Lines(f)
<1>1. DOMAIN f = 1 .. Len(f) /\ Len(f) \in Nat
  BY SinkPieces
<1>2. \A n \in DOMAIN f : n # 1 => g[n - 1] = f[n - 1]
  BY <1>1
<1>3. Begins(g) = Begins(f)
  BY <1>2 DEF Begins
<1> QED
  BY <1>3 DEF Lines

\* A write of a line closes at most one line, and one that ends in the middle none
ClosedBy(f, i, j, g) ==
  /\ i = j => g = f
  /\ i < j /\ j < 3 => InLine(g) /\ Closed(g) = Closed(f)
  /\ i < j /\ j = 3 => ~InLine(g) /\ (Closed(g) = Closed(f) \/ Closed(g) = Closed(f) + 1)
  /\ i = 0 /\ j = 3 => Closed(g) = Closed(f) + 1

\* Every write does.
LEMMA ClosedPut ==
  ASSUME NEW f \in Seq(Piece), NEW line \in Line, NEW i \in 0..3, NEW j \in i..3
  PROVE  ClosedBy(f, i, j, Put(f, line, i, j))
<1> DEFINE g == Put(f, line, i, j)
<1>1. PutShape(f, line, i, j, g) /\ g \in Seq(Piece)
  BY PutCases, PutKeeps DEF Kept
<1>2. Lines(f) \in Nat /\ OpenLines(f) \in 0..1 /\ Closed(f) \in Int
  BY LinesFinite DEF OpenLines, Closed
<1>3. i \in 0..3 /\ j \in 0..3 /\ i <= j /\ (Ends(j) <=> j = 3)
  BY DEF Ends
<1> HIDE DEF g
<1>4. ASSUME g = f, i = j \/ (i = 2 /\ j = 3 /\ ~InLine(f))
      PROVE  ClosedBy(f, i, j, g)
  BY <1>2, <1>3, <1>4 DEF ClosedBy
<1>5. ASSUME i < j, i < 2, g = Append(f, NewPiece(line, i, j))
      PROVE  ClosedBy(f, i, j, g)
  <2>0. i \in 0..1 /\ To(j) \in 1..2 /\ Ends(j) \in BOOLEAN
    BY <1>3, <1>5 DEF To, Ends
  <2>1. NewPiece(line, i, j) \in Piece /\ NewPiece(line, i, j).ended = Ends(j)
    BY <2>0 DEF NewPiece, Piece
  <2>2. Lines(g) = Lines(f) + 1 - OpenLines(f) /\ (InLine(g) <=> ~Ends(j))
    BY <1>5, <2>1, LinesAppend
  <2> QED
    BY <1>2, <1>3, <1>5, <2>2 DEF ClosedBy, Closed, OpenLines
<1>6. ASSUME InLine(f), i < j, i # 0, NEW to \in 1..2, f[Len(f)].to <= to,
             g = [f EXCEPT ![Len(f)] = Grown(f[Len(f)], to, Ends(j))]
      PROVE  ClosedBy(f, i, j, g)
  <2> DEFINE ended == Ends(j)
  <2>1. ended \in BOOLEAN /\ f # <<>> /\ (ended <=> j = 3)
    BY <1>6 DEF Ends, InLine
  <2>2. g = [f EXCEPT ![Len(f)] = Grown(f[Len(f)], to, ended)]
    BY <1>6
  <2> HIDE DEF ended
  <2> DEFINE h == [f EXCEPT ![Len(f)] = Grown(f[Len(f)], to, ended)]
  <2>3. /\ Len(h) = Len(f) /\ DOMAIN h = DOMAIN f
        /\ \A n \in DOMAIN f : n # Len(f) => h[n] = f[n]
        /\ h[Len(f)].ended = ended
    <3>1. to \in 1..2 /\ f[Len(f)].to <= to
      BY <1>6
    <3>2. ended \in BOOLEAN /\ f # <<>> /\ f \in Seq(Piece)
      BY <2>1
    <3>3. h = [f EXCEPT ![Len(f)] = Grown(f[Len(f)], to, ended)]
      OBVIOUS
    <3> HIDE DEF h
    <3> QED
      BY ONLY <3>1, <3>2, <3>3, GrowKeeps
  <2>4. Lines(g) = Lines(f)
    BY <1>1, <2>2, <2>3, LinesGrow
  <2>5. g # <<>>
    BY <2>1, <2>2, <2>3
  <2>6. InLine(g) <=> j # 3
    BY <2>1, <2>2, <2>3, <2>5 DEF InLine
  <2> QED
    BY <1>2, <1>3, <1>6, <2>4, <2>6 DEF ClosedBy, Closed, OpenLines
<1>7. ASSUME i = 2, j = 3, InLine(f),
             g = [f EXCEPT ![Len(f)] = Grown(f[Len(f)], f[Len(f)].to, Ends(j))]
      PROVE  ClosedBy(f, i, j, g)
  <2>1. f[Len(f)].to \in 1..2 /\ f[Len(f)].to <= f[Len(f)].to
    BY <1>7, SinkPieces DEF InLine
  <2>2. i < j /\ i # 0 /\ InLine(f)
    BY <1>7
  <2>3. ASSUME NEW to, to = f[Len(f)].to PROVE ClosedBy(f, i, j, g)
    <3>1. to \in 1..2 /\ f[Len(f)].to <= to
      BY <2>1, <2>3
    <3>2. g = [f EXCEPT ![Len(f)] = Grown(f[Len(f)], to, Ends(j))]
      BY <1>7, <2>3
    <3> QED
      BY ONLY <1>6, <2>2, <3>1, <3>2
  <2> QED
    BY ONLY <2>3, Zenon
<1>8. ASSUME i = 1, 1 < j, Continues(f, line, 1),
             g = [f EXCEPT ![Len(f)] = Grown(f[Len(f)], 2, Ends(j))]
      PROVE  ClosedBy(f, i, j, g)
  <2>1. f[Len(f)].to = 1 /\ f[Len(f)].to <= 2 /\ 2 \in 1..2 /\ InLine(f)
    BY <1>8 DEF Continues
  <2>2. i < j /\ i # 0
    BY <1>8
  <2>3. ASSUME NEW to, to = 2 PROVE ClosedBy(f, i, j, g)
    <3>1. to \in 1..2 /\ f[Len(f)].to <= to
      BY <2>1, <2>3
    <3>2. g = [f EXCEPT ![Len(f)] = Grown(f[Len(f)], to, Ends(j))]
      BY <1>8, <2>3
    <3> QED
      BY ONLY <1>6, <2>1, <2>2, <3>1, <3>2
  <2> QED
    BY ONLY <2>3, Zenon
<1>9. ClosedBy(f, i, j, g)
  BY <1>1, <1>4, <1>5, <1>7, <1>8 DEF PutShape
<1> QED
  BY <1>9 DEF g

-----------------------------------------------------------------------------
(* The invariants.                                                         *)

\* Whoever is between taking the lock and letting go of it; who still has to
\* write the mirror; whose line is whole in the primary; whose line is composed
Holding == {"locked", "headed", "written"}
Owing == {"written", "mirror"}
Mirrored == {"written", "mirror", "mirrorclosing"}
Active == {"headed", "written", "closing", "mirror", "mirrorclosing"}

\* A process in the critical section holds the lock
LockExclusive == \A w \in Writer : pc[w] \in Holding => lock = w

\* The entries composed are told apart by their hashes
Composed ==
  /\ made <= MaxEntries
  /\ \A w \in Writer : pc[w] = "locked" => made < MaxEntries
  /\ \A w \in Writer : pc[w] \in Active => pending[w].hash \in 1 .. made
  /\ \A v, w \in Writer : pc[v] \in Active /\ pc[w] \in Active /\ v # w =>
       pending[v].hash # pending[w].hash

\* Every entry of the primary was composed
Recorded == \A n \in DOMAIN primary : primary[n].of.hash \in 1 .. made

\* A line that no write has begun is not in the primary
Unwritten ==
  \A w \in Writer : pc[w] \in {"headed", "closing"} /\ sent[w] = 0 =>
    \A n \in DOMAIN primary : primary[n].of.hash # pending[w].hash

\* A size a process remembers was the file's at some earlier moment
SizesPast == \A w \in Writer : cachedSize[w] <= size /\ peeked[w] <= size

\* A write that raised is under way only while its file is being closed
Failing ==
  \A w \in Writer :
    /\ sent[w] # 0 => pc[w] \in {"closing", "mirrorclosing"}
    /\ pc[w] \in {"closing", "mirrorclosing"} => pending[w].hash \in lost

\* What is kept of the calls, and of the entries they composed
CallsInv == LockExclusive /\ Composed /\ SizesPast /\ Failing

AuditInv == TypeOK /\ CallsInv /\ Recorded /\ Unwritten

\* No one takes the lock while a failed append is closing its file
LoneCloser ==
  \A v, w \in Writer : pc[v] = "closing" /\ v # w => pc[w] \notin Holding \cup {"closing"}

\* What a process in the critical section writes continues the chain
Tails == \A w \in Writer : pc[w] \in {"headed", "closing"} => TailIs(primary, pending[w], sent[w])

\* A cache of the file's size holds its last entry, which is whole
CachedTail ==
  \A w \in Writer : CacheHit(w) => cachedHead[w] = LastLine /\ TailWhole(primary)

\* What is kept of the primary until the lock is taken too early
ChainInv == ~overlapped => LoneCloser /\ Numbered(primary) /\ Tails /\ CachedTail

\* A line that is whole in the mirror, or in the primary, or still to be mirrored
Copied(line) == \E m \in DOMAIN mirror : Whole(mirror[m]) /\ mirror[m].of = line
Stored(line) == \E n \in DOMAIN primary : Whole(primary[n]) /\ primary[n].of = line
Owed(line) == \E w \in Writer : pc[w] \in Owing /\ pending[w] = line

\* What is kept of the mirror: a process that goes on writing there goes on after
\* what it wrote
MirrorInv ==
  /\ MirrorIsCopy
  /\ \A w \in Writer : pc[w] \in Mirrored =>
       /\ Stored(pending[w])
       /\ \A n \in DOMAIN mirror : mirror[n].of = pending[w] => mirror[n].to <= sent[w]

\* Each whole entry of the primary is in the mirror, or its process still has to
\* write it there, or its call died or raised
Accounted ==
  \A n \in DOMAIN primary : Whole(primary[n]) =>
    primary[n].of.hash \in lost \/ Owed(primary[n].of) \/ Copied(primary[n].of)

\* Whose line the mirror lacks, and who may still end one there
Debtors == {w \in Writer : pc[w] \in Owing}
Halfway == {w \in Writer : pc[w] = "mirrorclosing" /\ sent[w] # 3}
\* The mirror never ends more lines than the primary has
CountInv ==
  /\ IsFiniteSet(Debtors) /\ IsFiniteSet(Halfway)
  /\ Closed(mirror) + Cardinality(Debtors) + Cardinality(Halfway) <= Closed(primary)
  /\ Closed(mirror) + Cardinality(Debtors) + OpenLines(mirror) <= Closed(primary)

\* The types a proof needs most.
LEMMA Typed ==
  ASSUME TypeOK
  PROVE  /\ primary \in Seq(Piece) /\ mirror \in Seq(Piece) /\ size \in Nat
         /\ LastLine \in Line /\ NoLine \in Line
         /\ \A w \in Writer :
              /\ pending[w] \in Line /\ sent[w] \in 0..3 /\ pending[w].hash \in Nat
              /\ cachedHead[w] \in Line /\ cachedSize[w] \in Nat \cup {-1} /\ peeked[w] \in Nat
              /\ HeadSeen(w) \in Line
<1>1. NoLine \in Line /\ \A l \in Line : l.hash \in Nat
  BY DEF Line, NoLine
<1>2. LastLine \in Line
  BY <1>1, SinkPieces DEF TypeOK, LastLine
<1> QED
  BY <1>1, <1>2 DEF TypeOK, HeadSeen

\* A new line carries a hash of its own.
LEMMA NewLineTyped ==
  ASSUME NEW head \in Line, made \in Nat
  PROVE  NewLine(head) \in Line /\ NewLine(head).hash = made + 1
BY DEF NewLine, Line, Chain!Genesis

\* The steps that write to the primary, and those that write to the mirror
PrimaryWrite(w) == Write(w) \/ WriteStops(w) \/ Close(w) \/ (Crash(w) /\ pc[w] \in {"headed", "closing"})
MirrorWrite(w) == WriteMirror(w) \/ MirrorFails(w) \/ MirrorClose(w)
                  \/ (Crash(w) /\ pc[w] \in {"mirror", "mirrorclosing"})

\* A step that writes to the primary continues its line.
LEMMA PrimaryWrites ==
  ASSUME AuditInv, NEW w \in Writer, PrimaryWrite(w)
  PROVE  /\ pc[w] \in {"headed", "closing"} /\ mirror' = mirror
         /\ \E j \in sent[w]..3 :
              /\ primary' = Put(primary, pending[w], sent[w], j)
              /\ size' = IF j = sent[w] THEN size ELSE size + 1
<1>1. pc[w] = "headed" => sent[w] = 0
  BY DEF AuditInv, CallsInv, Failing
<1>2. sent[w] \in 0..3 /\ sent[w] \in sent[w]..3 /\ 3 \in sent[w]..3
  BY Typed DEF AuditInv
<1>3. CASE Write(w)
  BY <1>2, <1>3 DEF Write, WritePrimary
<1>4. CASE WriteStops(w)
  BY <1>1, <1>4 DEF WriteStops, WritePrimary
<1>5. CASE Close(w)
  BY <1>5 DEF Close, WritePrimary
<1>6. CASE Crash(w) /\ pc[w] \in {"headed", "closing"}
  <2>1. CASE UNCHANGED sinks
    <3>1. Put(primary, pending[w], sent[w], sent[w]) = primary
      BY DEF Put
    <3> QED
      BY <1>2, <1>6, <2>1, <3>1 DEF sinks
  <2>2. CASE \E j \in sent[w]..3 : WritePrimary(w, j)
    BY <1>6, <2>2 DEF WritePrimary
  <2> QED
    BY <1>6, <2>1, <2>2 DEF Crash
<1> QED
  BY <1>3, <1>4, <1>5, <1>6 DEF PrimaryWrite

\* A step that writes to the mirror continues its line.
LEMMA MirrorWrites ==
  ASSUME AuditInv, NEW w \in Writer, MirrorWrite(w)
  PROVE  /\ pc[w] \in {"mirror", "mirrorclosing"} /\ primary' = primary /\ size' = size
         /\ \E j \in sent[w]..3 : mirror' = Put(mirror, pending[w], sent[w], j)
<1>1. pc[w] = "mirror" => sent[w] = 0
  BY DEF AuditInv, CallsInv, Failing
<1>2. sent[w] \in 0..3 /\ sent[w] \in sent[w]..3 /\ 3 \in sent[w]..3
  BY Typed DEF AuditInv
<1>3. CASE WriteMirror(w)
  BY <1>2, <1>3 DEF WriteMirror, WriteSecond
<1>4. CASE MirrorFails(w)
  BY <1>1, <1>4 DEF MirrorFails, WriteSecond
<1>5. CASE MirrorClose(w)
  BY <1>5 DEF MirrorClose, WriteSecond
<1>6. CASE Crash(w) /\ pc[w] \in {"mirror", "mirrorclosing"}
  <2>1. CASE UNCHANGED sinks
    <3>1. Put(mirror, pending[w], sent[w], sent[w]) = mirror
      BY DEF Put
    <3> QED
      BY <1>2, <1>6, <2>1, <3>1 DEF sinks
  <2>2. CASE \E j \in sent[w]..3 : WriteSecond(w, j)
    BY <1>6, <2>2 DEF WriteSecond
  <2> QED
    BY <1>6, <2>1, <2>2 DEF Crash
<1> QED
  BY <1>3, <1>4, <1>5, <1>6 DEF MirrorWrite

\* No other step writes to a sink.
LEMMA OtherSteps ==
  ASSUME [Next]_vars, \A w \in Writer : ~PrimaryWrite(w) /\ ~MirrorWrite(w)
  PROVE  UNCHANGED sinks
<1>1. ASSUME NEW w \in Writer, PeekSize(w) \/ PeekScan(w) PROVE UNCHANGED sinks
  BY <1>1 DEF PeekSize, PeekScan
<1>2. ASSUME NEW w \in Writer, Appending(w) PROVE UNCHANGED sinks
  BY <1>2 DEF Appending, PrimaryWrite, MirrorWrite, Lock, TakesLock, ReadHead, HeadRaises, Unlock
<1>3. ASSUME NEW w \in Writer, Crash(w) PROVE UNCHANGED sinks
  BY <1>3 DEF Crash, PrimaryWrite, MirrorWrite
<1>4. CASE ReadPrimary \/ ReadMirror \/ UNCHANGED vars
  BY <1>4 DEF ReadPrimary, ReadMirror, vars
<1> QED
  BY <1>1, <1>2, <1>3, <1>4 DEF Next

\* The primary only grows, and the mirror too.
LEMMA SinksKeep ==
  ASSUME AuditInv, [Next]_vars
  PROVE  /\ \E line \in Line : Kept(primary, primary', line)
         /\ \E line \in Line : Kept(mirror, mirror', line)
         /\ size' \in Nat /\ size <= size'
<1>1. \A line : Kept(primary, primary, line) /\ Kept(mirror, mirror, line)
  <2>1. \A n \in DOMAIN primary : primary[n].to <= primary[n].to
    BY Typed, SinkPieces DEF AuditInv
  <2>2. \A n \in DOMAIN mirror : mirror[n].to <= mirror[n].to
    BY Typed, SinkPieces DEF AuditInv
  <2> QED
    BY <2>1, <2>2, Typed DEF Kept, AuditInv
<1>2. size \in Nat /\ NoLine \in Line
  BY Typed DEF AuditInv
<1>3. ASSUME NEW w \in Writer, PrimaryWrite(w)
      PROVE  /\ Kept(primary, primary', pending[w]) /\ mirror' = mirror /\ pending[w] \in Line
             /\ size' \in Nat /\ size <= size'
  <2>1. PICK j \in sent[w]..3 : /\ primary' = Put(primary, pending[w], sent[w], j)
                                /\ size' = IF j = sent[w] THEN size ELSE size + 1
    BY <1>3, PrimaryWrites
  <2>2. pending[w] \in Line /\ sent[w] \in 0..3 /\ primary \in Seq(Piece)
    BY Typed DEF AuditInv
  <2>3. Kept(primary, primary', pending[w])
    BY <2>1, <2>2, PutKeeps
  <2> QED
    BY <1>2, <1>3, <2>1, <2>2, <2>3, PrimaryWrites
<1>4. ASSUME NEW w \in Writer, MirrorWrite(w)
      PROVE  /\ Kept(mirror, mirror', pending[w]) /\ primary' = primary /\ pending[w] \in Line
             /\ size' = size
  <2>1. PICK j \in sent[w]..3 : mirror' = Put(mirror, pending[w], sent[w], j)
    BY <1>4, MirrorWrites
  <2>2. pending[w] \in Line /\ sent[w] \in 0..3 /\ mirror \in Seq(Piece)
    BY Typed DEF AuditInv
  <2>3. Kept(mirror, mirror', pending[w])
    BY <2>1, <2>2, PutKeeps
  <2> QED
    BY <1>4, <2>2, <2>3, MirrorWrites
<1>5. CASE \A w \in Writer : ~PrimaryWrite(w) /\ ~MirrorWrite(w)
  BY <1>1, <1>2, <1>5, OtherSteps DEF sinks
<1> QED
  BY <1>1, <1>2, <1>3, <1>4, <1>5

-----------------------------------------------------------------------------
(* Types.                                                                  *)

\* A piece of the primary was there before, or is of the line being written.
LEMMA PrimaryLines ==
  ASSUME AuditInv, [Next]_vars
  PROVE  /\ primary' \in Seq(Piece)
         /\ \A n \in DOMAIN primary' :
              \/ n \in DOMAIN primary /\ primary'[n].of = primary[n].of
              \/ \E v \in Writer : PrimaryWrite(v) /\ primary'[n].of = pending[v]
<1>1. primary \in Seq(Piece)
  BY Typed DEF AuditInv
<1>2. CASE \E v \in Writer : PrimaryWrite(v)
  <2>1. PICK v \in Writer : PrimaryWrite(v)
    BY <1>2
  <2>2. PICK j \in sent[v]..3 : primary' = Put(primary, pending[v], sent[v], j)
    BY <2>1, PrimaryWrites
  <2>3. pending[v] \in Line /\ sent[v] \in 0..3
    BY Typed DEF AuditInv
  <2>4. Kept(primary, primary', pending[v])
    BY <1>1, <2>2, <2>3, PutKeeps
  <2> QED
    BY <2>1, <2>4 DEF Kept
<1>3. CASE \A v \in Writer : ~PrimaryWrite(v)
  <2>1. primary' = primary
    BY <1>3, OtherSteps, MirrorWrites DEF sinks
  <2> QED
    BY <1>1, <2>1
<1> QED
  BY <1>2, <1>3

\* The mirror stays a sequence of pieces.
LEMMA MirrorTyped ==
  ASSUME AuditInv, [Next]_vars
  PROVE  mirror' \in Seq(Piece)
BY SinksKeep DEF Kept

\* No step leaves the types.
LEMMA TypeStep == AuditInv /\ [Next]_vars => TypeOK'
<1> SUFFICES ASSUME AuditInv, [Next]_vars PROVE TypeOK'
  OBVIOUS
<1>1. primary' \in Seq(Piece) /\ mirror' \in Seq(Piece) /\ size' \in Nat
  BY PrimaryLines, MirrorTyped, SinksKeep
<1>0. TypeOK
  BY DEF AuditInv
<1> USE DEF TypeOK, Step, Verdict
<1>2. ASSUME NEW w \in Writer, PeekSize(w) PROVE TypeOK'
  BY <1>0, <1>1, <1>2 DEF PeekSize, calls, reader, history
<1>3. ASSUME NEW w \in Writer, PeekScan(w) PROVE TypeOK'
  <2>1. LastLine \in Line /\ peeked[w] \in Nat
    BY <1>0, Typed
  <2> QED
    BY <1>0, <1>1, <1>3, <2>1 DEF PeekScan, calls, reader, history
<1>4. ASSUME NEW w \in Writer, Lock(w) PROVE TypeOK'
  BY <1>0, <1>1, <1>4 DEF Lock, TakesLock, caches, calls, reader
<1>5. ASSUME NEW w \in Writer, ReadHead(w) PROVE TypeOK'
  <2>1. HeadSeen(w) \in Line /\ NewLine(HeadSeen(w)) \in Line
    BY <1>0, Typed, NewLineTyped
  <2> QED
    BY <1>0, <1>1, <1>5, <2>1 DEF ReadHead, reader, history
<1>6. ASSUME NEW w \in Writer, HeadRaises(w) PROVE TypeOK'
  BY <1>0, <1>1, <1>6 DEF HeadRaises, caches, calls, reader, history
<1>7. ASSUME NEW w \in Writer, Write(w) PROVE TypeOK'
  BY <1>0, <1>1, <1>7 DEF Write, calls, reader, history
<1>8. ASSUME NEW w \in Writer, WriteStops(w) PROVE TypeOK'
  BY <1>0, <1>1, <1>8, Typed DEF WriteStops, caches, reader
<1>9. ASSUME NEW w \in Writer, Close(w) PROVE TypeOK'
  BY <1>0, <1>1, <1>9, Typed DEF Close, Returns, caches, reader, history
<1>10. ASSUME NEW w \in Writer, Unlock(w) PROVE TypeOK'
  BY <1>0, <1>1, <1>10 DEF Unlock, caches, calls, reader, history
<1>11. ASSUME NEW w \in Writer, WriteMirror(w) PROVE TypeOK'
  BY <1>0, <1>1, <1>11, Typed DEF WriteMirror, Returns, caches, reader, history
<1>12. ASSUME NEW w \in Writer, MirrorFails(w) PROVE TypeOK'
  BY <1>0, <1>1, <1>12, Typed DEF MirrorFails, caches, reader
<1>13. ASSUME NEW w \in Writer, MirrorClose(w) PROVE TypeOK'
  BY <1>0, <1>1, <1>13, Typed DEF MirrorClose, Returns, caches, reader, history
<1>14. ASSUME NEW w \in Writer, Crash(w) PROVE TypeOK'
  <2>1. lost' \subseteq Nat
    BY <1>0, <1>14, Typed DEF Crash
  <2>2. NoLine \in Line
    BY <1>0, Typed
  <2> QED
    BY <1>0, <1>1, <1>14, <2>1, <2>2 DEF Crash, Returns, reader
<1>15. CASE ReadPrimary
  BY <1>0, <1>1, <1>15 DEF ReadPrimary, caches, calls, history
<1>16. CASE ReadMirror
  <2>1. verdict' \in Verdict
    BY <1>16 DEF ReadMirror, Compare
  <2>2. seen' \in Seq(Piece)
    BY <1>16 DEF ReadMirror
  <2> QED
    BY <1>0, <1>1, <1>16, <2>1, <2>2 DEF ReadMirror, caches, calls, history
<1>17. CASE UNCHANGED vars
  BY <1>0, <1>1, <1>17 DEF vars, sinks, caches, calls, reader, history
<1> QED
  BY <1>2, <1>3, <1>4, <1>5, <1>6, <1>7, <1>8, <1>9, <1>10, <1>11, <1>12, <1>13, <1>14,
     <1>15, <1>16, <1>17 DEF Next, Appending

-----------------------------------------------------------------------------
(* The calls under way.                                                    *)

\* Locks, hashes, sizes and failing calls, action by action.
LEMMA CallsStep == AuditInv /\ [Next]_vars => CallsInv'
<1> SUFFICES ASSUME AuditInv, [Next]_vars PROVE CallsInv'
  OBVIOUS
<1>0. /\ TypeOK /\ CallsInv /\ size \in Nat /\ size' \in Nat /\ size <= size'
      /\ \A w \in Writer : pending[w] \in Line /\ pending[w].hash \in Nat
      /\ \A w \in Writer : sent[w] \in 0..3 /\ cachedSize[w] \in Int /\ peeked[w] \in Nat
      /\ \A w \in Writer : cachedSize[w] <= size' /\ peeked[w] <= size'
  BY SinksKeep, Typed DEF AuditInv, CallsInv, SizesPast
<1>1. Free \notin Writer /\ MaxEntries \in Nat
  BY AuditAssumption
<1> USE DEF TypeOK, CallsInv
<1>2. ASSUME NEW w \in Writer, PeekSize(w) PROVE CallsInv'
  <2>1. LockExclusive'
    BY <1>0, <1>1, <1>2 DEF PeekSize, calls, history, sinks, LockExclusive, Holding, Step
  <2>2. Composed'
    BY <1>0, <1>1, <1>2 DEF PeekSize, calls, history, sinks, Composed, Active, LockExclusive, Holding
  <2>3. SizesPast'
    BY <1>0, <1>2 DEF PeekSize, calls, history, sinks, SizesPast
  <2>4. Failing'
    BY <1>0, <1>2 DEF PeekSize, calls, history, sinks, Failing
  <2> QED
    BY <2>1, <2>2, <2>3, <2>4
<1>3. ASSUME NEW w \in Writer, PeekScan(w) PROVE CallsInv'
  <2>1. LockExclusive'
    BY <1>0, <1>1, <1>3 DEF PeekScan, calls, history, sinks, LockExclusive, Holding, Step
  <2>2. Composed'
    BY <1>0, <1>1, <1>3 DEF PeekScan, calls, history, sinks, Composed, Active, LockExclusive, Holding
  <2>3. SizesPast'
    BY <1>0, <1>3 DEF PeekScan, calls, history, sinks, SizesPast
  <2>4. Failing'
    BY <1>0, <1>3 DEF PeekScan, calls, history, sinks, Failing
  <2> QED
    BY <2>1, <2>2, <2>3, <2>4
<1>4. ASSUME NEW w \in Writer, Lock(w) PROVE CallsInv'
  <2>1. LockExclusive'
    BY <1>0, <1>1, <1>4 DEF Lock, TakesLock, caches, calls, sinks, LockExclusive, Holding, Step
  <2>2. Composed'
    BY <1>0, <1>1, <1>4 DEF Lock, TakesLock, caches, calls, sinks, Composed, Active, LockExclusive, Holding
  <2>3. SizesPast'
    BY <1>0, <1>4 DEF Lock, TakesLock, caches, calls, sinks, SizesPast
  <2>4. Failing'
    BY <1>0, <1>4 DEF Lock, TakesLock, caches, calls, sinks, Failing
  <2> QED
    BY <2>1, <2>2, <2>3, <2>4
<1>5. ASSUME NEW w \in Writer, ReadHead(w) PROVE CallsInv'
  <2>0. /\ HeadSeen(w) \in Line /\ NewLine(HeadSeen(w)) \in Line
        /\ NewLine(HeadSeen(w)).hash = made + 1
    BY <1>0, Typed, NewLineTyped
  <2> DEFINE new == NewLine(HeadSeen(w))
  <2>5. /\ pending' = [pending EXCEPT ![w] = new] /\ made' = made + 1 /\ lost' = lost
        /\ pc' = [pc EXCEPT ![w] = "headed"] /\ lock' = lock /\ sent' = sent /\ peeked' = peeked
        /\ cachedSize' = [cachedSize EXCEPT ![w] = size] /\ size' = size /\ pc[w] = "locked"
    BY <1>5 DEF ReadHead, sinks, history
  <2>6. new.hash = made + 1
    BY <2>0
  <2> HIDE DEF new
  <2>1. LockExclusive'
    BY <1>0, <2>5 DEF LockExclusive, Holding
  <2>2. Composed'
    <3>1. made' \in Nat /\ made' <= MaxEntries /\ \A v \in Writer : v # w => pc[v] # "locked"
      BY <1>0, <1>1, <2>5 DEF Composed, LockExclusive, Holding
    <3>2. \A v \in Writer : v # w => pc'[v] = pc[v] /\ pending'[v] = pending[v]
      BY <1>0, <2>5
    <3>3. pc'[w] = "headed" /\ pending'[w].hash = made + 1
      BY <1>0, <2>5, <2>6
    <3>4. \A v \in Writer : pc[v] \in Active => pending[v].hash \in 1 .. made
      BY <1>0 DEF Composed
    <3>5. \A v \in Writer : pc'[v] \in Active => pending'[v].hash \in 1 .. made'
      BY <1>0, <2>5, <3>2, <3>3, <3>4
    <3>6. \A u, v \in Writer : pc'[u] \in Active /\ pc'[v] \in Active /\ u # v =>
            pending'[u].hash # pending'[v].hash
      <4> TAKE u, v \in Writer
      <4>1. CASE u = w
        BY <1>0, <3>2, <3>3, <3>4, <4>1
      <4>2. CASE v = w
        BY <1>0, <3>2, <3>3, <3>4, <4>2
      <4>3. CASE u # w /\ v # w
        BY <1>0, <3>2, <4>3 DEF Composed
      <4> QED
        BY <4>1, <4>2, <4>3
    <3>7. \A v \in Writer : pc'[v] # "locked"
      BY <3>1, <3>2, <3>3
    <3> QED
      BY <3>1, <3>5, <3>6, <3>7 DEF Composed
  <2>3. SizesPast'
    BY <1>0, <2>5 DEF SizesPast
  <2>4. Failing'
    BY <1>0, <2>5 DEF Failing
  <2> QED
    BY <2>1, <2>2, <2>3, <2>4
<1>6. ASSUME NEW w \in Writer, HeadRaises(w) PROVE CallsInv'
  <2>1. LockExclusive'
    BY <1>0, <1>1, <1>6 DEF HeadRaises, caches, calls, history, sinks, LockExclusive, Holding, Step
  <2>2. Composed'
    BY <1>0, <1>1, <1>6 DEF HeadRaises, caches, calls, history, sinks, Composed, Active, LockExclusive, Holding
  <2>3. SizesPast'
    BY <1>0, <1>6 DEF HeadRaises, caches, calls, history, sinks, SizesPast
  <2>4. Failing'
    BY <1>0, <1>6 DEF HeadRaises, caches, calls, history, sinks, Failing
  <2> QED
    BY <2>1, <2>2, <2>3, <2>4
<1>7. ASSUME NEW w \in Writer, Write(w) PROVE CallsInv'
  <2>1. LockExclusive'
    BY <1>0, <1>1, <1>7 DEF Write, calls, history, LockExclusive, Holding, Step
  <2>2. Composed'
    BY <1>0, <1>1, <1>7 DEF Write, calls, history, Composed, Active, LockExclusive, Holding
  <2>3. SizesPast'
    BY <1>0, <1>7 DEF Write, calls, history, SizesPast
  <2>4. Failing'
    BY <1>0, <1>7 DEF Write, calls, history, Failing
  <2> QED
    BY <2>1, <2>2, <2>3, <2>4
<1>8. ASSUME NEW w \in Writer, WriteStops(w) PROVE CallsInv'
  <2>1. LockExclusive'
    BY <1>0, <1>1, <1>8 DEF WriteStops, caches, LockExclusive, Holding, Step
  <2>2. Composed'
    BY <1>0, <1>1, <1>8 DEF WriteStops, caches, Composed, Active, LockExclusive, Holding
  <2>3. SizesPast'
    BY <1>0, <1>8 DEF WriteStops, caches, SizesPast
  <2>4. Failing'
    BY <1>0, <1>8 DEF WriteStops, caches, Failing
  <2> QED
    BY <2>1, <2>2, <2>3, <2>4
<1>9. ASSUME NEW w \in Writer, Close(w) PROVE CallsInv'
  <2>1. LockExclusive'
    BY <1>0, <1>1, <1>9 DEF Close, Returns, caches, history, LockExclusive, Holding, Step
  <2>2. Composed'
    BY <1>0, <1>1, <1>9 DEF Close, Returns, caches, history, Composed, Active, LockExclusive, Holding
  <2>3. SizesPast'
    BY <1>0, <1>9 DEF Close, Returns, caches, history, SizesPast
  <2>4. Failing'
    BY <1>0, <1>9 DEF Close, Returns, caches, history, Failing
  <2> QED
    BY <2>1, <2>2, <2>3, <2>4
<1>10. ASSUME NEW w \in Writer, Unlock(w) PROVE CallsInv'
  <2>1. LockExclusive'
    BY <1>0, <1>1, <1>10 DEF Unlock, caches, calls, history, LockExclusive, Holding, Step
  <2>2. Composed'
    BY <1>0, <1>1, <1>10 DEF Unlock, caches, calls, history, Composed, Active, LockExclusive, Holding
  <2>3. SizesPast'
    BY <1>0, <1>10 DEF Unlock, caches, calls, history, SizesPast
  <2>4. Failing'
    BY <1>0, <1>10 DEF Unlock, caches, calls, history, Failing
  <2> QED
    BY <2>1, <2>2, <2>3, <2>4
<1>11. ASSUME NEW w \in Writer, WriteMirror(w) PROVE CallsInv'
  <2>1. LockExclusive'
    BY <1>0, <1>1, <1>11 DEF WriteMirror, Returns, caches, history, LockExclusive, Holding, Step
  <2>2. Composed'
    BY <1>0, <1>1, <1>11 DEF WriteMirror, Returns, caches, history, Composed, Active, LockExclusive, Holding
  <2>3. SizesPast'
    BY <1>0, <1>11 DEF WriteMirror, Returns, caches, history, SizesPast
  <2>4. Failing'
    BY <1>0, <1>11 DEF WriteMirror, Returns, caches, history, Failing
  <2> QED
    BY <2>1, <2>2, <2>3, <2>4
<1>12. ASSUME NEW w \in Writer, MirrorFails(w) PROVE CallsInv'
  <2>1. LockExclusive'
    BY <1>0, <1>1, <1>12 DEF MirrorFails, caches, LockExclusive, Holding, Step
  <2>2. Composed'
    BY <1>0, <1>1, <1>12 DEF MirrorFails, caches, Composed, Active, LockExclusive, Holding
  <2>3. SizesPast'
    BY <1>0, <1>12 DEF MirrorFails, caches, SizesPast
  <2>4. Failing'
    BY <1>0, <1>12 DEF MirrorFails, caches, Failing
  <2> QED
    BY <2>1, <2>2, <2>3, <2>4
<1>13. ASSUME NEW w \in Writer, MirrorClose(w) PROVE CallsInv'
  <2>1. LockExclusive'
    BY <1>0, <1>1, <1>13 DEF MirrorClose, Returns, caches, history, LockExclusive, Holding, Step
  <2>2. Composed'
    BY <1>0, <1>1, <1>13 DEF MirrorClose, Returns, caches, history, Composed, Active, LockExclusive, Holding
  <2>3. SizesPast'
    BY <1>0, <1>13 DEF MirrorClose, Returns, caches, history, SizesPast
  <2>4. Failing'
    BY <1>0, <1>13 DEF MirrorClose, Returns, caches, history, Failing
  <2> QED
    BY <2>1, <2>2, <2>3, <2>4
<1>14. ASSUME NEW w \in Writer, Crash(w) PROVE CallsInv'
  <2>1. LockExclusive'
    BY <1>0, <1>1, <1>14 DEF Crash, Returns, LockExclusive, Holding, Step
  <2>2. Composed'
    BY <1>0, <1>1, <1>14 DEF Crash, Returns, Composed, Active, LockExclusive, Holding
  <2>3. SizesPast'
    BY <1>0, <1>14 DEF Crash, Returns, SizesPast
  <2>4. Failing'
    BY <1>0, <1>14 DEF Crash, Returns, Failing
  <2> QED
    BY <2>1, <2>2, <2>3, <2>4
<1>15. CASE ReadPrimary
  BY <1>0, <1>15 DEF ReadPrimary, caches, calls, history, sinks, LockExclusive, Composed, SizesPast, Failing
<1>16. CASE ReadMirror
  BY <1>0, <1>16 DEF ReadMirror, caches, calls, history, sinks, LockExclusive, Composed, SizesPast, Failing
<1>17. CASE UNCHANGED vars
  BY <1>0, <1>17 DEF vars, sinks, caches, calls, reader, history, LockExclusive, Composed, SizesPast, Failing
<1> QED
  BY <1>2, <1>3, <1>4, <1>5, <1>6, <1>7, <1>8, <1>9, <1>10, <1>11, <1>12, <1>13, <1>14,
     <1>15, <1>16, <1>17 DEF Next, Appending

\* What the steps of another process leave to a call that is under way.
LEMMA CallKept ==
  ASSUME AuditInv, [Next]_vars
  PROVE  /\ made' \in Nat /\ made <= made'
         /\ \A v, w \in Writer : PrimaryWrite(v) /\ v # w =>
              /\ pc'[w] = pc[w] /\ pending'[w] = pending[w] /\ sent'[w] = sent[w]
              /\ cachedHead'[w] = cachedHead[w] /\ cachedSize'[w] = cachedSize[w]
         /\ \A v \in Writer : PrimaryWrite(v) => pc'[v] \in {"written", "closing", "idle"}
         /\ \A w \in Writer : pc'[w] \in {"headed", "closing"} =>
              \/ ReadHead(w)
              \/ /\ pc[w] \in {"headed", "closing"} /\ pending'[w] = pending[w]
                 /\ sent'[w] = sent[w] \/ WriteStops(w)
<1>0. made \in Nat
  BY DEF AuditInv, TypeOK
<1>1. made' \in Nat /\ made <= made'
  BY <1>0 DEF Next, vars, calls, PeekSize, PeekScan, Appending, Lock, TakesLock, ReadHead, HeadRaises,
    Write, WriteStops, Close, Unlock, WriteMirror, MirrorFails, MirrorClose, Crash, Returns,
    ReadPrimary, ReadMirror
<1>2. ASSUME NEW v \in Writer, NEW w \in Writer, PrimaryWrite(v), v # w
      PROVE  /\ pc'[w] = pc[w] /\ pending'[w] = pending[w] /\ sent'[w] = sent[w]
             /\ cachedHead'[w] = cachedHead[w] /\ cachedSize'[w] = cachedSize[w]
  BY <1>2 DEF PrimaryWrite, Write, WriteStops, Close, Crash, Returns, caches, calls, AuditInv, TypeOK
<1>3. ASSUME NEW v \in Writer, PrimaryWrite(v) PROVE pc'[v] \in {"written", "closing", "idle"}
  BY <1>3 DEF PrimaryWrite, Write, WriteStops, Close, Crash, Returns, AuditInv, TypeOK
<1>4. ASSUME NEW w \in Writer, pc'[w] \in {"headed", "closing"}
      PROVE  \/ ReadHead(w)
             \/ /\ pc[w] \in {"headed", "closing"} /\ pending'[w] = pending[w]
                /\ sent'[w] = sent[w] \/ WriteStops(w)
  <2>1. ASSUME NEW v \in Writer, PeekSize(v) \/ PeekScan(v) \/ Appending(v) \/ Crash(v), v # w
        PROVE  pc'[w] = pc[w] /\ pending'[w] = pending[w] /\ sent'[w] = sent[w]
    BY <2>1 DEF PeekSize, PeekScan, Appending, Lock, TakesLock, ReadHead, HeadRaises, Write,
      WriteStops, Close, Unlock, WriteMirror, MirrorFails, MirrorClose, Crash, Returns, calls,
      AuditInv, TypeOK
  <2>2. ASSUME ReadPrimary \/ ReadMirror \/ UNCHANGED vars
        PROVE  pc'[w] = pc[w] /\ pending'[w] = pending[w] /\ sent'[w] = sent[w]
    BY <2>2 DEF ReadPrimary, ReadMirror, vars, calls
  <2>3. ASSUME PeekSize(w) \/ PeekScan(w) \/ Appending(w) \/ Crash(w)
        PROVE  ReadHead(w) \/ WriteStops(w)
    BY <1>4, <2>3 DEF PeekSize, PeekScan, Appending, Lock, TakesLock, HeadRaises, Write,
      Close, Unlock, WriteMirror, MirrorFails, MirrorClose, Crash, Returns, AuditInv, TypeOK
  <2>4. WriteStops(w) => pc[w] = "headed" /\ pending' = pending
    BY DEF WriteStops
  <2> QED
    BY <1>4, <2>1, <2>2, <2>3, <2>4 DEF Next
<1> QED
  BY <1>1, <1>2, <1>3, <1>4

\* Only entries that were composed get to the primary.
LEMMA RecordedStep ==
  ASSUME AuditInv, [Next]_vars PROVE Recorded'
<1> SUFFICES ASSUME NEW n \in DOMAIN primary' PROVE primary'[n].of.hash \in 1 .. made'
  BY DEF Recorded
<1>1. primary'[n].of.hash \in 1 .. made
  <2>1. CASE n \in DOMAIN primary /\ primary'[n].of = primary[n].of
    BY <2>1 DEF AuditInv, Recorded
  <2>2. ASSUME NEW v \in Writer, PrimaryWrite(v), primary'[n].of = pending[v]
        PROVE  primary'[n].of.hash \in 1 .. made
    BY <2>2, PrimaryWrites DEF AuditInv, CallsInv, Composed, Active
  <2> QED
    BY <2>1, <2>2, PrimaryLines
<1>2. made \in Nat
  BY DEF AuditInv, TypeOK
<1> QED
  BY <1>1, <1>2, CallKept

\* A line is not in the primary before its process writes it.
LEMMA UnwrittenStep ==
  ASSUME AuditInv, [Next]_vars PROVE Unwritten'
<1> SUFFICES ASSUME NEW w \in Writer, pc'[w] \in {"headed", "closing"}, sent'[w] = 0,
                    NEW n \in DOMAIN primary'
             PROVE  primary'[n].of.hash # pending'[w].hash
  BY DEF Unwritten
<1>1. CASE ReadHead(w)
  <2>1. primary' = primary /\ pending'[w].hash = made + 1 /\ made \in Nat
    BY <1>1, Typed, NewLineTyped DEF ReadHead, sinks, AuditInv, TypeOK
  <2>2. primary[n].of.hash \in 1 .. made
    BY <2>1 DEF AuditInv, Recorded
  <2> QED
    BY <2>1, <2>2
<1>2. CASE WriteStops(w)
  <2>1. sent[w] = 0 /\ pc[w] = "headed" /\ pending' = pending
    BY <1>2 DEF WriteStops, AuditInv, CallsInv, Failing
  <2>2. primary' = primary
    <3>1. PICK j \in 0..3 : primary' = Put(primary, pending[w], sent[w], j) /\ sent' = [sent EXCEPT ![w] = j]
      BY <1>2 DEF WriteStops, WritePrimary
    <3>2. j = 0
      BY <3>1 DEF AuditInv, TypeOK
    <3> QED
      BY <2>1, <3>1, <3>2 DEF Put
  <2> QED
    BY <2>1, <2>2 DEF AuditInv, Unwritten
<1>3. CASE /\ pc[w] \in {"headed", "closing"} /\ pending'[w] = pending[w] /\ sent'[w] = sent[w]
           /\ ~WriteStops(w)
  <2>0. \A m \in DOMAIN primary : primary[m].of.hash # pending[w].hash
    BY <1>3 DEF AuditInv, Unwritten
  <2>1. CASE n \in DOMAIN primary /\ primary'[n].of = primary[n].of
    BY <1>3, <2>0, <2>1
  <2>2. ASSUME NEW v \in Writer, PrimaryWrite(v), primary'[n].of = pending[v]
        PROVE  primary'[n].of.hash # pending'[w].hash
    <3>1. CASE v # w
      BY <1>3, <2>2, <3>1, PrimaryWrites DEF AuditInv, CallsInv, Composed, Active
    <3>2. CASE v = w
      <4>1. Close(w) \/ Crash(w) \/ Write(w)
        BY <1>3, <2>2, <3>2 DEF PrimaryWrite
      <4>2. pc'[w] \notin {"headed", "closing"}
        BY <4>1 DEF Close, Crash, Write, Returns, AuditInv, TypeOK
      <4> QED
        BY <4>2
    <3> QED
      BY <3>1, <3>2
  <2> QED
    BY <2>1, <2>2, PrimaryLines
<1> QED
  BY <1>1, <1>2, <1>3, CallKept

\* The invariants hold at the start.
LEMMA AuditInit == Init => AuditInv
<1> SUFFICES ASSUME Init PROVE AuditInv
  OBVIOUS
<1>1. NoLine \in Line
  BY DEF NoLine, Line
<1>2. TypeOK
  <2>1. primary \in Seq(Piece) /\ mirror \in Seq(Piece) /\ seen \in Seq(Piece) /\ size \in Nat
    BY DEF Init
  <2>2. /\ pending \in [Writer -> Line] /\ cachedHead \in [Writer -> Line]
        /\ pc \in [Writer -> Step] /\ verdict \in Verdict
    BY <1>1 DEF Init, Step, Verdict
  <2>3. cachedSize \in [Writer -> Nat \cup {-1}]
    BY DEF Init
  <2>4. peeked \in [Writer -> Nat] /\ sent \in [Writer -> 0..3]
    BY DEF Init
  <2> QED
    BY <2>1, <2>2, <2>3, <2>4 DEF Init, TypeOK
<1>3. CallsInv
  BY AuditAssumption DEF Init, CallsInv, LockExclusive, Composed, SizesPast, Failing, Holding, Active
<1> QED
  BY <1>2, <1>3 DEF Init, AuditInv, Recorded, Unwritten

\* The lock, the composed entries and the calls under way, whatever fails.
THEOREM AuditInvHolds == Spec => []AuditInv
<1>1. AuditInv /\ [Next]_vars => AuditInv'
  BY TypeStep, CallsStep, RecordedStep, UnwrittenStep DEF AuditInv
<1> QED
  BY <1>1, AuditInit, PTL DEF Spec

\* Whatever processes do, and wherever they die, every variable keeps its type.
THEOREM AuditTypesHold == Spec => []TypeOK
<1>1. AuditInv => TypeOK
  BY DEF AuditInv
<1> QED
  BY <1>1, AuditInvHolds, PTL

-----------------------------------------------------------------------------
(* The chain of the primary.                                               *)

\* The process that may write to the primary is alone.
LEMMA Alone ==
  ASSUME AuditInv, LoneCloser, NEW v \in Writer, NEW w \in Writer, v # w,
         pc[v] \in {"headed", "closing"}
  PROVE  pc[w] \notin Holding \cup {"closing"}
BY DEF AuditInv, CallsInv, LockExclusive, LoneCloser, Holding

\* The lock is taken while a failed append closes its file, or overlapped stays.
LEMMA Overlaps ==
  ASSUME TypeOK, [Next]_vars
  PROVE  /\ overlapped => overlapped'
         /\ \A w \in Writer : Lock(w) /\ ~overlapped' => Closing = {}
<1>1. ASSUME NEW w \in Writer, Lock(w)
      PROVE  (overlapped => overlapped') /\ (~overlapped' => Closing = {})
  BY <1>1 DEF Lock, TakesLock
<1>2. ASSUME \A w \in Writer : ~Lock(w) PROVE overlapped' = overlapped
  BY <1>2 DEF Next, vars, history, PeekSize, PeekScan, Appending, ReadHead, HeadRaises,
    Write, WriteStops, Close, Unlock, WriteMirror, MirrorFails, MirrorClose, Crash, Returns,
    ReadPrimary, ReadMirror
<1> QED
  BY <1>1, <1>2

\* A process that closes its file is alone until the lock is taken too early.
LEMMA LoneCloserStep ==
  ASSUME AuditInv, LoneCloser, [Next]_vars, ~overlapped'
  PROVE  LoneCloser'
<1> SUFFICES ASSUME NEW u \in Writer, NEW w \in Writer, u # w, pc'[u] = "closing",
                    pc'[w] \in Holding \cup {"closing"}
             PROVE  FALSE
  BY DEF LoneCloser, Holding
<1>0. TypeOK
  BY DEF AuditInv
<1>1. pc[u] = "closing" \/ (WriteStops(u) /\ pc[u] = "headed")
  <2>1. ASSUME NEW v \in Writer, PeekSize(v) \/ PeekScan(v) \/ Appending(v) \/ Crash(v), ~WriteStops(v)
        PROVE  pc'[u] = "closing" => pc[u] = "closing"
    BY <1>0, <2>1 DEF TypeOK, PeekSize, PeekScan, Appending, Lock, TakesLock, ReadHead, HeadRaises, Write,
      Close, Unlock, WriteMirror, MirrorFails, MirrorClose, Crash, Returns
  <2>2. ASSUME NEW v \in Writer, WriteStops(v)
        PROVE  pc[u] = "closing" \/ (v = u /\ pc[u] = "headed")
    BY <1>0, <2>2 DEF TypeOK, WriteStops
  <2>3. ASSUME ReadPrimary \/ ReadMirror \/ UNCHANGED vars PROVE pc' = pc
    BY <2>3 DEF ReadPrimary, ReadMirror, vars
  <2> QED
    BY <2>1, <2>2, <2>3 DEF Next
<1>2. pc[w] \in Holding \cup {"closing"} \/ (Lock(w) /\ pc'[u] = pc[u])
  <2>1. ASSUME NEW v \in Writer, PeekSize(v) \/ PeekScan(v) \/ Appending(v) \/ Crash(v), ~Lock(v)
        PROVE  pc'[w] \in Holding \cup {"closing"} => pc[w] \in Holding \cup {"closing"}
    BY <1>0, <2>1 DEF TypeOK, Holding, PeekSize, PeekScan, Appending, ReadHead, HeadRaises, Write,
      WriteStops, Close, Unlock, WriteMirror, MirrorFails, MirrorClose, Crash, Returns
  <2>2. ASSUME NEW v \in Writer, Lock(v)
        PROVE  pc[w] \in Holding \cup {"closing"} \/ (v = w /\ pc'[u] = pc[u])
    BY <1>0, <2>2 DEF TypeOK, Holding, Lock, TakesLock
  <2>3. ASSUME ReadPrimary \/ ReadMirror \/ UNCHANGED vars PROVE pc' = pc
    BY <2>3 DEF ReadPrimary, ReadMirror, vars
  <2> QED
    BY <2>1, <2>2, <2>3 DEF Next
<1>3. CASE pc[w] \in Holding \cup {"closing"}
  <2>1. CASE pc[u] = "closing"
    BY <1>3, <2>1 DEF LoneCloser
  <2>2. CASE pc[u] = "headed"
    BY <1>3, <2>2, Alone
  <2> QED
    BY <1>1, <2>1, <2>2
<1>4. CASE Lock(w) /\ pc'[u] = pc[u]
  <2>1. Closing = {}
    BY <1>0, <1>4, Overlaps
  <2> QED
    BY <1>4, <2>1 DEF Closing
<1> QED
  BY <1>2, <1>3, <1>4

\* The line a process composes under the lock follows the last one.
LEMMA HeadFollows ==
  ASSUME AuditInv, ~overlapped, ChainInv, NEW w \in Writer, ReadHead(w)
  PROVE  /\ HeadSeen(w) = LastLine /\ TailWhole(primary)
         /\ Follows(NewLine(HeadSeen(w)), primary)
<1>1. Numbered(primary) /\ (CacheHit(w) => cachedHead[w] = LastLine /\ TailWhole(primary))
  BY DEF ChainInv, CachedTail
<1>2. HeadSeen(w) = LastLine
  BY <1>1 DEF HeadSeen
<1>3. primary \in Seq(Piece) /\ made \in Nat
  BY DEF AuditInv, TypeOK
<1>4. TailWhole(primary)
  BY <1>1, <1>3, SinkPieces DEF ReadHead, Readable, TailWhole
<1>5. CASE primary = <<>>
  <2>1. LastLine = NoLine /\ Len(primary) = 0
    BY <1>3, <1>5, SinkPieces DEF LastLine
  <2> QED
    BY <1>2, <1>4, <1>5, <2>1 DEF Follows, NewLine, Chain!Genesis
<1>6. CASE primary # <<>>
  <2>1. Len(primary) \in DOMAIN primary /\ Len(primary) \in Nat
    BY <1>3, <1>6, SinkPieces
  <2>2. LastLine = primary[Len(primary)].of
    BY <1>6 DEF LastLine
  <2>3. LastLine.hash \in 1 .. made /\ LastLine.seq = Len(primary) - 1
    BY <1>1, <2>1, <2>2 DEF AuditInv, Recorded, Numbered
  <2>4. LastLine # NoLine
    BY <1>3, <2>3 DEF NoLine
  <2> QED
    BY <1>2, <1>4, <1>6, <2>1, <2>2, <2>3, <2>4 DEF Follows, NewLine
<1> QED
  BY <1>2, <1>4, <1>5, <1>6

\* A write to the primary goes on with the line it is writing.
LEMMA TailWritten ==
  ASSUME AuditInv, ~overlapped, ChainInv, NEW v \in Writer, PrimaryWrite(v)
  PROVE  /\ \E j \in sent[v]..3 :
              /\ primary' = Put(primary, pending[v], sent[v], j)
              /\ size' = IF j = sent[v] THEN size ELSE size + 1
         /\ \A j \in sent[v]..3 :
              primary' = Put(primary, pending[v], sent[v], j) =>
                /\ Numbered(primary') /\ TailIs(primary', pending[v], j)
                /\ Continued(primary, pending[v], sent[v], primary')
<1>1. pc[v] \in {"headed", "closing"}
  BY PrimaryWrites
<1>2. TailIs(primary, pending[v], sent[v]) /\ Numbered(primary)
  BY <1>1 DEF ChainInv, Tails
<1>3. primary \in Seq(Piece) /\ pending[v] \in Line /\ sent[v] \in 0..3
  BY Typed DEF AuditInv
<1>4. ASSUME NEW j \in sent[v]..3, primary' = Put(primary, pending[v], sent[v], j)
      PROVE  /\ Numbered(primary') /\ TailIs(primary', pending[v], j)
             /\ Continued(primary, pending[v], sent[v], primary')
  BY ONLY <1>2, <1>3, <1>4, TailStep
<1> QED
  BY <1>4, PrimaryWrites

\* The line under way stays at the tail.
LEMMA TailsStep ==
  ASSUME AuditInv, ~overlapped, ChainInv, [Next]_vars
  PROVE  Tails'
<1> SUFFICES ASSUME NEW w \in Writer, pc'[w] \in {"headed", "closing"}
             PROVE  TailIs(primary', pending'[w], sent'[w])
  BY DEF Tails
<1>0. TypeOK /\ LoneCloser /\ Tails
  BY DEF AuditInv, ChainInv
<1>1. CASE ReadHead(w)
  <2>1. /\ primary' = primary /\ sent'[w] = sent[w] /\ pending'[w] = NewLine(HeadSeen(w))
        /\ pc[w] = "locked"
    BY <1>0, <1>1 DEF ReadHead, sinks, TypeOK
  <2>2. sent[w] = 0
    BY <2>1 DEF AuditInv, CallsInv, Failing
  <2>3. Follows(NewLine(HeadSeen(w)), primary) /\ TailWhole(primary)
    BY <1>1, HeadFollows
  <2> QED
    BY <2>1, <2>2, <2>3 DEF TailIs
<1>2. CASE WriteStops(w)
  <2>1. PICK j \in 0..3 : WritePrimary(w, j) /\ sent' = [sent EXCEPT ![w] = j]
    BY <1>2 DEF WriteStops
  <2>2. pc[w] = "headed" /\ pending' = pending /\ sent[w] = 0
    BY <1>2 DEF WriteStops, AuditInv, CallsInv, Failing
  <2>3. primary' = Put(primary, pending[w], sent[w], j) /\ j \in sent[w]..3 /\ sent'[w] = j
    BY <1>0, <2>1, <2>2 DEF WritePrimary, TypeOK
  <2>4. TailIs(primary', pending[w], j)
    BY <1>2, <2>3, TailWritten DEF PrimaryWrite
  <2> QED
    BY <2>2, <2>3, <2>4
<1>3. CASE /\ pc[w] \in {"headed", "closing"} /\ pending'[w] = pending[w] /\ sent'[w] = sent[w]
           /\ ~WriteStops(w)
  <2>1. ~PrimaryWrite(w)
    BY <1>0, <1>3 DEF PrimaryWrite, Close, Crash, Write, Returns, TypeOK
  <2>2. ASSUME NEW v \in Writer, v # w PROVE ~PrimaryWrite(v)
    <3>1. pc[v] \notin Holding \cup {"closing"}
      BY <1>0, <1>3, <2>2, Alone
    <3> QED
      BY <3>1, PrimaryWrites DEF Holding
  <2>3. primary' = primary
    BY <2>1, <2>2, OtherSteps, MirrorWrites DEF sinks
  <2> QED
    BY <1>0, <1>3, <2>3 DEF Tails
<1> QED
  BY <1>1, <1>2, <1>3, CallKept

\* A line written to its end is the last one, and whole.
LEMMA TailEnds ==
  ASSUME NEW f \in Seq(Piece), NEW line \in Line, TailIs(f, line, 3)
  PROVE  f # <<>> /\ f[Len(f)].of = line /\ TailWhole(f)
<1>1. f # <<>> /\ f[Len(f)] = NewPiece(line, 0, 3)
  BY DEF TailIs
<1>2. /\ NewPiece(line, 0, 3).of = line /\ NewPiece(line, 0, 3).from = 0
      /\ NewPiece(line, 0, 3).to = 2
  BY TailFacts
<1> QED
  BY <1>1, <1>2 DEF TailWhole, Whole

\* A cache whose process does not read or write the file.
CacheLeft(w) == cachedHead'[w] = cachedHead[w] /\ cachedSize'[w] = cachedSize[w]

\* Only a scan, a write and a crash change a cache.
LEMMA CachesKept ==
  ASSUME AuditInv, [Next]_vars, NEW w \in Writer
  PROVE  \/ CacheLeft(w) \/ PeekScan(w) \/ ReadHead(w) \/ Write(w)
         \/ Crash(w) /\ cachedSize'[w] = -1
<1>0. TypeOK
  BY DEF AuditInv
<1>1. ASSUME NEW v \in Writer, PeekSize(v) \/ PeekScan(v) \/ Appending(v) \/ Crash(v), v # w
      PROVE  CacheLeft(w)
  BY <1>0, <1>1 DEF CacheLeft, PeekSize, PeekScan, Appending, Lock, TakesLock, ReadHead, HeadRaises,
    Write, WriteStops, Close, Unlock, WriteMirror, MirrorFails, MirrorClose, Crash, caches, TypeOK
<1>2. ASSUME ReadPrimary \/ ReadMirror \/ UNCHANGED vars PROVE CacheLeft(w)
  BY <1>2 DEF CacheLeft, ReadPrimary, ReadMirror, vars, caches
<1>3. ASSUME PeekSize(w) \/ Appending(w), ~ReadHead(w), ~Write(w) PROVE CacheLeft(w)
  BY <1>3 DEF CacheLeft, PeekSize, Appending, Lock, TakesLock, HeadRaises, WriteStops, Close,
    Unlock, WriteMirror, MirrorFails, MirrorClose, caches
<1>4. Crash(w) => cachedSize'[w] = -1
  BY <1>0 DEF Crash, TypeOK
<1> QED
  BY <1>1, <1>2, <1>3, <1>4 DEF Next

\* A cache stays true to its size.
LEMMA CachedTailStep ==
  ASSUME AuditInv, ~overlapped, ChainInv, [Next]_vars
  PROVE  CachedTail'
<1> SUFFICES ASSUME NEW w \in Writer, cachedSize'[w] = size'
             PROVE  cachedHead'[w] = LastLine' /\ TailWhole(primary')
  BY DEF CachedTail, CacheHit
<1>0. TypeOK /\ CachedTail /\ primary \in Seq(Piece) /\ primary' \in Seq(Piece)
  BY PrimaryLines DEF AuditInv, ChainInv, TypeOK
<1>1. CASE Write(w)
  <2>1. pc[w] = "headed" /\ primary' = Put(primary, pending[w], sent[w], 3) /\ 3 \in sent[w]..3
    <3>1. sent[w] \in 0..3
      BY <1>0, Typed
    <3> QED
      BY <1>1, <3>1 DEF Write, WritePrimary
  <2>2. TailIs(primary', pending[w], 3) /\ pending[w] \in Line
    BY <1>1, <2>1, TailWritten, Typed DEF PrimaryWrite, AuditInv
  <2>3. primary' # <<>> /\ primary'[Len(primary')].of = pending[w] /\ TailWhole(primary')
    BY <1>0, <2>2, TailEnds
  <2> QED
    BY <1>0, <1>1, <2>3 DEF Write, LastLine, TypeOK
<1>2. CASE ReadHead(w)
  <2>1. primary' = primary /\ cachedHead'[w] = HeadSeen(w)
    BY <1>0, <1>2 DEF ReadHead, sinks, TypeOK
  <2> QED
    BY <1>2, <2>1, HeadFollows DEF LastLine
<1>3. CASE PeekScan(w) /\ ~CacheLeft(w)
  <2>1. Readable(primary) /\ primary' = primary /\ cachedHead'[w] = LastLine
    BY <1>0, <1>3 DEF PeekScan, sinks, TypeOK, CacheLeft
  <2>2. TailWhole(primary)
    BY <1>0, <2>1, SinkPieces DEF Readable, TailWhole
  <2> QED
    BY <2>1, <2>2 DEF LastLine
<1>4. CASE Crash(w) /\ cachedSize'[w] = -1
  BY <1>4, SinksKeep
<1>5. CASE CacheLeft(w)
  <2>0. cachedSize[w] <= size /\ cachedSize[w] \in Int /\ size \in Nat
    BY <1>0 DEF AuditInv, CallsInv, SizesPast, TypeOK
  <2>1. primary' = primary /\ size' = size
    <3>1. CASE \E v \in Writer : PrimaryWrite(v)
      <4>1. PICK v \in Writer : PrimaryWrite(v)
        BY <3>1
      <4>2. PICK j \in sent[v]..3 : /\ primary' = Put(primary, pending[v], sent[v], j)
                                    /\ size' = IF j = sent[v] THEN size ELSE size + 1
        BY <4>1, PrimaryWrites
      <4>3. size' = cachedSize[w]
        BY <1>5 DEF CacheLeft
      <4>4. size' # size + 1
        BY <2>0, <4>3
      <4>5. size' = size /\ j = sent[v]
        BY <4>2, <4>4
      <4> QED
        BY <4>2, <4>5 DEF Put
    <3>2. CASE \A v \in Writer : ~PrimaryWrite(v)
      BY <3>2, OtherSteps, MirrorWrites DEF sinks
    <3> QED
      BY <3>1, <3>2
  <2>2. CacheHit(w)
    BY <1>5, <2>1 DEF CacheHit, CacheLeft
  <2>3. cachedHead[w] = LastLine /\ TailWhole(primary)
    BY <1>0, <2>2 DEF CachedTail
  <2> QED
    BY <1>5, <2>1, <2>3 DEF CacheLeft, LastLine
<1> QED
  BY <1>1, <1>2, <1>3, <1>4, <1>5, CachesKept

\* The chain of the primary, kept by every step.
LEMMA ChainStep == AuditInv /\ ChainInv /\ [Next]_vars => ChainInv'
<1> SUFFICES ASSUME AuditInv, ChainInv, [Next]_vars, ~overlapped' PROVE ChainInv'
  BY DEF ChainInv
<1>1. ~overlapped
  BY Overlaps DEF AuditInv
<1>2. LoneCloser' /\ Tails' /\ CachedTail'
  BY <1>1, LoneCloserStep, TailsStep, CachedTailStep DEF ChainInv
<1>3. Numbered(primary')
  <2>1. ASSUME NEW v \in Writer, PrimaryWrite(v) PROVE Numbered(primary')
    BY <1>1, <2>1, TailWritten
  <2>2. ASSUME \A v \in Writer : ~PrimaryWrite(v) PROVE Numbered(primary')
    <3>1. primary' = primary
      BY <2>2, OtherSteps, MirrorWrites DEF sinks
    <3> QED
      BY <1>1, <3>1 DEF ChainInv
  <2> QED
    BY <2>1, <2>2
<1> QED
  BY <1>2, <1>3 DEF ChainInv

\* An empty primary is a chain.
LEMMA ChainInit == Init => ChainInv
BY DEF Init, ChainInv, LoneCloser, Numbered, Tails, CachedTail, CacheHit

\* The primary and the caches, until the lock is taken too early.
THEOREM ChainInvHolds == Spec => [](AuditInv /\ ChainInv)
<1>1. Init => AuditInv /\ ChainInv
  BY AuditInit, ChainInit
<1>2. AuditInv /\ [Next]_vars => AuditInv'
  BY TypeStep, CallsStep, RecordedStep, UnwrittenStep DEF AuditInv
<1> QED
  BY <1>1, <1>2, ChainStep, PTL DEF Spec

\* The lock is taken too early after a write that raised, and no other way: with
\* crashes and a failing mirror alone, what is proved of the chain needs no
\* condition.
THEOREM OnlyFailuresOverlap ==
  ASSUME "torn" \notin Env
  PROVE  Spec => []~overlapped
<1> DEFINE I == Closing = {} /\ ~overlapped
<1>1. Init => I
  BY DEF Init, Closing
<1>2. ASSUME TypeOK, I, [Next]_vars PROVE I'
  <2>1. ASSUME NEW w \in Writer, PeekSize(w) \/ PeekScan(w) \/ Appending(w) \/ Crash(w)
        PROVE  /\ \A v \in Writer : pc'[v] = "closing" => pc[v] = "closing"
               /\ overlapped' = overlapped
    BY <1>2, <2>1 DEF TypeOK, PeekSize, PeekScan, Appending, Lock, TakesLock, ReadHead, HeadRaises, Write,
      WriteStops, Close, Unlock, WriteMirror, MirrorFails, MirrorClose, Crash, Returns, history
  <2>2. ASSUME ReadPrimary \/ ReadMirror \/ UNCHANGED vars PROVE pc' = pc /\ overlapped' = overlapped
    BY <2>2 DEF ReadPrimary, ReadMirror, vars, history
  <2> QED
    BY <1>2, <2>1, <2>2 DEF Next, Closing
<1>3. I => ~overlapped
  OBVIOUS
<1>4. TypeOK /\ I /\ [Next]_vars => I'
  BY <1>2
<1> HIDE DEF I
<1> QED
  BY <1>1, <1>3, <1>4, AuditTypesHold, PTL DEF Spec

\* append, "computing seq/prev_hash and writing must be one critical section": the
\* primary of any number of processes verifies whenever it can be read, after
\* any appends, crashes and failed writes but the overlapped ones.
THEOREM ChainAlwaysIntact == Spec => []ChainIntact
<1>1. AuditInv /\ ChainInv => ChainIntact
  <2> SUFFICES ASSUME AuditInv, ChainInv, ~overlapped PROVE Chain!Linked(Entries(primary))
    BY DEF ChainIntact
  <2>1. Numbered(primary) /\ primary \in Seq(Piece)
    BY DEF ChainInv, AuditInv, TypeOK
  <2>2. DOMAIN Entries(primary) = DOMAIN primary /\ DOMAIN primary = 1 .. Len(primary)
    BY <2>1, SinkPieces DEF Entries
  <2>3. \A n \in DOMAIN primary : Entries(primary)[n] = primary[n].of
    BY DEF Entries
  <2>4. \A n \in DOMAIN primary : n # 1 => n - 1 \in DOMAIN primary
    BY <2>1, <2>2, SinkPieces
  <2> HIDE DEF Entries
  <2> QED
    BY <2>1, <2>2, <2>3, <2>4 DEF Chain!Linked, Chain!Genesis, Numbered
<1> QED
  BY <1>1, ChainInvHolds, PTL

\* head, "the size check is what makes the cache safe": it is, for any number of
\* processes, under the same condition.
THEOREM CacheIsCoherent == Spec => []CacheCoherent
<1>1. ChainInv => CacheCoherent
  BY DEF ChainInv, CachedTail, CacheCoherent
<1> QED
  BY <1>1, ChainInvHolds, PTL

\* append never writes over an entry that was cut short, under the same
\* condition: wherever a write stops, the next one finds the head or raises.
THEOREM DamageStaysAtTail == Spec => []DamageAtTail
<1>1. ChainInv => DamageAtTail
  BY DEF ChainInv, Numbered, DamageAtTail, Whole
<1> QED
  BY <1>1, ChainInvHolds, PTL

\* The entry that follows is the one the abstract chain appends.
LEMMA EntriesLinked ==
  ASSUME NEW f \in Seq(Piece), NEW line \in Line, NEW p \in Piece, p.of = line, Follows(line, f)
  PROVE  Entries(Append(f, p)) =
           Append(Entries(f), [seq |-> Len(Entries(f)), prev |-> Chain!HeadHash(Entries(f)),
                               hash |-> line.hash])
<1> DEFINE e == Entries(f)
           g == Append(f, p)
<1>1. Len(f) \in Nat /\ DOMAIN f = 1 .. Len(f) /\ \A n \in DOMAIN f : f[n].of \in Line
  BY SinkPieces
<1>2. e \in Seq(Line) /\ Len(e) = Len(f) /\ \A n \in 1 .. Len(f) : e[n] = f[n].of
  BY <1>1 DEF Entries
<1>3. Len(g) = Len(f) + 1 /\ DOMAIN g = 1 .. Len(f) + 1 /\ g[Len(f) + 1] = p
      /\ \A n \in DOMAIN f : g[n] = f[n]
  BY AppendKeeps
<1>4. (f = <<>> <=> Len(f) = 0) /\ (e = <<>> <=> Len(f) = 0)
  BY <1>1, <1>2
<1>5. Chain!HeadHash(e) = line.prev
  <2>1. CASE Len(f) = 0
    BY <1>2, <1>4, <2>1 DEF Chain!HeadHash, Chain!Genesis, Follows
  <2>2. CASE Len(f) # 0
    <3>1. Len(f) \in 1 .. Len(f)
      BY <1>1, <2>2
    <3> QED
      BY <1>2, <1>4, <2>2, <3>1 DEF Chain!HeadHash, Follows
  <2> QED
    BY <2>1, <2>2
<1>6. line = [seq |-> Len(e), prev |-> Chain!HeadHash(e), hash |-> line.hash]
  BY <1>2, <1>5 DEF Follows, Line
<1>7. Entries(g) = Append(e, line)
  <2>1. Entries(g) = [n \in 1 .. Len(f) + 1 |-> g[n].of]
    BY <1>3 DEF Entries
  <2>2. Append(e, line) \in Seq(Line) /\ Len(Append(e, line)) = Len(f) + 1
        /\ \A n \in 1 .. Len(f) + 1 : Append(e, line)[n] = IF n = Len(f) + 1 THEN line ELSE e[n]
    <3> HIDE DEF e
    <3> QED
      BY <1>1, <1>2
  <2> HIDE DEF g, e
  <2>3. \A n \in 1 .. Len(f) + 1 : g[n].of = Append(e, line)[n]
    <3> TAKE n \in 1 .. Len(f) + 1
    <3>1. CASE n = Len(f) + 1
      BY <1>3, <2>2, <3>1
    <3>2. CASE n \in 1 .. Len(f)
      <4>1. g[n] = f[n]
        BY <1>1, <1>3, <3>2
      <4>2. e[n] = f[n].of
        BY <1>2, <3>2
      <4>3. Append(e, line)[n] = e[n]
        BY <1>1, <2>2, <3>2
      <4> QED
        BY <4>1, <4>2, <4>3
    <3>3. n = Len(f) + 1 \/ n \in 1 .. Len(f)
      BY <1>1
    <3> QED
      BY <3>1, <3>2, <3>3
  <2>4. Append(e, line) = [n \in 1 .. Len(f) + 1 |-> Append(e, line)[n]]
    <3> DEFINE s == Append(e, line)
    <3>1. s \in Seq(Line) /\ Len(s) = Len(f) + 1
      BY <2>2
    <3> HIDE DEF s
    <3>2. s = [n \in 1 .. Len(s) |-> s[n]]
      BY <3>1
    <3> QED
      BY <3>1, <3>2 DEF s
  <2> QED
    BY <2>1, <2>3, <2>4
<1> QED
  BY <1>6, <1>7

\* A sink whose pieces are of the same lines has the same entries.
LEMMA EntriesSame ==
  ASSUME NEW f \in Seq(Piece), NEW g \in Seq(Piece), Len(g) = Len(f),
         \A n \in DOMAIN f : g[n].of = f[n].of
  PROVE  Entries(g) = Entries(f)
BY SinkPieces DEF Entries

\* The locked append implements the append-only chain: unless the lock was taken
\* too early, a step extends it by one linked entry or leaves it alone.
THEOREM ImplementsChain == Spec => ChainRefined
<1>1. Init => Chain!Init
  BY DEF Init, Chain!Init, Entries
<1>2. AuditInv /\ ChainInv /\ [Next]_vars => [overlapped' \/ Chain!Next]_(Entries(primary))
  <2> SUFFICES ASSUME AuditInv, ChainInv, [Next]_vars, ~overlapped'
               PROVE  Chain!Next \/ Entries(primary)' = Entries(primary)
    OBVIOUS
  <2>1. ~overlapped
    BY Overlaps DEF AuditInv
  <2>2. primary \in Seq(Piece) /\ primary' \in Seq(Piece)
    BY PrimaryLines DEF AuditInv, TypeOK
  <2>3. ASSUME NEW v \in Writer, PrimaryWrite(v)
        PROVE  Chain!Next \/ Entries(primary') = Entries(primary)
    <3> DEFINE h == pending[v].hash
    <3>1. Continued(primary, pending[v], sent[v], primary')
      BY <2>1, <2>3, TailWritten
    <3>2. CASE Len(primary') = Len(primary) /\ \A n \in DOMAIN primary : primary'[n].of = primary[n].of
      BY <2>2, <3>2, EntriesSame
    <3>3. ASSUME sent[v] = 0, Follows(pending[v], primary), NEW p \in Piece, p.of = pending[v],
                 primary' = Append(primary, p)
          PROVE  Chain!Next
      <4>1. pc[v] \in {"headed", "closing"} /\ pending[v] \in Line /\ made \in Nat
        BY <2>3, PrimaryWrites, Typed DEF AuditInv, TypeOK
      <4>2. h \in 1 .. MaxEntries
        BY <4>1, AuditAssumption DEF AuditInv, CallsInv, Composed, Active
      <4>3. \A n \in DOMAIN Entries(primary) : Entries(primary)[n].hash # h
        BY <3>3, <4>1 DEF AuditInv, Unwritten, Entries
      <4>4. Entries(primary') =
              Append(Entries(primary), [seq |-> Len(Entries(primary)),
                                        prev |-> Chain!HeadHash(Entries(primary)), hash |-> h])
        BY <2>2, <3>3, <4>1, EntriesLinked
      <4>5. Chain!Extend(h)
        BY <4>3, <4>4 DEF Chain!Extend
      <4> QED
        BY <4>2, <4>5 DEF Chain!Next
    <3> QED
      BY <3>1, <3>2, <3>3 DEF Continued
  <2>4. ASSUME \A v \in Writer : ~PrimaryWrite(v) PROVE Entries(primary') = Entries(primary)
    <3>1. primary' = primary
      BY <2>4, OtherSteps, MirrorWrites DEF sinks
    <3> QED
      BY <3>1
  <2> QED
    BY <2>3, <2>4
<1> QED
  BY <1>1, <1>2, ChainInvHolds, PTL DEF Spec, ChainRefined

-----------------------------------------------------------------------------
(* The mirror.                                                             *)

\* No part of a line is in the sink twice; what is there of a line ends at i
Disjoint(f) == \A a, b \in DOMAIN f : f[a].of = f[b].of /\ a < b => f[a].to <= f[b].from
Parts(f, line, i) == \A n \in DOMAIN f : f[n].of = line => f[n].to <= i

\* A last piece that grows does not grow into another one.
LEMMA GrowParts ==
  ASSUME NEW f \in Seq(Piece), f # <<>>, NEW to \in 1..2, NEW ended \in BOOLEAN, f[Len(f)].to <= to,
         NEW line, NEW i \in 0..3, NEW j \in i..3, Disjoint(f), Parts(f, line, i),
         f[Len(f)].of = line => to <= j,
         NEW g, g = [f EXCEPT ![Len(f)] = Grown(f[Len(f)], to, ended)]
  PROVE  Disjoint(g) /\ Parts(g, line, j)
<1>1. DOMAIN g = DOMAIN f /\ DOMAIN f = 1 .. Len(f) /\ Len(f) \in Nat
  BY GrowKeeps, SinkPieces
<1>2. \A n \in DOMAIN f : /\ g[n].of = f[n].of /\ g[n].from = f[n].from
                          /\ n # Len(f) => g[n].to = f[n].to
  BY GrowKeeps DEF Kept
<1>3. g[Len(f)].to = to
  BY GrowKeeps
<1>4. \A n \in DOMAIN f : f[n].to \in Int
  BY SinkPieces
<1>5. Disjoint(g)
  <2> SUFFICES ASSUME NEW a \in DOMAIN g, NEW b \in DOMAIN g, g[a].of = g[b].of, a < b
               PROVE  g[a].to <= g[b].from
    BY DEF Disjoint
  <2>1. a # Len(f)
    BY <1>1
  <2>2. f[a].to <= f[b].from
    BY <1>1, <1>2 DEF Disjoint
  <2> QED
    BY <1>1, <1>2, <2>1, <2>2
<1>6. Parts(g, line, j)
  <2> SUFFICES ASSUME NEW n \in DOMAIN g, g[n].of = line PROVE g[n].to <= j
    BY DEF Parts
  <2>1. CASE n = Len(f)
    BY <1>1, <1>2, <1>3, <2>1
  <2>2. CASE n # Len(f)
    BY <1>1, <1>2, <1>4, <2>2 DEF Parts
  <2> QED
    BY <2>1, <2>2
<1> QED
  BY <1>5, <1>6

\* A process that goes on writing writes no part of its line twice.
LEMMA PutParts ==
  ASSUME NEW f \in Seq(Piece), NEW line \in Line, NEW i \in 0..3, NEW j \in i..3,
         Disjoint(f), Parts(f, line, i), NEW g, g = Put(f, line, i, j)
  PROVE  Disjoint(g) /\ Parts(g, line, j)
<1>1. PutShape(f, line, i, j, g)
  BY PutCases
<1>2. \A n \in DOMAIN f : f[n].to \in Int /\ f[n].to \in 1..2 /\ f[n].from \in 0..1
  BY SinkPieces
<1>3. ASSUME g = f PROVE Disjoint(g) /\ Parts(g, line, j)
  BY <1>2, <1>3 DEF Parts
<1>4. ASSUME i < j, i < 2, g = Append(f, NewPiece(line, i, j))
      PROVE  Disjoint(g) /\ Parts(g, line, j)
  <2> DEFINE p == NewPiece(line, i, j)
  <2>1. i \in 0..1 /\ To(j) \in 1..2 /\ Ends(j) \in BOOLEAN /\ To(j) <= j
    BY <1>4 DEF To, Ends
  <2>2. p \in Piece /\ p.of = line /\ p.from = i /\ p.to <= j
    BY <2>1 DEF NewPiece, Piece
  <2> HIDE DEF p
  <2>3. /\ DOMAIN g = 1 .. Len(f) + 1 /\ g[Len(f) + 1] = p
        /\ \A n \in DOMAIN f : g[n] = f[n]
    BY <1>4, <2>2, AppendKeeps DEF p
  <2>4. DOMAIN f = 1 .. Len(f) /\ Len(f) \in Nat
    BY SinkPieces
  <2>5. ASSUME NEW a \in DOMAIN g, NEW b \in DOMAIN g, g[a].of = g[b].of, a < b
        PROVE  g[a].to <= g[b].from
    <3>1. a \in DOMAIN f /\ g[a] = f[a]
      BY <2>3, <2>4, <2>5
    <3>2. CASE b = Len(f) + 1
      <4>1. f[a].of = line /\ g[b].from = i
        BY <2>2, <2>3, <2>5, <3>1, <3>2
      <4> QED
        BY <3>1, <4>1 DEF Parts
    <3>3. CASE b # Len(f) + 1
      <4>1. b \in DOMAIN f /\ g[b] = f[b]
        BY <2>3, <2>4, <3>3
      <4> QED
        BY <2>5, <3>1, <4>1 DEF Disjoint
    <3> QED
      BY <3>2, <3>3
  <2>6. ASSUME NEW n \in DOMAIN g, g[n].of = line PROVE g[n].to <= j
    <3>1. CASE n = Len(f) + 1
      BY <2>2, <2>3, <3>1
    <3>2. CASE n # Len(f) + 1
      <4>1. n \in DOMAIN f /\ g[n] = f[n]
        BY <2>3, <2>4, <3>2
      <4> QED
        BY <1>2, <2>6, <4>1 DEF Parts
    <3> QED
      BY <3>1, <3>2
  <2> QED
    BY <2>5, <2>6 DEF Disjoint, Parts
<1>5. ASSUME InLine(f), NEW to \in 1..2, f[Len(f)].to <= to, f[Len(f)].of = line => to <= j,
             g = [f EXCEPT ![Len(f)] = Grown(f[Len(f)], to, Ends(j))]
      PROVE  Disjoint(g) /\ Parts(g, line, j)
  <2> DEFINE ended == Ends(j)
  <2>1. ended \in BOOLEAN /\ f # <<>>
    BY <1>5 DEF Ends, InLine
  <2>2. g = [f EXCEPT ![Len(f)] = Grown(f[Len(f)], to, ended)]
    BY <1>5
  <2>3. Disjoint(f) /\ Parts(f, line, i) /\ f \in Seq(Piece) /\ i \in 0..3 /\ j \in i..3
    OBVIOUS
  <2> HIDE DEF ended
  <2> QED
    BY ONLY <1>5, <2>1, <2>2, <2>3, GrowParts
<1>6. ASSUME i = 2, j = 3, InLine(f),
             g = [f EXCEPT ![Len(f)] = Grown(f[Len(f)], f[Len(f)].to, Ends(j))]
      PROVE  Disjoint(g) /\ Parts(g, line, j)
  <2>1. f[Len(f)].to \in 1..2 /\ f[Len(f)].to <= f[Len(f)].to /\ f[Len(f)].to <= j
    BY <1>6, SinkPieces DEF InLine
  <2>2. ASSUME NEW to, to = f[Len(f)].to PROVE Disjoint(g) /\ Parts(g, line, j)
    <3>1. to \in 1..2 /\ f[Len(f)].to <= to /\ to <= j
      BY <2>1, <2>2
    <3>2. g = [f EXCEPT ![Len(f)] = Grown(f[Len(f)], to, Ends(j))]
      BY <1>6, <2>2
    <3> QED
      BY ONLY <1>5, <1>6, <3>1, <3>2
  <2> QED
    BY ONLY <2>2, Zenon
<1>7. ASSUME i = 1, 1 < j, Continues(f, line, 1),
             g = [f EXCEPT ![Len(f)] = Grown(f[Len(f)], 2, Ends(j))]
      PROVE  Disjoint(g) /\ Parts(g, line, j)
  <2>1. f[Len(f)].to = 1 /\ InLine(f) /\ j \in 2..3
    BY <1>7 DEF Continues
  <2>2. ASSUME NEW to, to = 2 PROVE Disjoint(g) /\ Parts(g, line, j)
    <3>1. to \in 1..2 /\ f[Len(f)].to <= to /\ to <= j
      BY <2>1, <2>2
    <3>2. g = [f EXCEPT ![Len(f)] = Grown(f[Len(f)], to, Ends(j))]
      BY <1>7, <2>2
    <3> QED
      BY ONLY <1>5, <2>1, <3>1, <3>2
  <2> QED
    BY ONLY <2>2, Zenon
<1> QED
  BY <1>1, <1>3, <1>4, <1>6, <1>7 DEF PutShape

\* A write keeps the pieces that are whole.
LEMMA KeptWhole ==
  ASSUME NEW f \in Seq(Piece), NEW g, NEW line, Kept(f, g, line), NEW n \in DOMAIN f, Whole(f[n])
  PROVE  n \in DOMAIN g /\ Whole(g[n]) /\ g[n].of = f[n].of
<1>1. n \in DOMAIN g /\ g[n].of = f[n].of /\ g[n].from = f[n].from /\ f[n].to <= g[n].to
  BY DEF Kept
<1>2. g[n].to \in 1..2
  BY <1>1, SinkPieces DEF Kept
<1> QED
  BY <1>1, <1>2 DEF Whole

\* A whole line of the primary stays there.
LEMMA StoredKept ==
  ASSUME AuditInv, [Next]_vars, NEW line, Stored(line)
  PROVE  \E n \in DOMAIN primary' : Whole(primary'[n]) /\ primary'[n].of = line
<1>1. PICK n \in DOMAIN primary : Whole(primary[n]) /\ primary[n].of = line
  BY DEF Stored
<1>2. PICK l \in Line : Kept(primary, primary', l)
  BY SinksKeep
<1>3. primary \in Seq(Piece)
  BY Typed DEF AuditInv
<1> QED
  BY <1>1, <1>2, <1>3, KeptWhole

\* A whole line of the mirror stays there.
LEMMA CopiedKept ==
  ASSUME AuditInv, [Next]_vars, NEW line, Copied(line)
  PROVE  \E n \in DOMAIN mirror' : Whole(mirror'[n]) /\ mirror'[n].of = line
<1>1. PICK n \in DOMAIN mirror : Whole(mirror[n]) /\ mirror[n].of = line
  BY DEF Copied
<1>2. PICK l \in Line : Kept(mirror, mirror', l)
  BY SinksKeep
<1>3. mirror \in Seq(Piece)
  BY Typed DEF AuditInv
<1> QED
  BY <1>1, <1>2, <1>3, KeptWhole

\* A whole line written from its start.
LEMMA WritesWhole ==
  ASSUME AuditInv, NEW w \in Writer, pc[w] \in {"headed", "mirror"}, NEW f \in Seq(Piece)
  PROVE  LET g == Put(f, pending[w], sent[w], 3)
         IN \E n \in DOMAIN g : Whole(g[n]) /\ g[n].of = pending[w]
<1>1. sent[w] = 0 /\ pending[w] \in Line
  BY Typed DEF AuditInv, CallsInv, Failing
<1> DEFINE p == NewPiece(pending[w], 0, 3)
<1>2. Put(f, pending[w], sent[w], 3) = Append(f, p) /\ p \in Piece
  BY <1>1, PutNew
<1>3. Whole(p) /\ p.of = pending[w]
  BY <1>1, TailFacts DEF Whole
<1> HIDE DEF p
<1>4. Len(f) + 1 \in DOMAIN Append(f, p) /\ Append(f, p)[Len(f) + 1] = p
  BY <1>2, AppendKeeps, SinkPieces
<1> QED
  BY <1>2, <1>3, <1>4

\* A call that a step does not touch
Stays(w) == pc'[w] = pc[w] /\ pending'[w] = pending[w] /\ sent'[w] = sent[w]

\* Only a process's own step touches its call.
LEMMA OwnStep ==
  ASSUME AuditInv, [Next]_vars, NEW w \in Writer, ~Stays(w)
  PROVE  PeekSize(w) \/ PeekScan(w) \/ Appending(w) \/ Crash(w)
<1>1. ASSUME NEW v \in Writer, PeekSize(v) \/ PeekScan(v) \/ Appending(v) \/ Crash(v), v # w
      PROVE  Stays(w)
  BY <1>1 DEF Stays, PeekSize, PeekScan, Appending, Lock, TakesLock, ReadHead, HeadRaises, Write,
    WriteStops, Close, Unlock, WriteMirror, MirrorFails, MirrorClose, Crash, Returns, calls,
    AuditInv, TypeOK
<1>2. ASSUME ReadPrimary \/ ReadMirror \/ UNCHANGED vars PROVE Stays(w)
  BY <1>2 DEF Stays, ReadPrimary, ReadMirror, vars, calls
<1> QED
  BY <1>1, <1>2 DEF Next

\* A process comes to the mirror by writing the primary.
LEMMA MirroredFrom ==
  ASSUME AuditInv, [Next]_vars, NEW w \in Writer, pc'[w] \in Mirrored
  PROVE  /\ pending'[w] = pending[w] /\ pending[w] \in Line /\ sent'[w] \in 0..3
         /\ \/ Write(w) /\ sent'[w] = 0
            \/ MirrorFails(w) /\ pc[w] \in Mirrored
            \/ pc[w] \in Mirrored /\ ~MirrorWrite(w) /\ sent'[w] = sent[w]
<1>0. TypeOK /\ pending[w] \in Line /\ sent[w] \in 0..3 /\ (pc[w] = "headed" => sent[w] = 0)
  BY Typed DEF AuditInv, CallsInv, Failing
<1>1. CASE Stays(w)
  <2>1. ~Crash(w)
    BY <1>0, <1>1 DEF Crash, Returns, Stays, TypeOK, Mirrored
  <2>2. ~WriteMirror(w) /\ ~MirrorClose(w) /\ ~MirrorFails(w)
    BY <1>0, <1>1 DEF WriteMirror, MirrorClose, MirrorFails, Returns, Stays, TypeOK
  <2> QED
    BY <1>0, <1>1, <2>1, <2>2 DEF Stays, MirrorWrite
<1>2. ASSUME PeekSize(w) \/ PeekScan(w) \/ Appending(w) \/ Crash(w)
      PROVE  Write(w) \/ Unlock(w) \/ MirrorFails(w)
  BY <1>0, <1>2 DEF Mirrored, PeekSize, PeekScan, Appending, Lock, TakesLock, ReadHead, HeadRaises,
    WriteStops, Close, WriteMirror, MirrorClose, Crash, Returns, TypeOK
<1>3. CASE Write(w)
  BY <1>0, <1>3 DEF Write, calls
<1>4. CASE Unlock(w)
  <2>1. ~MirrorWrite(w)
    BY <1>0, <1>4 DEF MirrorWrite, Unlock, WriteMirror, MirrorFails, MirrorClose, Crash, Returns, TypeOK
  <2> QED
    BY <1>0, <1>4, <2>1 DEF Unlock, calls, Mirrored
<1>5. CASE MirrorFails(w)
  BY <1>0, <1>5, TypeStep DEF MirrorFails, Mirrored, AuditInv, TypeOK
<1> QED
  BY <1>1, <1>2, <1>3, <1>4, <1>5, OwnStep

\* The mirror, kept by every step.
LEMMA MirrorStep == AuditInv /\ MirrorInv /\ [Next]_vars => MirrorInv'
<1> SUFFICES ASSUME AuditInv, MirrorInv, [Next]_vars PROVE MirrorInv'
  OBVIOUS
<1>0. /\ TypeOK /\ mirror \in Seq(Piece) /\ mirror' \in Seq(Piece) /\ Disjoint(mirror)
      /\ \A w \in Writer : pending[w] \in Line /\ sent[w] \in 0..3
      /\ \A w \in Writer : pc[w] \in Mirrored =>
           Stored(pending[w]) /\ Parts(mirror, pending[w], sent[w])
  BY Typed, MirrorTyped DEF AuditInv, MirrorInv, MirrorIsCopy, Disjoint, Parts
<1>1. ASSUME NEW v \in Writer, MirrorWrite(v)
      PROVE  /\ pc[v] \in Mirrored /\ primary' = primary
             /\ \A w \in Writer : w # v => Stays(w)
             /\ Kept(mirror, mirror', pending[v]) /\ Disjoint(mirror')
             /\ MirrorFails(v) => Parts(mirror', pending[v], sent'[v])
  <2>1. pc[v] \in Mirrored /\ primary' = primary
    BY <1>1, MirrorWrites DEF Mirrored
  <2>2. \A w \in Writer : w # v => Stays(w)
    BY <1>0, <1>1 DEF MirrorWrite, WriteMirror, MirrorFails, MirrorClose, Crash, Returns, Stays, TypeOK
  <2>3. PICK j \in sent[v]..3 : mirror' = Put(mirror, pending[v], sent[v], j)
    BY <1>1, MirrorWrites
  <2>4. Kept(mirror, mirror', pending[v])
    BY <1>0, <2>3, PutKeeps
  <2>5. Disjoint(mirror')
    BY <1>0, <2>1, <2>3, PutParts
  <2>6. ASSUME MirrorFails(v) PROVE Parts(mirror', pending[v], sent'[v])
    <3>1. sent[v] = 0
      BY <2>6 DEF MirrorFails, AuditInv, CallsInv, Failing
    <3>2. PICK k \in 0..3 : WriteSecond(v, k) /\ sent' = [sent EXCEPT ![v] = k]
      BY <2>6 DEF MirrorFails
    <3>3. mirror' = Put(mirror, pending[v], sent[v], k) /\ k \in sent[v]..3 /\ sent'[v] = k
      BY <1>0, <3>1, <3>2 DEF WriteSecond, TypeOK
    <3> QED
      BY <1>0, <2>1, <3>3, PutParts
  <2> QED
    BY <2>1, <2>2, <2>4, <2>5, <2>6
<1>2. ASSUME \A v \in Writer : ~MirrorWrite(v) PROVE mirror' = mirror
  BY <1>2, OtherSteps, PrimaryWrites DEF sinks
<1>3. \A i \in DOMAIN mirror' : \E j \in DOMAIN primary' :
        Whole(primary'[j]) /\ primary'[j].of = mirror'[i].of
  <2> TAKE i \in DOMAIN mirror'
  <2>1. Stored(mirror'[i].of)
    <3>1. ASSUME NEW v \in Writer, MirrorWrite(v) PROVE Stored(mirror'[i].of)
      <4>1. Stored(pending[v]) /\ Kept(mirror, mirror', pending[v])
        BY <1>0, <1>1, <3>1
      <4> QED
        BY <4>1 DEF Kept, MirrorInv, MirrorIsCopy, Stored
    <3>2. ASSUME \A v \in Writer : ~MirrorWrite(v) PROVE Stored(mirror'[i].of)
      BY <1>2, <3>2 DEF MirrorInv, MirrorIsCopy, Stored
    <3> QED
      BY <3>1, <3>2
  <2> QED
    BY <2>1, StoredKept
<1>4. Disjoint(mirror')
  BY <1>0, <1>1, <1>2
<1>5. ASSUME NEW w \in Writer, pc'[w] \in Mirrored
      PROVE  /\ \E n \in DOMAIN primary' : Whole(primary'[n]) /\ primary'[n].of = pending'[w]
             /\ Parts(mirror', pending'[w], sent'[w])
  <2>0. pending'[w] = pending[w] /\ sent'[w] \in 0..3
    BY <1>5, MirroredFrom
  <2>1. CASE Write(w) /\ sent'[w] = 0
    <3>1. /\ pc[w] = "headed" /\ primary' = Put(primary, pending[w], sent[w], 3)
          /\ mirror' = mirror /\ sent[w] = 0
      BY <2>1 DEF Write, WritePrimary, AuditInv, CallsInv, Failing
    <3>2. \E n \in DOMAIN primary' : Whole(primary'[n]) /\ primary'[n].of = pending'[w]
      <4>1. pc[w] \in {"headed", "mirror"} /\ primary \in Seq(Piece)
        BY <1>0, <3>1 DEF TypeOK
      <4>2. LET g == Put(primary, pending[w], sent[w], 3)
            IN \E n \in DOMAIN g : Whole(g[n]) /\ g[n].of = pending[w]
        BY ONLY AuditInv, w \in Writer, <4>1, WritesWhole
      <4> QED
        BY <2>0, <3>1, <4>2
    <3>3. \A n \in DOMAIN mirror : mirror[n].of # pending[w]
      BY <3>1 DEF MirrorInv, MirrorIsCopy, AuditInv, Unwritten
    <3> QED
      BY <2>0, <3>1, <3>2, <3>3 DEF Parts
  <2>2. CASE MirrorFails(w) /\ pc[w] \in Mirrored
    BY <1>0, <1>1, <2>0, <2>2, StoredKept DEF MirrorWrite
  <2>3. CASE pc[w] \in Mirrored /\ ~MirrorWrite(w) /\ sent'[w] = sent[w]
    <3>1. \E n \in DOMAIN primary' : Whole(primary'[n]) /\ primary'[n].of = pending'[w]
      BY <1>0, <2>0, <2>3, StoredKept
    <3>2. ASSUME NEW v \in Writer, MirrorWrite(v) PROVE Parts(mirror', pending[w], sent[w])
      <4>1. v # w /\ pc[v] \in Mirrored /\ Kept(mirror, mirror', pending[v])
        BY <1>1, <2>3, <3>2
      <4>2. pending[v] # pending[w]
        BY <2>3, <4>1 DEF AuditInv, CallsInv, Composed, Active, Mirrored
      <4>3. \A n \in DOMAIN mirror' : mirror'[n].of = pending[w] =>
              n \in DOMAIN mirror /\ mirror[n].of = pending[w] /\ mirror'[n].to = mirror[n].to
        BY <4>1, <4>2 DEF Kept
      <4> QED
        BY <1>0, <2>3, <4>3 DEF Parts
    <3>3. ASSUME \A v \in Writer : ~MirrorWrite(v) PROVE Parts(mirror', pending[w], sent[w])
      BY <1>0, <1>2, <2>3, <3>3
    <3> QED
      BY <2>0, <2>3, <3>1, <3>2, <3>3
  <2> QED
    BY <1>5, <2>1, <2>2, <2>3, MirroredFrom
<1>6. MirrorIsCopy'
  BY <1>3, <1>4 DEF MirrorIsCopy, Disjoint
<1> QED
  BY <1>5, <1>6 DEF MirrorInv, Stored, Parts

\* The mirror and the calls that write there.
THEOREM MirrorInvHolds == Spec => [](AuditInv /\ MirrorInv)
<1>1. Init => AuditInv /\ MirrorInv
  <2>1. Init => MirrorInv
    BY DEF Init, MirrorInv, MirrorIsCopy, Mirrored
  <2> QED
    BY <2>1, AuditInit
<1>2. AuditInv /\ [Next]_vars => AuditInv'
  BY TypeStep, CallsStep, RecordedStep, UnwrittenStep DEF AuditInv
<1> QED
  BY <1>1, <1>2, MirrorStep, PTL DEF Spec

\* Whatever dies or raises, and wherever a write is cut, the mirror holds nothing
\* but parts of lines the primary has, and none of them twice.
THEOREM MirrorHoldsCopies == Spec => []MirrorIsCopy
<1>1. MirrorInv => MirrorIsCopy
  BY DEF MirrorInv
<1> QED
  BY <1>1, MirrorInvHolds, PTL

-----------------------------------------------------------------------------
(* Nothing is lost unnoticed.                                              *)

\* A line is owed until its process writes the mirror, raises or dies.
LEMMA OwedUntil ==
  ASSUME AuditInv, [Next]_vars, NEW w \in Writer, pc[w] \in Owing
  PROVE  \/ pc'[w] \in Owing /\ pending'[w] = pending[w]
         \/ WriteMirror(w)
         \/ pending[w].hash \in lost'
<1>0. TypeOK /\ pending[w] # NoLine
  BY DEF AuditInv, TypeOK, CallsInv, Composed, Active, Owing, NoLine
<1>1. CASE Stays(w)
  BY <1>1 DEF Stays
<1>2. CASE Crash(w) \/ MirrorFails(w)
  BY <1>0, <1>2 DEF Crash, MirrorFails
<1>3. ASSUME PeekSize(w) \/ PeekScan(w) \/ Appending(w), ~MirrorFails(w)
      PROVE  (pc'[w] \in Owing /\ pending'[w] = pending[w]) \/ WriteMirror(w)
  BY <1>0, <1>3 DEF Owing, PeekSize, PeekScan, Appending, Lock, TakesLock, ReadHead, HeadRaises,
    Write, WriteStops, Close, Unlock, MirrorClose, calls, TypeOK
<1> QED
  BY <1>1, <1>2, <1>3, OwnStep

\* A lost entry stays lost.
LEMMA LostKept == ASSUME AuditInv, [Next]_vars PROVE lost \subseteq lost'
BY DEF Next, vars, history, PeekSize, PeekScan, Appending, Lock, TakesLock, ReadHead, HeadRaises,
    Write, WriteStops, Close, Unlock, WriteMirror, MirrorFails, MirrorClose, Crash, Returns,
    ReadPrimary, ReadMirror

\* No step loses an entry without its call dying or raising.
LEMMA AccountedStep == AuditInv /\ Accounted /\ [Next]_vars => Accounted'
<1> SUFFICES ASSUME AuditInv, Accounted, [Next]_vars,
                    NEW n \in DOMAIN primary', Whole(primary'[n])
             PROVE  LET line == primary'[n].of
                    IN \/ line.hash \in lost'
                       \/ \E w \in Writer : pc'[w] \in Owing /\ pending'[w] = line
                       \/ \E m \in DOMAIN mirror' : Whole(mirror'[m]) /\ mirror'[m].of = line
  BY DEF Accounted, Owed, Copied
<1> DEFINE line == primary'[n].of
<1>0. TypeOK /\ primary \in Seq(Piece)
  BY DEF AuditInv, TypeOK
<1>1. CASE n \in DOMAIN primary /\ primary[n].of = line /\ Whole(primary[n])
  <2>1. CASE line.hash \in lost
    BY <2>1, LostKept
  <2>2. ASSUME NEW w \in Writer, pc[w] \in Owing, pending[w] = line
        PROVE  \/ line.hash \in lost'
               \/ \E v \in Writer : pc'[v] \in Owing /\ pending'[v] = line
               \/ \E m \in DOMAIN mirror' : Whole(mirror'[m]) /\ mirror'[m].of = line
    <3>1. CASE WriteMirror(w)
      <4>1. pc[w] \in {"headed", "mirror"} /\ mirror \in Seq(Piece)
        BY <1>0, <3>1 DEF WriteMirror, TypeOK
      <4>2. LET g == Put(mirror, pending[w], sent[w], 3)
            IN \E m \in DOMAIN g : Whole(g[m]) /\ g[m].of = pending[w]
        BY ONLY AuditInv, w \in Writer, <4>1, WritesWhole
      <4> QED
        BY <2>2, <3>1, <4>2 DEF WriteMirror, WriteSecond
    <3>2. CASE pc'[w] \in Owing /\ pending'[w] = pending[w]
      BY <2>2, <3>2
    <3>3. CASE pending[w].hash \in lost'
      BY <2>2, <3>3
    <3> QED
      BY <2>2, <3>1, <3>2, <3>3, OwedUntil
  <2>3. CASE Copied(line)
    BY <2>3, CopiedKept
  <2> QED
    BY <1>1, <2>1, <2>2, <2>3 DEF Accounted, Owed
<1>2. ASSUME NEW v \in Writer, PrimaryWrite(v), line = pending[v]
      PROVE  \/ line.hash \in lost'
             \/ \E w \in Writer : pc'[w] \in Owing /\ pending'[w] = line
  <2>1. pc[v] \in {"headed", "closing"} /\ pending[v] # NoLine
    BY <1>2, PrimaryWrites DEF AuditInv, CallsInv, Composed, Active, TypeOK, NoLine
  <2>2. CASE Write(v)
    BY <1>0, <1>2, <2>2 DEF Write, calls, Owing, TypeOK
  <2>3. CASE WriteStops(v)
    BY <1>2, <2>3 DEF WriteStops
  <2>4. CASE Close(v)
    BY <1>2, <2>4 DEF Close, history, AuditInv, CallsInv, Failing
  <2>5. CASE Crash(v)
    BY <1>2, <2>1, <2>5 DEF Crash
  <2> QED
    BY <1>2, <2>2, <2>3, <2>4, <2>5 DEF PrimaryWrite
<1>3. \/ n \in DOMAIN primary /\ primary[n].of = line /\ Whole(primary[n])
      \/ \E v \in Writer : PrimaryWrite(v) /\ line = pending[v]
  <2>1. ASSUME NEW v \in Writer, PrimaryWrite(v), line # pending[v]
        PROVE  n \in DOMAIN primary /\ primary[n].of = line /\ Whole(primary[n])
    <3>1. PICK j \in sent[v]..3 : primary' = Put(primary, pending[v], sent[v], j)
      BY <2>1, PrimaryWrites
    <3>2. pending[v] \in Line /\ sent[v] \in 0..3
      BY <1>0, Typed
    <3>3. Kept(primary, primary', pending[v])
      BY <1>0, <3>1, <3>2, PutKeeps
    <3> QED
      BY <2>1, <3>3 DEF Kept, Whole
  <2>2. ASSUME \A v \in Writer : ~PrimaryWrite(v) PROVE primary' = primary
    BY <2>2, OtherSteps, MirrorWrites DEF sinks
  <2> QED
    BY <2>1, <2>2
<1> QED
  BY <1>1, <1>2, <1>3

\* append writes the mirror after it let go of the lock: every whole entry of the
\* primary is in the mirror, or its process has yet to write it there, or its
\* call raised or its process died.
THEOREM NoLineLost == Spec => []Accounted
<1>1. Init => Accounted
  BY DEF Init, Accounted
<1> QED
  BY <1>1, AccountedStep, AuditInvHolds, PTL DEF Spec

-----------------------------------------------------------------------------
(* Counting lines.                                                         *)

\* The lines that end, and the one that does not.
LEMMA ClosedTyped ==
  ASSUME NEW f \in Seq(Piece)
  PROVE  /\ Closed(f) \in Int /\ Lines(f) \in Nat /\ OpenLines(f) \in 0..1
         /\ Closed(f) + OpenLines(f) = Lines(f)
         /\ (InLine(f) => OpenLines(f) = 1) /\ (~InLine(f) => OpenLines(f) = 0)
<1>1. OpenLines(f) \in 0..1 /\ (InLine(f) => OpenLines(f) = 1) /\ (~InLine(f) => OpenLines(f) = 0)
  BY DEF OpenLines
<1> QED
  BY <1>1, LinesFinite DEF Closed

\* Taking a process out of a set and putting one in.
LEMMA OneLess ==
  ASSUME NEW S, NEW T, NEW w, IsFiniteSet(S), T \subseteq S \ {w}
  PROVE  /\ IsFiniteSet(T) /\ Cardinality(T) \in Nat /\ Cardinality(S) \in Nat
         /\ Cardinality(T) <= Cardinality(S)
         /\ w \in S => Cardinality(T) + 1 <= Cardinality(S)
<1>1. IsFiniteSet(S \ {w}) /\ Cardinality(S \ {w}) = IF w \in S THEN Cardinality(S) - 1 ELSE Cardinality(S)
  BY FS_RemoveElement
<1>2. IsFiniteSet(T) /\ Cardinality(T) <= Cardinality(S \ {w})
  BY <1>1, FS_Subset
<1>3. Cardinality(T) \in Nat /\ Cardinality(S) \in Nat
  BY <1>2, FS_CardinalityType
<1> QED
  BY <1>1, <1>2, <1>3

\* A set that gains at most one.
LEMMA OneMore ==
  ASSUME NEW S, NEW T, NEW w, IsFiniteSet(S), T \subseteq S \cup {w}
  PROVE  /\ IsFiniteSet(T) /\ Cardinality(T) \in Nat /\ Cardinality(S) \in Nat
         /\ Cardinality(T) <= Cardinality(S) + 1
<1>1. IsFiniteSet(S \cup {w}) /\ Cardinality(S \cup {w}) = IF w \in S THEN Cardinality(S) ELSE Cardinality(S) + 1
  BY FS_AddElement
<1>2. IsFiniteSet(T) /\ Cardinality(T) <= Cardinality(S \cup {w})
  BY <1>1, FS_Subset
<1>3. Cardinality(T) \in Nat /\ Cardinality(S) \in Nat
  BY <1>2, FS_CardinalityType
<1> QED
  BY <1>1, <1>2, <1>3

\* No write takes a line back, and a whole one closes one more.
LEMMA PrimaryCloses ==
  ASSUME AuditInv, [Next]_vars
  PROVE  /\ Closed(primary) \in Int /\ Closed(primary') \in Int /\ Closed(primary) <= Closed(primary')
         /\ \A w \in Writer : Write(w) => Closed(primary') = Closed(primary) + 1
<1>0. TypeOK /\ primary \in Seq(Piece) /\ primary' \in Seq(Piece)
  BY PrimaryLines DEF AuditInv, TypeOK
<1>1. Closed(primary) \in Int /\ Closed(primary') \in Int
  BY <1>0, ClosedTyped
<1>2. ASSUME NEW w \in Writer, PrimaryWrite(w) PROVE Closed(primary) <= Closed(primary')
  <2>1. PICK j \in sent[w]..3 : primary' = Put(primary, pending[w], sent[w], j)
    BY <1>2, PrimaryWrites
  <2>2. pending[w] \in Line /\ sent[w] \in 0..3
    BY <1>0, Typed
  <2>3. ClosedBy(primary, sent[w], j, primary')
    BY <1>0, <2>1, <2>2, ClosedPut
  <2>4. sent[w] = j \/ (sent[w] < j /\ j < 3) \/ (sent[w] < j /\ j = 3)
    BY <2>2
  <2> QED
    BY <1>1, <2>3, <2>4 DEF ClosedBy
<1>3. ASSUME NEW w \in Writer, Write(w) PROVE Closed(primary') = Closed(primary) + 1
  <2>1. /\ primary' = Put(primary, pending[w], 0, 3) /\ pending[w] \in Line
    BY <1>0, <1>3, Typed DEF Write, WritePrimary, AuditInv, CallsInv, Failing
  <2>2. ClosedBy(primary, 0, 3, primary')
    BY <1>0, <2>1, ClosedPut
  <2> QED
    BY <2>2 DEF ClosedBy
<1>4. ASSUME \A w \in Writer : ~PrimaryWrite(w) PROVE primary' = primary
  BY <1>4, OtherSteps, MirrorWrites DEF sinks
<1> QED
  BY <1>1, <1>2, <1>3, <1>4

\* A write to the mirror that had got to i and gets to j.
LEMMA MirrorCloses ==
  ASSUME AuditInv, [Next]_vars, NEW w \in Writer, NEW j \in sent[w]..3,
         mirror' = Put(mirror, pending[w], sent[w], j)
  PROVE  LET c == Closed(mirror)
             d == Closed(mirror')
         IN /\ c \in Int /\ d \in Int
            /\ OpenLines(mirror) \in 0..1 /\ OpenLines(mirror') \in 0..1
            /\ j = sent[w] => d = c /\ OpenLines(mirror') = OpenLines(mirror)
            /\ sent[w] < j /\ j < 3 => d = c
            /\ sent[w] < j /\ j = 3 => d <= c + 1 /\ OpenLines(mirror') = 0
<1>0. mirror \in Seq(Piece) /\ mirror' \in Seq(Piece) /\ pending[w] \in Line /\ sent[w] \in 0..3
  BY MirrorTyped, Typed DEF AuditInv
<1>1. ClosedBy(mirror, sent[w], j, mirror')
  BY <1>0, ClosedPut
<1>2. /\ Closed(mirror) \in Int /\ Closed(mirror') \in Int
      /\ OpenLines(mirror) \in 0..1 /\ OpenLines(mirror') \in 0..1
      /\ ~InLine(mirror') => OpenLines(mirror') = 0
  BY <1>0, ClosedTyped
<1> QED
  BY <1>0, <1>1, <1>2 DEF ClosedBy

\* The count, kept by every step.
LEMMA CountStep == AuditInv /\ CountInv /\ [Next]_vars => CountInv'
<1> SUFFICES ASSUME AuditInv, CountInv, [Next]_vars PROVE CountInv'
  OBVIOUS
<1> DEFINE D == Cardinality(Debtors)
           H == Cardinality(Halfway)
           O == OpenLines(mirror)
           c == Closed(mirror)
           p == Closed(primary)
           D1 == Cardinality(Debtors')
           H1 == Cardinality(Halfway')
           O1 == OpenLines(mirror')
           c1 == Closed(mirror')
           p1 == Closed(primary')
<1>0. TypeOK /\ mirror \in Seq(Piece) /\ \A w \in Writer : sent[w] \in 0..3
  BY Typed DEF AuditInv
<1>1. /\ IsFiniteSet(Debtors) /\ IsFiniteSet(Halfway) /\ D \in Nat /\ H \in Nat
      /\ c + D + H <= p /\ c + D + O <= p
  BY FS_CardinalityType DEF CountInv
<1>2. /\ c \in Int /\ O \in 0..1 /\ p \in Int /\ p1 \in Int /\ p <= p1
      /\ \A w \in Writer : Write(w) => p1 = p + 1
  BY <1>0, ClosedTyped, PrimaryCloses
<1>3. ASSUME NEW w \in Writer, Write(w) PROVE CountInv'
  <2>1. /\ mirror' = mirror /\ pc[w] = "headed" /\ pc' = [pc EXCEPT ![w] = "written"] /\ sent' = sent
    BY <1>3 DEF Write, WritePrimary, calls
  <2>2. Debtors' \subseteq Debtors \cup {w} /\ Halfway' \subseteq Halfway
    BY <1>0, <2>1 DEF Debtors, Halfway, Owing, TypeOK
  <2>3. IsFiniteSet(Debtors') /\ D1 \in Nat /\ D1 <= D + 1
    BY <1>1, <2>2, OneMore
  <2>4. IsFiniteSet(Halfway') /\ H1 \in Nat /\ H1 <= H
    <3>1. Halfway' \subseteq Halfway \ {w}
      BY <1>0, <2>1 DEF Halfway, TypeOK
    <3> QED
      BY <1>1, <3>1, OneLess
  <2>5. c1 = c /\ O1 = O /\ p1 = p + 1
    BY <1>2, <1>3, <2>1
  <2> HIDE DEF c, O, p, D, H, c1, O1, p1, D1, H1
  <2>6. c1 + D1 + H1 <= p1 /\ c1 + D1 + O1 <= p1
    BY <1>1, <1>2, <2>3, <2>4, <2>5
  <2> QED
    BY <2>3, <2>4, <2>6 DEF CountInv, c1, O1, p1, D1, H1
<1>4. ASSUME NEW w \in Writer, MirrorWrite(w) PROVE CountInv'
  <2>1. /\ pc[w] \in {"mirror", "mirrorclosing"} /\ (pc[w] = "mirror" => sent[w] = 0)
        /\ \A v \in Writer : v # w => Stays(v)
        /\ pc'[w] \notin Owing
        /\ pc[w] # "mirror" => pc'[w] # "mirrorclosing"
    BY <1>0, <1>4 DEF MirrorWrite, WriteMirror, MirrorFails, MirrorClose, Crash, Returns, Stays, TypeOK,
      Owing, AuditInv, CallsInv, Failing
  <2>2. \E j \in sent[w]..3 :
          /\ mirror' = Put(mirror, pending[w], sent[w], j)
          /\ pc'[w] = "mirrorclosing" => sent'[w] = j
    <3>1. CASE MirrorFails(w)
      BY <1>0, <2>1, <3>1 DEF MirrorFails, WriteSecond, TypeOK
    <3>2. CASE ~MirrorFails(w)
      <4>1. pc'[w] # "mirrorclosing"
        BY <1>0, <1>4, <3>2 DEF MirrorWrite, WriteMirror, MirrorClose, Crash, Returns, TypeOK
      <4> QED
        BY <1>4, <4>1, MirrorWrites
    <3> QED
      BY <3>1, <3>2
  <2>3. PICK j \in sent[w]..3 : /\ mirror' = Put(mirror, pending[w], sent[w], j)
                                /\ pc'[w] = "mirrorclosing" => sent'[w] = j
    BY <2>2
  <2>4. /\ c1 \in Int /\ O1 \in 0..1
        /\ j = sent[w] => c1 = c /\ O1 = O
        /\ sent[w] < j /\ j < 3 => c1 = c
        /\ sent[w] < j /\ j = 3 => c1 <= c + 1 /\ O1 = 0
    BY <2>3, MirrorCloses
  <2>5. Debtors' \subseteq Debtors \ {w} /\ Halfway' \subseteq Halfway \cup {w}
    BY <2>1 DEF Debtors, Halfway, Stays
  <2>6. IsFiniteSet(Debtors') /\ D1 \in Nat /\ D1 <= D /\ (pc[w] = "mirror" => D1 + 1 <= D)
    <3>1. pc[w] = "mirror" => w \in Debtors
      BY DEF Debtors, Owing
    <3> QED
      BY <1>1, <2>5, <3>1, OneLess
  <2>7. IsFiniteSet(Halfway') /\ H1 \in Nat /\ H1 <= H + 1
    BY <1>1, <2>5, OneMore
  <2>8. pc[w] # "mirror" \/ j = 3 => H1 <= H /\ (pc[w] # "mirror" /\ sent[w] # 3 => H1 + 1 <= H)
    <3>1. pc[w] # "mirror" \/ j = 3 => w \notin Halfway'
      BY <2>1, <2>3 DEF Halfway
    <3>2. pc[w] # "mirror" \/ j = 3 => Halfway' \subseteq Halfway \ {w}
      BY <2>5, <3>1
    <3>3. pc[w] # "mirror" /\ sent[w] # 3 => w \in Halfway
      BY <2>1 DEF Halfway
    <3> QED
      BY <1>1, <3>2, <3>3, OneLess
  <2>9. j \in 0..3 /\ sent[w] \in 0..3 /\ sent[w] <= j
    BY <1>0
  <2> HIDE DEF c, O, p, D, H, c1, O1, p1, D1, H1
  <2>10. c1 + D1 + H1 <= p1 /\ c1 + D1 + O1 <= p1
    <3>1. CASE pc[w] = "mirror"
      BY <1>1, <1>2, <2>1, <2>4, <2>6, <2>7, <2>8, <2>9, <3>1
    <3>2. CASE pc[w] # "mirror"
      BY <1>1, <1>2, <2>1, <2>4, <2>6, <2>7, <2>8, <2>9, <3>2
    <3> QED
      BY <3>1, <3>2
  <2> QED
    BY <2>6, <2>7, <2>10 DEF CountInv, c1, O1, p1, D1, H1
<1>5. ASSUME \A w \in Writer : ~Write(w) /\ ~MirrorWrite(w) PROVE CountInv'
  <2>1. mirror' = mirror
    BY <1>5, OtherSteps, PrimaryWrites DEF sinks
  <2>2. \A w \in Writer : pc'[w] \in Mirrored =>
          /\ pc[w] \in Mirrored /\ sent'[w] = sent[w]
          /\ pc'[w] \in Owing => pc[w] \in Owing
          /\ pc'[w] = "mirrorclosing" => pc[w] = "mirrorclosing"
    <3> TAKE w \in Writer
    <3> SUFFICES ASSUME pc'[w] \in Mirrored
                 PROVE  /\ pc[w] \in Mirrored /\ sent'[w] = sent[w]
                        /\ pc'[w] \in Owing => pc[w] \in Owing
                        /\ pc'[w] = "mirrorclosing" => pc[w] = "mirrorclosing"
      OBVIOUS
    <3>1. CASE Stays(w)
      BY <3>1 DEF Stays
    <3>2. ASSUME PeekSize(w) \/ PeekScan(w) \/ Appending(w) \/ Crash(w) PROVE Unlock(w)
      BY <1>0, <1>5, <3>2 DEF Mirrored, PeekSize, PeekScan, Appending, Lock, TakesLock, ReadHead, HeadRaises,
        WriteStops, Close, MirrorWrite, Crash, Returns, TypeOK
    <3>3. Unlock(w) => pc[w] = "written" /\ pc'[w] = "mirror" /\ sent' = sent
      BY <1>0 DEF Unlock, calls, TypeOK
    <3> QED
      BY <3>1, <3>2, <3>3, OwnStep DEF Mirrored, Owing
  <2>3. Debtors' \subseteq Debtors /\ Halfway' \subseteq Halfway
    BY <2>2 DEF Debtors, Halfway, Owing, Mirrored
  <2>4. IsFiniteSet(Debtors') /\ D1 \in Nat /\ D1 <= D
    BY <1>1, <2>3, FS_Subset, FS_CardinalityType
  <2>5. IsFiniteSet(Halfway') /\ H1 \in Nat /\ H1 <= H
    BY <1>1, <2>3, FS_Subset, FS_CardinalityType
  <2>6. c1 = c /\ O1 = O
    BY <2>1
  <2> HIDE DEF c, O, p, D, H, c1, O1, p1, D1, H1
  <2>7. c1 + D1 + H1 <= p1 /\ c1 + D1 + O1 <= p1
    BY <1>1, <1>2, <2>4, <2>5, <2>6
  <2> QED
    BY <2>4, <2>5, <2>7 DEF CountInv, c1, O1, p1, D1, H1
<1> QED
  BY <1>3, <1>4, <1>5

\* The mirror is never ahead of the primary.
THEOREM CountInvHolds == Spec => [](AuditInv /\ CountInv)
<1>1. Init => CountInv
  <2> SUFFICES ASSUME Init PROVE CountInv
    OBVIOUS
  <2>1. Debtors = {} /\ Halfway = {}
    BY DEF Init, Debtors, Halfway, Owing
  <2>2. IsFiniteSet({}) /\ Cardinality({}) = 0
    BY FS_EmptySet
  <2>3. primary = <<>> /\ mirror = <<>>
    BY DEF Init
  <2>4. Begins(<<>>) = {}
    BY DEF Begins
  <2>6. Lines(<<>>) = 0
    BY <2>2, <2>4 DEF Lines
  <2>7. OpenLines(<<>>) = 0
    BY DEF OpenLines, InLine
  <2>5. Closed(primary) = 0 /\ Closed(mirror) = 0 /\ OpenLines(mirror) = 0
    BY <2>3, <2>6, <2>7 DEF Closed
  <2> QED
    BY <2>1, <2>2, <2>5 DEF CountInv
<1>2. AuditInv /\ [Next]_vars => AuditInv'
  BY TypeStep, CallsStep, RecordedStep, UnwrittenStep DEF AuditInv
<1> QED
  BY <1>1, <1>2, AuditInit, CountStep, PTL DEF Spec

\* check_mirror finds the mirror ahead only when the primary grew between its two
\* reads, wherever writes were cut.
THEOREM AlarmsNeedAppends == Spec => AlarmNeedsAppend
<1>1. AuditInv /\ CountInv => (ReadMirror /\ verdict' = "ahead" => Lines(primary) > Lines(seen))
  <2> SUFFICES ASSUME AuditInv, CountInv, ReadMirror, verdict' = "ahead"
               PROVE  Lines(primary) > Lines(seen)
    OBVIOUS
  <2>1. primary \in Seq(Piece) /\ mirror \in Seq(Piece) /\ seen \in Seq(Piece)
    BY DEF AuditInv, TypeOK
  <2>2. Lines(primary) \in Nat /\ Lines(mirror) \in Nat /\ Lines(seen) \in Nat
    BY <2>1, LinesFinite
  <2>3. Lines(mirror) > Lines(seen)
    BY <2>2 DEF ReadMirror, Compare
  <2>4. Lines(mirror) <= Lines(primary)
    <3>1. /\ Closed(mirror) \in Int /\ Closed(primary) \in Int
          /\ OpenLines(mirror) \in 0..1 /\ OpenLines(primary) \in 0..1
          /\ Closed(mirror) + OpenLines(mirror) = Lines(mirror)
          /\ Closed(primary) + OpenLines(primary) = Lines(primary)
      BY <2>1, ClosedTyped
    <3>2. Cardinality(Debtors) \in Nat
      BY FS_CardinalityType DEF CountInv
    <3> QED
      BY <2>2, <3>1, <3>2 DEF CountInv
  <2> QED
    BY <2>2, <2>3, <2>4
<1> QED
  BY <1>1, CountInvHolds, PTL DEF AlarmNeedsAppend

-----------------------------------------------------------------------------
(* When no write fails and no process dies.                                *)

CallsFinish == Env = {}

NoneFails == \A w \in Writer : pc[w] \notin {"closing", "mirrorclosing"}

\* Then no call raises.
LEMMA NoneFailsStep ==
  ASSUME CallsFinish, AuditInv, NoneFails, [Next]_vars
  PROVE  NoneFails'
<1> SUFFICES ASSUME NEW w \in Writer PROVE pc'[w] \notin {"closing", "mirrorclosing"}
  BY DEF NoneFails
<1>1. CASE Stays(w)
  BY <1>1 DEF Stays, NoneFails
<1>2. ASSUME PeekSize(w) \/ PeekScan(w) \/ Appending(w) \/ Crash(w)
      PROVE  pc'[w] \notin {"closing", "mirrorclosing"}
  BY <1>2 DEF CallsFinish, PeekSize, PeekScan, Appending, Lock, TakesLock, ReadHead, HeadRaises,
    Write, WriteStops, Close, Unlock, WriteMirror, MirrorFails, MirrorClose, Crash, Returns,
    AuditInv, TypeOK
<1> QED
  BY <1>1, <1>2, OwnStep

\* Then a sink grows by a whole line at a time.
LEMMA WholeLines ==
  ASSUME CallsFinish, AuditInv, NoneFails, [Next]_vars
  PROVE  /\ \A w \in Writer : Write(w) =>
              /\ pc[w] = "headed" /\ pc' = [pc EXCEPT ![w] = "written"] /\ mirror' = mirror
              /\ pending' = pending
              /\ primary' = Append(primary, NewPiece(pending[w], 0, 3))
              /\ NewPiece(pending[w], 0, 3) \in Piece
         /\ \A w \in Writer : WriteMirror(w) =>
              /\ pc[w] = "mirror" /\ pc' = [pc EXCEPT ![w] = "idle"] /\ primary' = primary
              /\ mirror' = Append(mirror, NewPiece(pending[w], 0, 3))
              /\ NewPiece(pending[w], 0, 3) \in Piece
         /\ (\A w \in Writer : ~Write(w) /\ ~WriteMirror(w)) =>
              /\ UNCHANGED sinks
              /\ \A w \in Writer : /\ pc'[w] \in Owing <=> pc[w] \in Owing
                                   /\ pc[w] \in Owing => pending'[w] = pending[w]
<1>0. TypeOK /\ primary \in Seq(Piece) /\ mirror \in Seq(Piece)
  BY DEF AuditInv, TypeOK
<1>1. ASSUME NEW w \in Writer, pc[w] \in {"headed", "mirror"}, NEW f \in Seq(Piece)
      PROVE  /\ Put(f, pending[w], sent[w], 3) = Append(f, NewPiece(pending[w], 0, 3))
             /\ NewPiece(pending[w], 0, 3) \in Piece
  <2>1. sent[w] = 0 /\ pending[w] \in Line
    BY <1>0, <1>1, Typed DEF AuditInv, CallsInv, Failing
  <2> QED
    BY <2>1, PutNew
<1>2. ASSUME NEW w \in Writer, Write(w)
      PROVE  /\ pc[w] = "headed" /\ pc' = [pc EXCEPT ![w] = "written"] /\ mirror' = mirror
             /\ pending' = pending
             /\ primary' = Append(primary, NewPiece(pending[w], 0, 3))
             /\ NewPiece(pending[w], 0, 3) \in Piece
  BY <1>0, <1>1, <1>2 DEF Write, WritePrimary, calls
<1>3. ASSUME NEW w \in Writer, WriteMirror(w)
      PROVE  /\ pc[w] = "mirror" /\ pc' = [pc EXCEPT ![w] = "idle"] /\ primary' = primary
             /\ mirror' = Append(mirror, NewPiece(pending[w], 0, 3))
             /\ NewPiece(pending[w], 0, 3) \in Piece
  BY <1>0, <1>1, <1>3 DEF WriteMirror, WriteSecond, Returns
<1>4. ASSUME \A w \in Writer : ~Write(w) /\ ~WriteMirror(w)
      PROVE  /\ UNCHANGED sinks
             /\ \A w \in Writer : /\ pc'[w] \in Owing <=> pc[w] \in Owing
                                  /\ pc[w] \in Owing => pending'[w] = pending[w]
  <2>1. UNCHANGED sinks
    <3>1. \A w \in Writer : ~PrimaryWrite(w) /\ ~MirrorWrite(w)
      BY <1>4 DEF PrimaryWrite, MirrorWrite, WriteStops, Close, Crash, MirrorFails, MirrorClose,
        CallsFinish, NoneFails
    <3> QED
      BY <3>1, OtherSteps
  <2>2. ASSUME NEW w \in Writer
        PROVE  /\ pc'[w] \in Owing <=> pc[w] \in Owing
               /\ pc[w] \in Owing => pending'[w] = pending[w]
    <3>1. CASE Stays(w)
      BY <3>1 DEF Stays
    <3>2. ASSUME PeekSize(w) \/ PeekScan(w) \/ Appending(w) \/ Crash(w)
          PROVE  /\ pc'[w] \in Owing <=> pc[w] \in Owing
                 /\ pc[w] \in Owing => pending'[w] = pending[w]
      BY <1>0, <1>4, <3>2 DEF Owing, CallsFinish, NoneFails, PeekSize, PeekScan, Appending, Lock, TakesLock,
        ReadHead, HeadRaises, WriteStops, Close, Unlock, MirrorFails, MirrorClose, Crash, Returns, calls,
        TypeOK
    <3> QED
      BY <3>1, <3>2, OwnStep
  <2> QED
    BY <2>1, <2>2
<1> QED
  BY <1>2, <1>3, <1>4

\* The mirror lacks a line for each process that still has to write it
Together ==
  /\ NoneFails
  /\ IsFiniteSet(Debtors)
  /\ Len(mirror) + Cardinality(Debtors) = Len(primary)

\* A line written to the primary is owed to the mirror until it is written there.
LEMMA TogetherStep ==
  ASSUME CallsFinish, AuditInv, Together, [Next]_vars
  PROVE  Together'
<1>0. /\ TypeOK /\ NoneFails /\ IsFiniteSet(Debtors) /\ Cardinality(Debtors) \in Nat
      /\ Len(mirror) \in Nat /\ Len(primary) \in Nat
      /\ Len(mirror) + Cardinality(Debtors) = Len(primary)
  BY FS_CardinalityType DEF AuditInv, TypeOK, Together
<1>1. NoneFails'
  BY <1>0, NoneFailsStep
<1>2. ASSUME NEW w \in Writer, Write(w) PROVE Together'
  <2>1. /\ pc[w] = "headed" /\ pc' = [pc EXCEPT ![w] = "written"] /\ mirror' = mirror
        /\ primary' = Append(primary, NewPiece(pending[w], 0, 3))
        /\ NewPiece(pending[w], 0, 3) \in Piece
    BY <1>0, <1>2, WholeLines
  <2>2. Debtors' = Debtors \cup {w} /\ w \notin Debtors
    BY <1>0, <2>1 DEF Debtors, Owing, TypeOK
  <2>3. IsFiniteSet(Debtors') /\ Cardinality(Debtors') = Cardinality(Debtors) + 1
    BY <1>0, <2>2, FS_AddElement
  <2>4. Len(primary') = Len(primary) + 1
    BY <1>0, <2>1, AppendKeeps DEF TypeOK
  <2> QED
    BY <1>0, <1>1, <2>1, <2>3, <2>4 DEF Together
<1>3. ASSUME NEW w \in Writer, WriteMirror(w) PROVE Together'
  <2>1. /\ pc[w] = "mirror" /\ pc' = [pc EXCEPT ![w] = "idle"] /\ primary' = primary
        /\ mirror' = Append(mirror, NewPiece(pending[w], 0, 3))
        /\ NewPiece(pending[w], 0, 3) \in Piece
    BY <1>0, <1>3, WholeLines
  <2>2. Debtors' = Debtors \ {w} /\ w \in Debtors
    BY <1>0, <2>1 DEF Debtors, Owing, TypeOK
  <2>3. IsFiniteSet(Debtors') /\ Cardinality(Debtors') = Cardinality(Debtors) - 1
    BY <1>0, <2>2, FS_RemoveElement
  <2>4. Len(mirror') = Len(mirror) + 1
    BY <1>0, <2>1, AppendKeeps DEF TypeOK
  <2> QED
    BY <1>0, <1>1, <2>1, <2>3, <2>4 DEF Together
<1>4. ASSUME \A w \in Writer : ~Write(w) /\ ~WriteMirror(w) PROVE Together'
  <2>1. UNCHANGED sinks /\ \A w \in Writer : pc'[w] \in Owing <=> pc[w] \in Owing
    BY <1>0, <1>4, WholeLines
  <2>2. Debtors' = Debtors
    BY <2>1 DEF Debtors
  <2> QED
    BY <1>0, <1>1, <2>1, <2>2 DEF Together, sinks
<1> QED
  BY <1>2, <1>3, <1>4

\* No call is under way
Quiet == \A w \in Writer : pc[w] \in {"idle", "peek"}

\* With no call under way the sinks are then of one length: check_mirror says
\* neither "mirror is behind" nor "mirror has entries the primary does not", and
\* only the order of the lines is left for it to disagree about.
THEOREM QuietSinksOneLength ==
  ASSUME CallsFinish
  PROVE  Spec => [](Quiet => Len(mirror) = Len(primary))
<1>1. Init => Together
  <2>1. Init => Debtors = {} /\ NoneFails /\ Len(mirror) = 0 /\ Len(primary) = 0
    BY DEF Init, Debtors, Owing, NoneFails
  <2>2. IsFiniteSet({}) /\ Cardinality({}) = 0
    BY FS_EmptySet
  <2> QED
    BY <2>1, <2>2 DEF Together
<1>2. AuditInv /\ Together /\ [Next]_vars => Together'
  BY TogetherStep
<1>3. AuditInv /\ Together => (Quiet => Len(mirror) = Len(primary))
  <2> SUFFICES ASSUME AuditInv, Together, Quiet PROVE Len(mirror) = Len(primary)
    OBVIOUS
  <2>1. Debtors = {}
    BY DEF Debtors, Quiet, Owing
  <2>2. Cardinality(Debtors) = 0
    BY <2>1, FS_EmptySet
  <2>3. Len(mirror) \in Nat
    BY DEF AuditInv, TypeOK
  <2> QED
    BY <2>2, <2>3 DEF Together
<1> QED
  BY <1>1, <1>2, <1>3, AuditInvHolds, PTL DEF Spec

-----------------------------------------------------------------------------
(* A process that appends alone.                                           *)

\* The mirror lags by at most the one line under way
MirrorFollows(w) ==
  /\ NoneFails
  /\ pc[w] \in Owing => primary = Append(mirror, NewPiece(pending[w], 0, 3))
  /\ pc[w] \notin Owing => mirror = primary

\* "Both sinks receive the identical canonical line, so any divergence is a real
\* integrity event": that holds of a process that appends alone, at every length
\* of the log.  Two are needed to write the mirror out of order.
THEOREM LoneWriterSinksAgree ==
  ASSUME CallsFinish, NEW w0, Writer = {w0}
  PROVE  Spec => []QuietSinksAgree
<1>1. Init => MirrorFollows(w0)
  BY DEF Init, MirrorFollows, Owing, NoneFails
<1>2. ASSUME AuditInv, MirrorFollows(w0), [Next]_vars PROVE MirrorFollows(w0)'
  <2>0. w0 \in Writer /\ NoneFails /\ NoneFails' /\ pc \in [Writer -> Step]
    BY <1>2, NoneFailsStep DEF MirrorFollows, AuditInv, TypeOK
  <2>1. CASE Write(w0)
    BY <1>2, <2>0, <2>1, WholeLines DEF MirrorFollows, Owing
  <2>2. CASE WriteMirror(w0)
    BY <1>2, <2>0, <2>2, WholeLines DEF MirrorFollows, Owing
  <2>3. CASE ~Write(w0) /\ ~WriteMirror(w0)
    <3>1. \A w \in Writer : ~Write(w) /\ ~WriteMirror(w)
      BY <2>3
    <3>2. /\ UNCHANGED sinks /\ (pc'[w0] \in Owing <=> pc[w0] \in Owing)
          /\ pc[w0] \in Owing => pending'[w0] = pending[w0]
      BY <1>2, <2>0, <3>1, WholeLines
    <3> QED
      BY <1>2, <2>0, <3>2 DEF MirrorFollows, sinks
  <2> QED
    BY <2>1, <2>2, <2>3
<1>3. MirrorFollows(w0) => QuietSinksAgree
  BY DEF MirrorFollows, QuietSinksAgree, Owing
<1> QED
  BY <1>1, <1>2, <1>3, AuditInvHolds, PTL DEF Spec

=============================================================================
