-------------------------- MODULE StreamPipeProofs --------------------------
(***************************************************************************)
(* Theorems about StreamPipe, for every set of symbols and bodies of any   *)
(* length, in any pieces.                                                  *)
(***************************************************************************)
EXTENDS StreamPipe, TLAPS, FiniteSetTheorems, SequenceTheorems

-----------------------------------------------------------------------------
(* Numbers.                                                                *)

(* What Min picks is there and is the least.                               *)
LEMMA LeastNat ==
  ASSUME NEW S \in SUBSET Nat, S # {}
  PROVE  Min(S) \in S /\ \A y \in S : Min(S) <= y
  <1> DEFINE R == OpToRel(<, Nat)
  <1>1. \E x \in S : \A y \in S : ~(<<y, x>> \in R)
    <2>1. IsWellFoundedOn(R, Nat)
      BY NatLessThanWellFounded
    <2> HIDE DEF R
    <2> QED BY <2>1, WFMin
  <1>2. PICK x \in S : \A y \in S : ~(<<y, x>> \in R)
    BY <1>1
  <1>3. \A y \in S : x <= y
    <2>1. \A m, n \in Nat : m < n => <<m, n>> \in R
      BY DEF OpToRel
    <2> SUFFICES ASSUME NEW y \in S PROVE x <= y
      OBVIOUS
    <2>2. x \in Nat /\ y \in Nat /\ ~(<<y, x>> \in R)
      BY <1>2
    <2> HIDE DEF R
    <2>3. ~(y < x)
      BY <2>1, <2>2
    <2> QED BY <2>2, <2>3
  <1> QED BY <1>3 DEF Min

LEMMA MinMaxOfTwo ==
  ASSUME NEW i \in Int, NEW j \in Int, i < j
  PROVE  /\ Min({i, j}) = i /\ Max({i, j}) = j
         /\ Min({j, i}) = i /\ Max({j, i}) = j
  <1>1. Min({i, j}) = i
    BY DEF Min
  <1>2. Max({i, j}) = j
    BY DEF Max
  <1>3. {i, j} = {j, i}
    OBVIOUS
  <1> QED BY <1>1, <1>2, <1>3

(* A finite set of numbers with more than one has two.                     *)
LEMMA MoreThanOne ==
  ASSUME NEW S, IsFiniteSet(S), NEW i \in S
  PROVE  Cardinality(S) > 1 <=> \E j \in S : j # i
  <1>1. S = {i} => Cardinality(S) = 1
    BY FS_Singleton
  <1>2. S # {i} => Cardinality(S) # 1
    BY FS_Singleton
  <1>3. Cardinality(S) # 0 /\ Cardinality(S) \in Nat
    BY FS_EmptySet, FS_CardinalityType
  <1> QED BY <1>1, <1>2, <1>3

-----------------------------------------------------------------------------
(* What the parser is to hear in the body: what the body says, with "\n\n" *)
(* for its blank lines.                                                    *)

CutBetween(i, j) ==
  \E k \in i + 1 .. j - 2 : body[k] \in LineEnds /\ body[k + 1] = "nl"

SameBlock(i, j) == ~CutBetween(Min({i, j}), Max({i, j}))

Hears(i) ==
  IF \E j \in Lines \ {i} : SameBlock(i, j) THEN "junk" ELSE body[i]

HeardStops == {i \in Lines : Hears(i) \in {"done", "junk", "warped"}}

HeardDeltas ==
  {i \in Lines : Hears(i) = "delta" /\ \A j \in HeardStops : i < j}

EndTellsHeard ==
  LET stop == IF HeardStops = {} THEN "done" ELSE Hears(Min(HeardStops))
  IN  /\ result = "whole" => conn = "whole" /\ stop = "done"
      /\ result = "invalid" => conn = "whole" /\ stop = "junk"
      /\ result = "unexpected" => conn = "whole" /\ stop = "warped"

(* Where no blank line is misread the two are the same.                    *)
LEMMA SaidIsHeard ==
  ASSUME Len(body) \in Nat, Misread = {}
  PROVE  /\ Stops = HeardStops /\ Deltas = HeardDeltas
         /\ \A i \in Lines : Says(i) = Hears(i)
  <1>1. ASSUME NEW i \in Lines, NEW j \in Lines
        PROVE  BlankBetween(i, j) <=> CutBetween(i, j)
    <2>1. i \in 1 .. Len(body) /\ j \in 1 .. Len(body)
      BY DEF Lines
    <2>2. ASSUME NEW k \in i + 1 .. j - 2, body[k] \in LineEnds, body[k + 1] \in LineEnds
          PROVE  body[k + 1] = "nl"
      <3>1. k \in 1 .. Len(body) - 1
        BY <2>1
      <3>2. body[k + 1] # "crlf"
        BY <2>2, <3>1 DEF Misread
      <3> QED BY <2>2, <3>2 DEF LineEnds
    <2>3. "nl" \in LineEnds
      BY DEF LineEnds
    <2> QED BY <2>2, <2>3 DEF BlankBetween, CutBetween
  <1>2. ASSUME NEW i \in Lines, NEW j \in Lines, i # j
        PROVE  SameEvent(i, j) <=> SameBlock(i, j)
    <2>1. i \in Int /\ j \in Int
      BY DEF Lines
    <2>2. CASE i < j
      BY <1>1, <2>1, <2>2, MinMaxOfTwo DEF SameEvent, SameBlock
    <2>3. CASE j < i
      BY <1>1, <2>1, <2>3, MinMaxOfTwo DEF SameEvent, SameBlock
    <2> QED BY <1>2, <2>1, <2>2, <2>3
  <1>3. ASSUME NEW i \in Lines PROVE Says(i) = Hears(i)
    <2>1. (\E j \in Lines \ {i} : SameEvent(i, j))
            <=> \E j \in Lines \ {i} : SameBlock(i, j)
      BY <1>2
    <2> QED BY <2>1 DEF Says, Hears
  <1>4. Stops = HeardStops
    BY <1>3 DEF Stops, HeardStops
  <1> QED BY <1>3, <1>4 DEF Deltas, HeardDeltas

BodyType == body \in Seq(Symbols)

(* The body has no cut inside from + 1 .. to.                              *)
NoCutIn(from, to) ==
  \A k \in from + 1 .. to - 1 : ~(body[k] \in LineEnds /\ body[k + 1] = "nl")

(* The parser may stand at p: at the start, behind a blank line, or at the *)
(* end.                                                                    *)
Edge(p) ==
  \/ p = 0
  \/ p \in 2 .. Len(body) /\ body[p] = "nl" /\ body[p - 1] \in LineEnds
  \/ p = Len(body)

(* A block of the body from p: up to a cut, or to the end.                 *)
Block(p, b, e) ==
  /\ p \in 0 .. Len(body) /\ b \in p .. Len(body) /\ e \in b .. Len(body)
  /\ Edge(p) /\ NoCutIn(p, b)
  /\ \/ b = Len(body)
     \/ e = b + 2 /\ body[b + 1] \in LineEnds /\ body[b + 2] = "nl"

LEMMA SameBlockOrdered ==
  ASSUME NEW i \in Int, NEW j \in Int, i < j
  PROVE  /\ SameBlock(i, j) <=> ~CutBetween(i, j)
         /\ SameBlock(j, i) <=> ~CutBetween(i, j)
  BY MinMaxOfTwo DEF SameBlock

(* The lines of a block make one event, to which no others belong.         *)
LEMMA BlockIsEvent ==
  ASSUME BodyType, NEW p, NEW b, NEW e, Block(p, b, e),
         NEW i \in Lines, i \in p + 1 .. b, NEW j \in Lines, i # j
  PROVE  SameBlock(i, j) <=> j \in p + 1 .. b
  <1>0. /\ Len(body) \in Nat /\ i \in 1 .. Len(body) /\ j \in 1 .. Len(body)
        /\ body[i] \in Payloads /\ body[j] \in Payloads
        /\ p \in Int /\ b \in Int
    BY DEF BodyType, Lines, Block
  <1>1. \A s \in Payloads : s \notin LineEnds /\ s # "nl"
    BY DEF Payloads, LineEnds
  <1>2. CASE j \in p + 1 .. b
    <2>1. ~CutBetween(i, j) /\ ~CutBetween(j, i)
      BY <1>0, <1>2 DEF CutBetween, Block, NoCutIn
    <2> QED BY <1>0, <1>2, <2>1, SameBlockOrdered
  <1>3. CASE j <= p
    <2>1. p \in 2 .. Len(body) /\ body[p] = "nl" /\ body[p - 1] \in LineEnds
      BY <1>0, <1>3 DEF Block, Edge
    <2>2. j # p /\ j # p - 1
      BY <1>0, <1>1, <2>1
    <2>3. p - 1 \in j + 1 .. i - 2 /\ (p - 1) + 1 = p
      BY <1>0, <1>3, <2>1, <2>2
    <2>4. CutBetween(j, i)
      BY <2>1, <2>3 DEF CutBetween
    <2> QED BY <1>0, <1>3, <2>4, SameBlockOrdered
  <1>4. CASE j > b
    <2>1. body[b + 1] \in LineEnds /\ body[b + 2] = "nl"
      BY <1>0, <1>4 DEF Block
    <2>2. j # b + 1 /\ j # b + 2
      BY <1>0, <1>1, <2>1
    <2>3. b + 1 \in i + 1 .. j - 2 /\ (b + 1) + 1 = b + 2
      BY <1>0, <1>4, <2>2
    <2>4. CutBetween(i, j)
      BY <2>1, <2>3 DEF CutBetween
    <2> QED BY <1>0, <1>4, <2>4, SameBlockOrdered
  <1> QED BY <1>0, <1>2, <1>3, <1>4

LEMMA BlockHears ==
  ASSUME BodyType, NEW p, NEW b, NEW e, Block(p, b, e), NEW i \in Lines, i \in p + 1 .. b
  PROVE  Hears(i) = IF \E j \in Lines \cap (p + 1 .. b) : j # i THEN "junk" ELSE body[i]
  <1>1. (\E j \in Lines \ {i} : SameBlock(i, j)) <=> \E j \in Lines \cap (p + 1 .. b) : j # i
    BY BlockIsEvent
  <1> QED BY <1>1 DEF Hears

(* The parser hears of a block what is to be heard there.                  *)
LEMMA EventIsHeard ==
  ASSUME BodyType, NEW p, NEW b, NEW e, Block(p, b, e)
  PROVE  LET event == EventOf(p + 1 .. b)
             here == Lines \cap (p + 1 .. b)
         IN  /\ here = {} => event = "none"
             /\ here # {} => event \in Payloads
             /\ \A i \in here : Hears(i) = event
             /\ event = "delta" =>
                  \E i : here = {i} /\ (CHOOSE n \in p + 1 .. b : body[n] = "delta") = i
  <1> DEFINE event == EventOf(p + 1 .. b)
             here == Lines \cap (p + 1 .. b)
             data == {i \in p + 1 .. b : body[i] \in Payloads}
  <1>0. p \in Nat /\ b \in Nat /\ Len(body) \in Nat /\ b <= Len(body)
    BY DEF BodyType, Block
  <1>1. data = here
    BY <1>0 DEF Lines
  <1>2. IsFiniteSet(here)
    <2>1. IsFiniteSet(p + 1 .. b) /\ here \in SUBSET (p + 1 .. b)
      BY <1>0, FS_Interval
    <2> QED BY <2>1, FS_Subset
  <1>3. event = CASE here = {}             -> "none"
                  [] Cardinality(here) > 1 -> "junk"
                  [] OTHER                 -> body[CHOOSE i \in here : TRUE]
    BY <1>1 DEF EventOf
  <1>4. CASE here = {}
    <2>1. event = "none"
      BY <1>3, <1>4, FS_EmptySet
    <2> QED BY <1>4, <2>1 DEF Payloads
  <1>5. CASE here # {}
    <2>1. PICK i \in here : TRUE
      BY <1>5
    <2>2. body[i] \in Payloads
      BY DEF Lines
    <2>3. CASE \E j \in here : j # i
      <3>1. Cardinality(here) > 1
        BY <1>2, <2>3, MoreThanOne
      <3>2. event = "junk"
        BY <1>3, <1>5, <3>1
      <3>3. ASSUME NEW n \in here PROVE Hears(n) = "junk"
        <4>1. \E j \in here : j # n
          BY <2>3
        <4> QED BY <4>1, BlockHears
      <3> QED BY <1>5, <3>2, <3>3 DEF Payloads
    <2>4. CASE ~ \E j \in here : j # i
      <3>1. here = {i} /\ ~(Cardinality(here) > 1)
        BY <1>2, <2>4, MoreThanOne
      <3>2. (CHOOSE n \in here : TRUE) = i
        BY <3>1
      <3>3. event = body[i]
        BY <1>3, <1>5, <3>1, <3>2
      <3>4. Hears(i) = body[i]
        BY <2>4, BlockHears
      <3>5. body[i] = "delta" => (CHOOSE n \in p + 1 .. b : body[n] = "delta") = i
        <4>1. ASSUME NEW n \in p + 1 .. b, body[n] = "delta" PROVE n = i
          BY <1>1, <3>1, <4>1 DEF Payloads
        <4> QED BY <4>1
      <3> QED BY <1>5, <2>2, <3>1, <3>3, <3>4, <3>5
    <2> QED BY <2>3, <2>4
  <1> QED BY <1>4, <1>5

-----------------------------------------------------------------------------
(* The inductive invariant.                                                *)

Verdicts == {"whole", "invalid", "unexpected"}
Early == {"connecting", "posting"}
Reading == {"parsing", "sending"}

(* Stage, connection, slot and result go together.                         *)
SlotInv ==
  /\ stage = "posting" <=> conn = "open"
  /\ stage \in Reading \cup {"lastsend", "abandoned"} => conn = "whole"
  /\ slot <=> stage # "over"
  /\ stage \in Early \cup Reading => result = "none"
  /\ stage = "lastsend" => result = "whole"

(* The chunks written are those of the body up to start, in its order.     *)
Within == \A n \in 1 .. Len(chunks) : chunks[n] \in 1 .. start
InOrder == \A m, n \in 1 .. Len(chunks) : m < n => chunks[m] < chunks[n]
Given == \A i \in 1 .. start : i \in HeardDeltas <=> \E n \in 1 .. Len(chunks) : chunks[n] = i

ReadInv ==
  /\ stage \in Early => start = 0 /\ seen = 0 /\ chunks = <<>>
  /\ Edge(start)
  /\ Within /\ InOrder /\ Given
  /\ stage \in Reading => \A j \in HeardStops : j > start
  /\ EndTellsHeard
  /\ result \in Verdicts => \A i \in HeardDeltas : i <= start

IndInv == TypeOK /\ SlotInv /\ ReadInv

(* What is said of the body stays while the body does.                     *)
LEMMA BodyStays ==
  ASSUME body' = body
  PROVE  /\ Lines' = Lines /\ HeardStops' = HeardStops /\ HeardDeltas' = HeardDeltas
         /\ \A i : Hears(i)' = Hears(i)
         /\ \A p : Edge(p)' <=> Edge(p)
  <1>1. Lines' = Lines
    BY DEF Lines
  <1>2. \A i, j : SameBlock(i, j)' <=> SameBlock(i, j)
    BY DEF SameBlock, CutBetween
  <1>3. \A i : Hears(i)' = Hears(i)
    BY <1>1, <1>2 DEF Hears
  <1>4. HeardStops' = HeardStops
    BY <1>1, <1>3 DEF HeardStops
  <1>5. HeardDeltas' = HeardDeltas
    BY <1>1, <1>3, <1>4 DEF HeardDeltas
  <1>6. \A p : Edge(p)' <=> Edge(p)
    BY DEF Edge
  <1> QED BY <1>1, <1>3, <1>4, <1>5, <1>6

LEMMA HeardWhere ==
  ASSUME TypeOK
  PROVE  /\ BodyType /\ Len(body) \in Nat
         /\ Lines \subseteq 1 .. Len(body) /\ HeardStops \subseteq Lines /\ HeardDeltas \subseteq Lines
         /\ \A i \in HeardDeltas : Hears(i) = "delta" /\ \A j \in HeardStops : i < j
  BY DEF TypeOK, BodyType, Lines, HeardStops, HeardDeltas

(* A step that reads nothing and writes nothing.                           *)
LEMMA StayKeeps ==
  ASSUME TypeOK, ReadInv, UNCHANGED <<body, start, chunks>>,
         (result' = result /\ conn' = conn) \/ result' \notin Verdicts,
         stage' \in Early => stage \in Early /\ seen' = seen,
         stage' \in Reading => stage \in Reading \/ start = 0
  PROVE  ReadInv'
  <1>1. stage' \in Early => start' = 0 /\ seen' = 0 /\ chunks' = <<>>
    BY DEF ReadInv
  <1>2. Edge(start)' /\ Within' /\ InOrder' /\ Given'
    BY BodyStays DEF ReadInv, Within, InOrder, Given
  <1>3. stage' \in Reading => \A j \in HeardStops' : j > start'
    BY BodyStays, HeardWhere DEF ReadInv
  <1>4. EndTellsHeard' /\ (result' \in Verdicts => \A i \in HeardDeltas' : i <= start')
    <2>1. CASE result' = result /\ conn' = conn
      BY <2>1, BodyStays DEF ReadInv, EndTellsHeard
    <2>2. CASE result' \notin Verdicts
      BY <2>2 DEF EndTellsHeard, Verdicts
    <2> QED BY <2>1, <2>2
  <1> QED BY <1>1, <1>2, <1>3, <1>4 DEF ReadInv

(* Where the parser goes on after a block, and what it has passed.         *)
LEMMA BlockEnd ==
  ASSUME TypeOK, NEW b, NEW e, Block(start, b, e)
  PROVE  /\ Edge(e) /\ e \in Nat /\ b \in Nat /\ start <= b /\ b <= e /\ e <= Len(body)
         /\ Lines \cap (start + 1 .. e) = Lines \cap (start + 1 .. b)
  <1>1. /\ Len(body) \in Nat /\ start \in Nat /\ b \in Nat /\ e \in Nat
        /\ start <= b /\ b <= e /\ e <= Len(body)
    BY HeardWhere DEF Block, TypeOK
  <1>2. Edge(e)
    BY <1>1 DEF Block, Edge
  <1>3. ASSUME NEW j \in Lines, j \in b + 1 .. e PROVE FALSE
    <2>1. e = b + 2 /\ body[b + 1] \in LineEnds /\ body[b + 2] = "nl"
      BY <1>1, <1>3 DEF Block
    <2>2. j = b + 1 \/ j = b + 2
      BY <1>1, <1>3, <2>1
    <2> QED BY <2>1, <2>2 DEF Lines, Payloads, LineEnds
  <1>4. Lines \cap (start + 1 .. e) = Lines \cap (start + 1 .. b)
    <2>1. \A j \in start + 1 .. e : j \in start + 1 .. b \/ j \in b + 1 .. e
      BY <1>1
    <2>2. \A j \in start + 1 .. b : j \in start + 1 .. e
      BY <1>1
    <2> QED BY <1>3, <2>1, <2>2
  <1> QED BY <1>1, <1>2, <1>4

(* The chunks after a block that says no chunk.                            *)
LEMMA NoChunkKeeps ==
  ASSUME TypeOK, ReadInv, NEW e \in Nat, start <= e, UNCHANGED <<body, chunks>>, start' = e,
         \A i \in Lines \cap (start + 1 .. e) : Hears(i) # "delta"
  PROVE  Within' /\ InOrder' /\ Given'
  <1>1. start \in Nat /\ \A i \in start + 1 .. e : i \notin HeardDeltas
    BY HeardWhere DEF TypeOK
  <1>2. Within' /\ InOrder'
    BY <1>1 DEF ReadInv, Within, InOrder
  <1>3. ASSUME NEW i \in 1 .. e
        PROVE  i \in HeardDeltas <=> \E n \in 1 .. Len(chunks) : chunks[n] = i
    <2>1. CASE i \in 1 .. start
      BY <2>1 DEF ReadInv, Given
    <2>2. CASE i \in start + 1 .. e
      BY <1>1, <2>2 DEF ReadInv, Within
    <2> QED BY <1>1, <2>1, <2>2
  <1>4. Given'
    BY <1>3, BodyStays DEF Given
  <1> QED BY <1>2, <1>4

(* The chunks after a block that is the chunk i.                           *)
LEMMA ChunkKeeps ==
  ASSUME TypeOK, ReadInv, NEW e \in Nat, start <= e, body' = body, start' = e,
         NEW i \in HeardDeltas, Lines \cap (start + 1 .. e) = {i}, chunks' = Append(chunks, i)
  PROVE  Within' /\ InOrder' /\ Given' /\ chunks' \in Seq(1 .. Len(body))
  <1>1. /\ start \in Nat /\ i \in start + 1 .. e /\ i \in 1 .. Len(body)
        /\ chunks \in Seq(1 .. Len(body)) /\ Len(chunks) \in Nat
    BY HeardWhere DEF TypeOK
  <1>2. /\ chunks' \in Seq(1 .. Len(body)) /\ Len(chunks') = Len(chunks) + 1
        /\ \A n \in 1 .. Len(chunks) : chunks'[n] = chunks[n]
        /\ chunks'[Len(chunks) + 1] = i
    BY <1>1
  <1>3. \A n \in 1 .. Len(chunks) + 1 : n \in 1 .. Len(chunks) \/ n = Len(chunks) + 1
    BY <1>1
  <1>4. \A n \in 1 .. Len(chunks) : chunks[n] \in 1 .. start
    BY DEF ReadInv, Within
  <1>5. Within'
    <2>1. \A n \in 1 .. Len(chunks) : chunks[n] \in 1 .. e
      BY <1>1, <1>4
    <2>2. i \in 1 .. e
      BY <1>1
    <2> QED BY <1>2, <1>3, <2>1, <2>2 DEF Within
  <1>6. InOrder'
    <2> SUFFICES ASSUME NEW m \in 1 .. Len(chunks) + 1, NEW n \in 1 .. Len(chunks) + 1, m < n
                 PROVE  chunks'[m] < chunks'[n]
      BY <1>2 DEF InOrder
    <2>1. m \in 1 .. Len(chunks)
      BY <1>1
    <2>2. CASE n \in 1 .. Len(chunks)
      BY <1>2, <2>1, <2>2 DEF ReadInv, InOrder
    <2>3. CASE n = Len(chunks) + 1
      BY <1>1, <1>2, <1>4, <2>1, <2>3
    <2> QED BY <1>3, <2>2, <2>3
  <1>7. ASSUME NEW j \in 1 .. e
        PROVE  j \in HeardDeltas <=> \E n \in 1 .. Len(chunks) + 1 : chunks'[n] = j
    <2>1. CASE j = i
      BY <1>1, <1>2, <2>1
    <2>2. CASE j \in 1 .. start
      <3>1. j # i
        BY <1>1, <2>2
      <3>2. j \in HeardDeltas <=> \E n \in 1 .. Len(chunks) : chunks[n] = j
        BY <2>2 DEF ReadInv, Given
      <3> QED BY <1>2, <1>3, <3>1, <3>2
    <2>3. CASE j \in start + 1 .. e /\ j # i
      <3>1. j \notin HeardDeltas
        BY <2>3, HeardWhere
      <3>2. \A n \in 1 .. Len(chunks) : chunks[n] # j
        BY <1>1, <1>4, <2>3
      <3> QED BY <1>2, <1>3, <2>3, <3>1, <3>2
    <2> QED BY <1>1, <2>1, <2>2, <2>3
  <1>8. Given'
    BY <1>2, <1>7, BodyStays DEF Given
  <1> QED BY <1>2, <1>5, <1>6, <1>8

(* The first stop of the body, where a block has one and none came before. *)
LEMMA FirstStop ==
  ASSUME TypeOK, NEW b, NEW e, Block(start, b, e), \A j \in HeardStops : j > start,
         NEW v \in {"done", "junk", "warped"},
         Lines \cap (start + 1 .. b) # {},
         \A i \in Lines \cap (start + 1 .. b) : Hears(i) = v
  PROVE  /\ HeardStops # {} /\ Hears(Min(HeardStops)) = v
         /\ \A i \in HeardDeltas : i <= e
  <1>1. PICK i \in Lines : i \in start + 1 .. b
    OBVIOUS
  <1>2. i \in HeardStops
    BY <1>1 DEF HeardStops
  <1>3. HeardStops \in SUBSET Nat
    BY HeardWhere
  <1>4. Min(HeardStops) \in HeardStops /\ Min(HeardStops) <= i
    BY <1>2, <1>3, LeastNat
  <1>5. Min(HeardStops) \in Lines \cap (start + 1 .. b)
    <2>1. Min(HeardStops) > start /\ Min(HeardStops) \in Lines /\ Min(HeardStops) \in Nat
      BY <1>3, <1>4, HeardWhere
    <2>2. start \in Nat /\ b \in Nat
      BY BlockEnd DEF TypeOK
    <2> QED BY <1>1, <1>4, <2>1, <2>2
  <1>6. \A n \in HeardDeltas : n <= e
    <2> SUFFICES ASSUME NEW n \in HeardDeltas PROVE n <= e
      OBVIOUS
    <2>1. n < i /\ n \in Nat
      BY <1>2, HeardWhere
    <2> QED BY <1>1, <2>1, BlockEnd
  <1> QED BY <1>2, <1>5, <1>6

(* No stop up to the end of a block without one.                           *)
LEMMA NoStop ==
  ASSUME TypeOK, NEW b, NEW e, Block(start, b, e), \A j \in HeardStops : j > start,
         \A i \in Lines \cap (start + 1 .. b) : Hears(i) \notin {"done", "junk", "warped"}
  PROVE  \A j \in HeardStops : j > e
  <1> SUFFICES ASSUME NEW j \in HeardStops, ~(j > e) PROVE FALSE
    OBVIOUS
  <1>1. j \in Lines /\ j \in Nat /\ j > start /\ Hears(j) \in {"done", "junk", "warped"}
    BY HeardWhere DEF HeardStops
  <1>2. j \in start + 1 .. e
    BY <1>1, BlockEnd DEF TypeOK
  <1>3. j \in Lines \cap (start + 1 .. b)
    BY <1>1, <1>2, BlockEnd
  <1> QED BY <1>1, <1>3

LEMMA HandleKeeps ==
  ASSUME IndInv, stage = "parsing", NEW b, NEW e, Block(start, b, e), e <= seen,
         NEW atend \in BOOLEAN, atend => b = Len(body),
         Handle(start + 1 .. b, atend), start' = e, UNCHANGED <<conn, body, seen>>
  PROVE  IndInv'
  <1> DEFINE event == EventOf(start + 1 .. b)
             here == Lines \cap (start + 1 .. b)
  <1>1. /\ here = {} => event = "none"
        /\ here # {} => event \in Payloads
        /\ \A i \in here : Hears(i) = event
        /\ event = "delta" =>
             \E i : here = {i} /\ (CHOOSE n \in start + 1 .. b : body[n] = "delta") = i
    BY HeardWhere, EventIsHeard DEF IndInv
  <1>2. /\ TypeOK /\ SlotInv /\ ReadInv /\ BodyType /\ Len(body) \in Nat
        /\ Edge(e) /\ e \in Nat /\ start <= e /\ e <= Len(body) /\ b <= e
        /\ Lines \cap (start + 1 .. e) = here
    <2>1. TypeOK /\ SlotInv /\ ReadInv
      BY DEF IndInv
    <2>2. BodyType /\ Len(body) \in Nat
      BY <2>1, HeardWhere
    <2>3. /\ Edge(e) /\ e \in Nat /\ b \in Nat /\ start <= b /\ b <= e /\ e <= Len(body)
          /\ Lines \cap (start + 1 .. e) = Lines \cap (start + 1 .. b)
      BY <2>1, BlockEnd
    <2>4. start \in Nat
      BY <2>1, <2>2 DEF TypeOK
    <2> QED BY <2>1, <2>2, <2>3, <2>4
  <1>3. conn = "whole" /\ result = "none" /\ slot = TRUE /\ \A j \in HeardStops : j > start
    BY <1>2 DEF SlotInv, ReadInv, Reading, TypeOK
  <1>4. /\ event \in {"none", "odd", "delta", "done", "junk", "warped"}
        /\ event # "none" => here # {}
    BY <1>1 DEF Payloads
  <1>5. Edge(e)' /\ HeardStops' = HeardStops /\ HeardDeltas' = HeardDeltas /\ \A i : Hears(i)' = Hears(i)
    BY <1>2, BodyStays
  <1>6. start' \in 0 .. seen' /\ seen' \in 0 .. Len(body') /\ body' \in Seq(Symbols)
        /\ Len(body') <= MaxBody /\ conn' = "whole"
    BY <1>2, <1>3 DEF TypeOK
  <1> HIDE DEF event, here
  <1>7. CASE event \in {"none", "odd"}
    <2>1. /\ stage' = IF atend THEN "lastsend" ELSE "parsing"
          /\ result' = IF atend THEN "whole" ELSE "none"
          /\ UNCHANGED <<chunks, slot>>
      BY <1>7 DEF Handle, event
    <2>2. Within' /\ InOrder' /\ Given'
      BY <1>1, <1>2, <1>7, <2>1, NoChunkKeeps
    <2>3. \A j \in HeardStops : j > e
      <3>1. \A i \in here : Hears(i) \notin {"done", "junk", "warped"}
        BY <1>1, <1>7
      <3> QED BY <1>2, <1>3, <3>1, NoStop DEF here
    <2>4. atend => e = Len(body) /\ HeardStops = {} /\ \A i \in HeardDeltas : i <= e
      <3> SUFFICES ASSUME atend PROVE e = Len(body) /\ HeardStops = {} /\ \A i \in HeardDeltas : i <= e
        OBVIOUS
      <3>1. e = Len(body)
        BY <1>2 DEF Block
      <3>2. \A i \in Lines : i <= e /\ ~(i > e)
        BY <1>2, <3>1, HeardWhere
      <3> QED BY <1>2, <2>3, <3>1, <3>2, HeardWhere
    <2>5. EndTellsHeard'
      BY <1>5, <1>6, <2>1, <2>4 DEF EndTellsHeard
    <2>6. ReadInv'
      BY <1>5, <2>1, <2>2, <2>3, <2>4, <2>5 DEF ReadInv, Early, Reading, Verdicts
    <2>7. SlotInv'
      BY <1>3, <2>1 DEF SlotInv, Early, Reading
    <2>8. TypeOK'
      BY <1>2, <1>3, <1>6, <2>1 DEF TypeOK, Results
    <2> QED BY <2>6, <2>7, <2>8 DEF IndInv
  <1>8. CASE event = "delta"
    <2>1. PICK i : here = {i} /\ (CHOOSE n \in start + 1 .. b : body[n] = "delta") = i
      BY <1>1, <1>8
    <2>2. stage' = "sending" /\ chunks' = Append(chunks, i) /\ UNCHANGED <<result, slot>>
      BY <1>8, <2>1 DEF Handle, event
    <2>3. \A j \in HeardStops : j > e
      <3>1. \A n \in here : Hears(n) \notin {"done", "junk", "warped"}
        BY <1>1, <1>8
      <3> QED BY <1>2, <1>3, <3>1, NoStop DEF here
    <2>4. i \in HeardDeltas
      <3>1. i \in Lines /\ i \in start + 1 .. e /\ Hears(i) = "delta"
        BY <1>1, <1>2, <1>8, <2>1
      <3>2. \A j \in HeardStops : i < j
        <4>1. i \in Nat /\ i <= e
          BY <1>2, <3>1 DEF TypeOK
        <4>2. \A j \in HeardStops : j \in Nat
          BY <1>2, HeardWhere
        <4> QED BY <1>2, <2>3, <4>1, <4>2
      <3> QED BY <3>1, <3>2 DEF HeardDeltas
    <2>5. Within' /\ InOrder' /\ Given' /\ chunks' \in Seq(1 .. Len(body))
      BY <1>2, <2>1, <2>2, <2>4, ChunkKeeps
    <2>6. ReadInv'
      BY <1>3, <1>5, <2>2, <2>3, <2>5
         DEF ReadInv, Early, Reading, Verdicts, EndTellsHeard
    <2>7. SlotInv'
      BY <1>3, <2>2 DEF SlotInv, Early, Reading
    <2>8. TypeOK'
      BY <1>2, <1>3, <1>6, <2>2, <2>5 DEF TypeOK, Results
    <2> QED BY <2>6, <2>7, <2>8 DEF IndInv
  <1>9. CASE event \in {"done", "junk", "warped"}
    <2>1. /\ UNCHANGED chunks
          /\ \/ event = "done" /\ stage' = "lastsend" /\ result' = "whole" /\ slot' = slot
             \/ event = "junk" /\ stage' = "over" /\ result' = "invalid" /\ slot' = FALSE
             \/ event = "warped" /\ stage' = "over" /\ result' = "unexpected" /\ slot' = FALSE
      BY <1>9 DEF Handle, Leave, event
    <2>2. Within' /\ InOrder' /\ Given'
      BY <1>1, <1>2, <1>9, <2>1, NoChunkKeeps
    <2>3. HeardStops # {} /\ Hears(Min(HeardStops)) = event /\ \A i \in HeardDeltas : i <= e
      BY <1>1, <1>2, <1>3, <1>4, <1>9, FirstStop DEF here
    <2>4. EndTellsHeard'
      BY <1>5, <1>6, <2>1, <2>3 DEF EndTellsHeard
    <2>5. ReadInv'
      BY <1>5, <2>1, <2>2, <2>3, <2>4 DEF ReadInv, Early, Reading, Verdicts
    <2>6. SlotInv'
      BY <1>3, <2>1 DEF SlotInv, Early, Reading
    <2>7. TypeOK'
      BY <1>2, <1>3, <1>6, <2>1 DEF TypeOK, Results
    <2> QED BY <2>5, <2>6, <2>7 DEF IndInv
  <1> QED BY <1>4, <1>7, <1>8, <1>9

-----------------------------------------------------------------------------
(* The actions keep the invariant.                                         *)

LEMMA InitIndInv == Init => IndInv
  <1> SUFFICES ASSUME Init PROVE IndInv
    OBVIOUS
  <1>1. TypeOK
    BY PipeAssumption DEF Init, TypeOK, Results
  <1>2. SlotInv
    BY DEF Init, SlotInv, Early, Reading
  <1>3. ReadInv
    BY DEF Init, ReadInv, Edge, Within, InOrder, Given, EndTellsHeard, Early, Reading, Verdicts
  <1> QED BY <1>1, <1>2, <1>3 DEF IndInv

(* The upstream sends while nothing is read yet.                           *)
LEMMA UpstreamSendsKeeps == ASSUME IndInv, UpstreamSends PROVE IndInv'
  <1>1. /\ TypeOK /\ SlotInv /\ ReadInv /\ stage = "posting" /\ result = "none"
        /\ start = 0 /\ seen = 0 /\ chunks = <<>>
    BY DEF IndInv, SlotInv, ReadInv, UpstreamSends, Early
  <1>2. PICK s \in Symbols : body' = Append(body, s)
    BY DEF UpstreamSends
  <1>3. body' \in Seq(Symbols) /\ Len(body') = Len(body) + 1 /\ Len(body) \in Nat
    BY <1>1, <1>2 DEF TypeOK
  <1>4. UNCHANGED <<stage, conn, start, seen, chunks, result, slot>> /\ Len(body) < MaxBody
    BY DEF UpstreamSends
  <1>5. chunks' \in Seq(1 .. Len(body')) /\ Len(chunks') = 0
    BY <1>1, <1>4
  <1>6. TypeOK'
    BY <1>1, <1>3, <1>4, <1>5, PipeAssumption DEF TypeOK
  <1>7. SlotInv'
    BY <1>1, <1>4 DEF SlotInv
  <1>8. ReadInv'
    BY <1>1, <1>4, <1>5
       DEF ReadInv, Edge, Within, InOrder, Given, EndTellsHeard, Early, Reading, Verdicts
  <1> QED BY <1>6, <1>7, <1>8 DEF IndInv

LEMMA PostKeeps ==
  ASSUME IndInv, Connect \/ ConnectFails \/ Post \/ PostCancelled PROVE IndInv'
  <1>1. TypeOK /\ SlotInv /\ ReadInv /\ stage \in Early /\ result = "none" /\ start = 0
    BY DEF IndInv, SlotInv, ReadInv, Connect, ConnectFails, Post, PostReturns, BadStatus,
           UpstreamBreaks, PostCancelled, Early
  <1>2. /\ UNCHANGED <<body, start, seen, chunks>>
        /\ \/ stage' = "posting" /\ conn' = "open" /\ UNCHANGED <<result, slot>>
           \/ /\ stage' = "parsing" /\ conn' = "whole" /\ UNCHANGED <<result, slot>>
           \/ /\ stage' = "over" /\ conn' # "open" /\ slot' = FALSE
              /\ result' \in {"timeout", "unavailable", "protocol", "gone"}
    BY <1>1 DEF SlotInv, Early, Leave, Connect, ConnectFails, Post, PostReturns, BadStatus,
           UpstreamBreaks, PostCancelled
  <1>3. conn' \in {"none", "open", "whole", "broken"}
    BY <1>1 DEF TypeOK, Connect, ConnectFails, Post, PostReturns, BadStatus,
           UpstreamBreaks, PostCancelled
  <1>4. TypeOK'
    BY <1>1, <1>2, <1>3 DEF TypeOK, Results
  <1>5. SlotInv'
    BY <1>1, <1>2 DEF SlotInv, Early, Reading
  <1>6. result' \notin Verdicts /\ (stage' \in Reading => start = 0)
    BY <1>1, <1>2 DEF Verdicts
  <1>7. ReadInv'
    BY <1>1, <1>2, <1>6, StayKeeps
  <1> QED BY <1>4, <1>5, <1>7 DEF IndInv

LEMMA ParseKeeps == ASSUME IndInv, Parse PROVE IndInv'
  <1>1. TypeOK /\ SlotInv /\ ReadInv /\ stage = "parsing" /\ BodyType /\ Len(body) \in Nat
    BY HeardWhere DEF IndInv, Parse, ReadMore, TakeBlock, Flush
  <1>2. start \in Nat /\ seen \in Nat /\ start <= seen /\ seen <= Len(body) /\ Edge(start)
    BY <1>1 DEF TypeOK, ReadInv
  <1>3. CASE ReadMore
    <2>1. TypeOK'
      BY <1>1, <1>2, <1>3 DEF TypeOK, ReadMore
    <2>2. SlotInv'
      BY <1>1, <1>3 DEF SlotInv, ReadMore
    <2>3. ReadInv'
      BY <1>1, <1>3, StayKeeps DEF ReadMore, Early, Reading
    <2> QED BY <2>1, <2>2, <2>3 DEF IndInv
  <1>4. CASE TakeBlock
    <2> DEFINE cut == Min(Cuts)
    <2>1. Cuts # {} /\ Cuts \in SUBSET Nat
      BY <1>2, <1>4 DEF TakeBlock, Cuts
    <2>2. cut \in Cuts /\ \A k \in Cuts : cut <= k
      BY <2>1, LeastNat
    <2>3. /\ Handle(start + 1 .. cut - 1, FALSE) /\ start' = cut + 1
          /\ UNCHANGED <<conn, body, seen>>
      BY <1>4 DEF TakeBlock
    <2> HIDE DEF cut
    <2>4. /\ cut \in start + 1 .. seen - 1 /\ cut \in Nat
          /\ body[cut] \in LineEnds /\ body[cut + 1] = "nl"
      BY <2>1, <2>2 DEF Cuts
    <2>5. NoCutIn(start, cut - 1)
      <3> SUFFICES ASSUME NEW k \in start + 1 .. (cut - 1) - 1,
                          body[k] \in LineEnds, body[k + 1] = "nl"
                   PROVE  FALSE
        BY DEF NoCutIn
      <3>1. k \in start + 1 .. seen - 1 /\ k < cut
        BY <1>2, <2>4
      <3>2. k \in Cuts
        BY <3>1 DEF Cuts
      <3> QED BY <1>2, <2>2, <2>4, <3>1, <3>2
    <2>6. Block(start, cut - 1, cut + 1)
      <3>1. /\ start \in 0 .. Len(body) /\ cut - 1 \in start .. Len(body)
            /\ cut + 1 \in cut - 1 .. Len(body)
            /\ cut + 1 = (cut - 1) + 2 /\ (cut - 1) + 1 = cut
        BY <1>1, <1>2, <2>4
      <3> QED BY <1>2, <2>4, <2>5, <3>1 DEF Block
    <2>7. cut + 1 <= seen
      BY <1>2, <2>4
    <2> QED BY <1>1, <2>3, <2>6, <2>7, HandleKeeps
  <1>5. CASE Flush
    <2>1. /\ Cuts = {} /\ seen = Len(body) /\ start' = seen
          /\ Handle(start + 1 .. seen, TRUE) /\ UNCHANGED <<conn, body, seen>>
      BY <1>5 DEF Flush
    <2>2. NoCutIn(start, seen)
      BY <2>1 DEF NoCutIn, Cuts
    <2>3. Block(start, seen, seen)
      BY <1>1, <1>2, <2>1, <2>2 DEF Block
    <2>4. seen <= seen
      BY <1>2
    <2> QED BY <1>1, <2>1, <2>3, <2>4, HandleKeeps
  <1> QED BY <1>3, <1>4, <1>5 DEF Parse

LEMMA WriteKeeps == ASSUME IndInv, Write \/ Finalise PROVE IndInv'
  <1>1. TypeOK /\ SlotInv /\ ReadInv
    BY DEF IndInv
  <1>2. /\ UNCHANGED <<conn, body, start, seen, chunks>>
        /\ \/ stage = "sending" /\ stage' = "parsing" /\ UNCHANGED <<result, slot>>
           \/ stage = "lastsend" /\ stage' = "over" /\ slot' = FALSE /\ UNCHANGED result
           \/ /\ stage \in {"sending", "lastsend"} /\ stage' = "abandoned"
              /\ UNCHANGED <<result, slot>>
           \/ stage = "abandoned" /\ stage' = "over" /\ slot' = FALSE /\ result' = "gone"
    BY DEF Write, ChunkSent, DoneSent, ClientGone, Finalise, Leave
  <1>3. TypeOK'
    BY <1>1, <1>2 DEF TypeOK, Results
  <1>4. SlotInv'
    BY <1>1, <1>2 DEF SlotInv, Early, Reading
  <1>5. /\ (result' = result /\ conn' = conn) \/ result' \notin Verdicts
        /\ stage' \notin Early /\ (stage' \in Reading => stage \in Reading)
    BY <1>2 DEF Verdicts, Early, Reading
  <1>6. ReadInv'
    BY <1>1, <1>2, <1>5, StayKeeps
  <1> QED BY <1>3, <1>4, <1>6 DEF IndInv

LEMMA StepIndInv == IndInv /\ [Next]_vars => IndInv'
  <1> SUFFICES ASSUME IndInv, [Next]_vars PROVE IndInv'
    OBVIOUS
  <1>1. CASE UNCHANGED vars
    <2>1. TypeOK' /\ SlotInv'
      BY <1>1 DEF IndInv, TypeOK, SlotInv, vars
    <2>2. ReadInv'
      BY <1>1, StayKeeps DEF IndInv, vars
    <2> QED BY <2>1, <2>2 DEF IndInv
  <1>2. CASE Next
    BY <1>2, UpstreamSendsKeeps, PostKeeps, ParseKeeps, WriteKeeps DEF Next
  <1> QED BY <1>1, <1>2

LEMMA IndInvHolds == Spec => []IndInv
  BY InitIndInv, StepIndInv, PTL DEF Spec

-----------------------------------------------------------------------------
(* Theorems.                                                               *)

(* The parser never reads beyond what has come, whatever the pieces.       *)
THEOREM TypeCorrect == Spec => []TypeOK
  <1>1. IndInv => TypeOK
    BY DEF IndInv
  <1> QED BY <1>1, IndInvHolds, PTL

(* However a stream ends, the connection to the upstream is not left open  *)
(* when the slot is given back.                                            *)
THEOREM UpstreamIsWithinSlot == Spec => []UpstreamWithinSlot
  <1>1. IndInv => UpstreamWithinSlot
    BY DEF IndInv, SlotInv, UpstreamWithinSlot
  <1> QED BY <1>1, IndInvHolds, PTL

(* parse_sse and the loop over its events give the client what the body    *)
(* has in it, in its order, whatever the body and the pieces it comes in.  *)
(* Where a blank line ends in CRLF, which the parser does not see, what is *)
(* left is that nothing is given twice or out of order.                    *)
THEOREM DeliveredIsSent == Spec => []DeliveredAsSent
  <1>1. ASSUME IndInv PROVE DeliveredAsSent
    <2>1. /\ TypeOK /\ ReadInv /\ Len(chunks) \in Nat /\ start \in Nat
          /\ chunks \in Seq(1 .. Len(body)) /\ DOMAIN chunks = 1 .. Len(chunks)
          /\ Len(body) \in Nat
      BY <1>1 DEF IndInv, TypeOK
    <2>2. ASSUME NEW k \in 1 .. Len(chunks) - 1 PROVE chunks[k] < chunks[k + 1]
      BY <2>1 DEF ReadInv, InOrder
    <2>3. ASSUME NEW k \in 1 .. Len(chunks), NEW i \in 1 .. chunks[k]
          PROVE  i \in HeardDeltas <=> \E n \in 1 .. k : chunks[n] = i
      <3>1. chunks[k] \in 1 .. start /\ i \in 1 .. start /\ i \in Nat
        BY <2>1 DEF ReadInv, Within
      <3>2. i \in HeardDeltas <=> \E n \in 1 .. Len(chunks) : chunks[n] = i
        BY <2>1, <3>1 DEF ReadInv, Given
      <3>3. ASSUME NEW n \in 1 .. Len(chunks), chunks[n] = i PROVE n \in 1 .. k
        BY <2>1, <3>1, <3>3 DEF ReadInv, InOrder
      <3>4. \A n \in 1 .. k : n \in 1 .. Len(chunks)
        BY <2>1
      <3> QED BY <3>2, <3>3, <3>4
    <2>4. \A n \in 1 .. Len(chunks) : chunks[n] \in HeardDeltas
      BY <2>1 DEF ReadInv, Given, Within
    <2>5. ASSUME result \in Verdicts PROVE Cardinality(HeardDeltas) = Len(chunks)
      <3>1. HeardDeltas \subseteq 1 .. start
        BY <2>1, <2>5, HeardWhere DEF ReadInv
      <3>2. \A i \in HeardDeltas : \E n \in 1 .. Len(chunks) : chunks[n] = i
        BY <2>1, <3>1 DEF ReadInv, Given
      <3>3. \A m, n \in 1 .. Len(chunks) : chunks[m] = chunks[n] => m = n
        BY <2>1 DEF ReadInv, InOrder, Within
      <3>4. chunks \in Bijection(1 .. Len(chunks), HeardDeltas)
        BY <2>1, <2>4, <3>2, <3>3 DEF Bijection, Injection, Surjection, IsInjective
      <3>5. IsFiniteSet(1 .. Len(chunks)) /\ Cardinality(1 .. Len(chunks)) = Len(chunks)
        <4>1. 1 \in Int /\ Len(chunks) \in Int
          BY <2>1
        <4>2. /\ IsFiniteSet(1 .. Len(chunks))
              /\ Cardinality(1 .. Len(chunks)) =
                   IF 1 > Len(chunks) THEN 0 ELSE Len(chunks) - 1 + 1
          BY <4>1, FS_Interval
        <4> QED BY <2>1, <4>2
      <3> QED BY <3>4, <3>5, FS_Bijection DEF ExistsBijection
    <2>6. OnceInOrder
      <3>1. ASSUME NEW i \in HeardDeltas PROVE body[i] = "delta"
        BY <2>1, HeardWhere DEF Hears
      <3> QED BY <2>2, <2>4, <3>1 DEF OnceInOrder
    <2>7. ASSUME Misread = {} PROVE ChunksAsSent /\ EndTellsBody
      <3>1. /\ Stops = HeardStops /\ Deltas = HeardDeltas
            /\ \A i \in Lines : Says(i) = Hears(i)
        BY <2>1, <2>7, SaidIsHeard
      <3>2. ChunksAsSent
        BY <2>3, <2>5, <3>1 DEF ChunksAsSent, Verdicts
      <3>3. HeardStops # {} => Min(HeardStops) \in Lines
        <4>1. HeardStops \in SUBSET Nat /\ HeardStops \subseteq Lines
          BY <2>1, HeardWhere
        <4> QED BY <4>1, LeastNat
      <3>4. EndTellsBody
        <4> DEFINE said == IF Stops = {} THEN "done" ELSE Says(Min(Stops))
                   heard == IF HeardStops = {} THEN "done" ELSE Hears(Min(HeardStops))
        <4>1. said = heard
          BY <3>1, <3>3
        <4> QED BY <2>1, <4>1 DEF ReadInv, EndTellsHeard, EndTellsBody
      <3> QED BY <3>2, <3>4
    <2> QED BY <2>6, <2>7 DEF DeliveredAsSent
  <1> QED BY <1>1, IndInvHolds, PTL
=============================================================================
