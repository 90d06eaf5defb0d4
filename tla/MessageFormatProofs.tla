-------------------------- MODULE MessageFormatProofs --------------------------
(***************************************************************************)
(* Lemmas about the message format: what is packed is parsed again, alone  *)
(* or at the end of a chunk, and how the parts of lines follow each other. *)
(***************************************************************************)
EXTENDS MessageFormat, SequenceTheorems, FiniteSetTheorems, WellFoundedInduction, TLAPS

\* The properties of an object that its text has
kept(o) ==
  {p \in DOMAIN o : /\ p \in {"type", "seq", "data", "uid"} \/ (p = "sticky" /\ o.sticky = TRUE)
                    /\ o[p] # undefined}

\* The object its receiver gets
wire(o) == Restrict(o, kept(o))

\* What is left of it on the way, where text is cut to bytes
arriving(o, enable_compression) == IF enable_compression THEN inBytes(wire(o)) ELSE wire(o)

Accepted(o) == o # Corrupt /\ requiresList(o.type) \subseteq DOMAIN o

LEMMA WireShape ==
  ASSUME NEW o
  PROVE  DOMAIN wire(o) = kept(o) /\ \A p \in kept(o) : wire(o)[p] = o[p]
BY DEF wire, Restrict

LEMMA PackIsLine ==
  ASSUME NEW o, NEW c
  PROVE  packOutgoingMessage(o, c) = chunkOf(line(arriving(o, c)), c)
<1> DEFINE K == {p \in DOMAIN o : \/ p \in {"type", "seq", "data", "uid"}
                                  \/ p = "sticky" /\ o.sticky = TRUE}
           data == [p \in K |-> o[p]]
<1>1. {p \in DOMAIN data : data[p] # undefined} = kept(o)
  BY DEF kept
<1>2. kept(o) \subseteq K
  BY DEF kept
<1>3. [p \in kept(o) |-> data[p]] = wire(o)
  BY <1>2 DEF wire, Restrict
<1>4. packOutgoingMessage(o, c) = compress(data, c)
  BY DEF packOutgoingMessage, Restrict
<1> HIDE DEF data
<1>5. stringify(data) = wire(o)
  BY <1>1, <1>3 DEF stringify, Restrict
<1> QED
  BY <1>4, <1>5 DEF compress, arriving

-----------------------------------------------------------------------------
(* The last line of a chunk. *)

Below == {p \in Nat \X Nat : p[1] < p[2]}

LEMMA MaxIn ==
  ASSUME NEW n \in Nat, NEW M, M \subseteq 0 .. n, M # {}
  PROVE  Max(M) \in M /\ \A x \in M : x <= Max(M)
<1> DEFINE T == {n - x : x \in M}
<1>1. T \subseteq Nat /\ T # {}
  <2>1. \A x \in M : n - x \in Nat
    OBVIOUS
  <2> QED
    BY <2>1
<1>2. IsWellFoundedOn(Below, Nat)
  BY NatLessThanWellFounded DEF OpToRel, Below
<1>3. PICK y \in T : \A z \in T : ~(<<z, y>> \in Below)
  <2> HIDE DEF T
  <2> QED
    BY <1>1, <1>2, WFMin
<1>4. PICK m \in M : y = n - m
  OBVIOUS
<1>5. ASSUME NEW x \in M PROVE m >= x
  <2>1. <<n - x, n - m>> \notin Below /\ n - x \in Nat /\ n - m \in Nat
    BY <1>3, <1>4
  <2> QED
    BY <2>1 DEF Below
<1>6. M \subseteq Nat
  OBVIOUS
<1> HIDE DEF T
<1> QED
  BY <1>5, <1>6 DEF Max

LEMMA Slice ==
  ASSUME NEW T, NEW s \in Seq(T), NEW m \in 1 .. Len(s) + 1, NEW n \in m - 1 .. Len(s)
  PROVE  /\ SubSeq(s, m, n) \in Seq(T)
         /\ Len(SubSeq(s, m, n)) = n - m + 1
         /\ \A i \in 1 .. n - m + 1 : SubSeq(s, m, n)[i] = s[m + i - 1]
<1>1. m \in Int /\ n \in Int /\ (\A i \in m .. n : s[i] \in T) /\ (~(m <= n) => n - m + 1 = 0)
  OBVIOUS
<1> QED
  BY <1>1, SubSeqProperties

LEMMA Prefix ==
  ASSUME NEW T, NEW s \in Seq(T), NEW n \in 0 .. Len(s)
  PROVE  /\ SubSeq(s, 1, n) \in Seq(T) /\ Len(SubSeq(s, 1, n)) = n
         /\ \A i \in 1 .. n : SubSeq(s, 1, n)[i] = s[i]
<1>1. 1 \in 1 .. Len(s) + 1 /\ n \in 1 - 1 .. Len(s) /\ n - 1 + 1 = n
  OBVIOUS
<1>2. \A i \in 1 .. n : 1 + i - 1 = i
  OBVIOUS
<1> QED
  BY <1>1, <1>2, Slice

\* The text split('\n') is applied to: without the newline it ends with
textOf(parts) == IF Last(parts).part = "newline" THEN Front(parts) ELSE parts

newlinesOf(text) == {i \in DOMAIN text : text[i].part = "newline"}

LEMMA LastLineOf ==
  ASSUME NEW parts
  PROVE  lastLine(parts) = SubSeq(textOf(parts), Max(newlinesOf(textOf(parts)) \cup {0}) + 1,
                                  Len(textOf(parts)))
BY DEF lastLine, textOf, newlinesOf

LEMMA TextOf ==
  ASSUME NEW T, NEW parts \in Seq(T), parts # << >>
  PROVE  /\ textOf(parts) \in Seq(T)
         /\ Len(textOf(parts)) =
              IF parts[Len(parts)].part = "newline" THEN Len(parts) - 1 ELSE Len(parts)
         /\ \A i \in 1 .. Len(textOf(parts)) : i \in 1 .. Len(parts) /\ textOf(parts)[i] = parts[i]
<1>1. CASE parts[Len(parts)].part = "newline"
  <2>1. textOf(parts) = SubSeq(parts, 1, Len(parts) - 1)
    BY <1>1 DEF textOf, Last, Front
  <2>2. Len(parts) \in Nat \ {0} /\ Len(parts) - 1 \in 0 .. Len(parts)
    OBVIOUS
  <2> DEFINE n == Len(parts) - 1
  <2> HIDE DEF n
  <2>3. n \in 0 .. Len(parts) /\ textOf(parts) = SubSeq(parts, 1, n)
    BY <2>1, <2>2 DEF n
  <2>4. /\ textOf(parts) \in Seq(T) /\ Len(textOf(parts)) = n
        /\ \A i \in 1 .. n : textOf(parts)[i] = parts[i]
    BY <2>3, Prefix
  <2> QED
    BY <1>1, <2>2, <2>4 DEF n
<1>2. CASE parts[Len(parts)].part # "newline"
  BY <1>2 DEF textOf, Last
<1> QED
  BY <1>1, <1>2

\* A chunk that ends with a whole line, with its newline or without, is parsed as
\* the object of that line.
LEMMA ParseLastLine ==
  ASSUME NEW T, NEW parts \in Seq(T), NEW e \in 2 .. Len(parts), NEW c,
         \/ e = Len(parts)
         \/ e = Len(parts) - 1 /\ parts[Len(parts)].part = "newline",
         parts[e].part = "end", parts[e - 1].part = "begin",
         e = 2 \/ parts[e - 2].part = "newline",
         Accepted(parts[e - 1].of)
  PROVE  parseIncomingMessage(chunkOf(parts, c), c) = parts[e - 1].of
<1> DEFINE text == textOf(parts)
<1>1. text \in Seq(T) /\ Len(text) = e /\ \A i \in 1 .. e : text[i] = parts[i]
  BY TextOf
<1> HIDE DEF text
<1>2. newlinesOf(text) \cup {0} \subseteq 0 .. e - 2 /\ e - 2 \in newlinesOf(text) \cup {0}
  <2>1. DOMAIN text = 1 .. e /\ e \in Nat \ {0, 1}
    BY <1>1
  <2>2. text[e].part # "newline" /\ text[e - 1].part # "newline"
    BY <1>1
  <2>3. newlinesOf(text) \subseteq 0 .. e - 2
    BY <2>1, <2>2 DEF newlinesOf
  <2>4. e = 2 \/ e - 2 \in newlinesOf(text)
    BY <1>1, <2>1 DEF newlinesOf
  <2> QED
    BY <2>1, <2>3, <2>4
<1>3. Max(newlinesOf(text) \cup {0}) = e - 2
  BY <1>2 DEF Max
<1>4. lastLine(parts) = SubSeq(text, e - 1, e)
  <2>1. lastLine(parts) = SubSeq(text, Max(newlinesOf(text) \cup {0}) + 1, Len(text))
    BY LastLineOf DEF text
  <2>2. e - 2 + 1 = e - 1
    OBVIOUS
  <2> QED
    BY <1>1, <1>3, <2>1, <2>2
<1>5. Len(lastLine(parts)) = 2 /\ lastLine(parts)[1] = parts[e - 1]
  BY <1>1, <1>4, SubSeqProperties
<1>6. decompress(chunkOf(parts, c), c) = parts[e - 1].of
  BY <1>5 DEF decompress, isWhole, chunkOf
<1> QED
  BY <1>6 DEF parseIncomingMessage, Accepted

\* Whatever a chunk holds, it is parsed as the object of one of its parts, or not
\* at all.
LEMMA ParseSome ==
  ASSUME NEW T, NEW parts \in Seq(T), parts # << >>, NEW c
  PROVE  LET object == parseIncomingMessage(chunkOf(parts, c), c)
         IN  object # Corrupt =>
               Accepted(object) /\ \E i \in 1 .. Len(parts) : object = parts[i].of
<1> DEFINE text == textOf(parts)
           from == Max(newlinesOf(text) \cup {0}) + 1
           object == parseIncomingMessage(chunkOf(parts, c), c)
<1> SUFFICES ASSUME object # Corrupt
             PROVE  Accepted(object) /\ \E i \in 1 .. Len(parts) : object = parts[i].of
  OBVIOUS
<1>1. /\ text \in Seq(T) /\ Len(text) \in Nat
      /\ \A i \in 1 .. Len(text) : i \in 1 .. Len(parts) /\ text[i] = parts[i]
  BY TextOf
<1>2. lastLine(parts) = SubSeq(text, from, Len(text))
  BY LastLineOf
<1>3. object = decompress(chunkOf(parts, c), c) /\ Accepted(object)
  BY DEF parseIncomingMessage, Accepted
<1>4. isWhole(lastLine(parts)) /\ object = lastLine(parts)[1].of
  BY <1>3 DEF decompress, chunkOf
<1> HIDE DEF text
<1>5. from \in Nat \ {0}
  <2>1. newlinesOf(text) \cup {0} \subseteq 0 .. Len(text)
    BY <1>1 DEF newlinesOf
  <2>2. Max(newlinesOf(text) \cup {0}) \in newlinesOf(text) \cup {0}
    BY <1>1, <2>1, MaxIn
  <2> QED
    BY <1>1, <2>1, <2>2
<1> HIDE DEF from, object
<1>6. /\ Len(lastLine(parts)) = IF from <= Len(text) THEN Len(text) - from + 1 ELSE 0
      /\ \A i \in 1 .. Len(text) - from + 1 : lastLine(parts)[i] = text[from + i - 1]
  <2>1. \A i \in from .. Len(text) : text[i] \in T
    BY <1>1, <1>5
  <2> QED
    BY <1>1, <1>2, <1>5, <2>1, SubSeqProperties
<1>7. from \in 1 .. Len(text) /\ lastLine(parts)[1] = text[from]
  <2>1. Len(lastLine(parts)) = 2
    BY <1>4 DEF isWhole
  <2>2. from <= Len(text) /\ Len(text) - from + 1 = 2
    <3>1. Len(lastLine(parts)) = IF from <= Len(text) THEN Len(text) - from + 1 ELSE 0
      BY <1>6
    <3>2. CASE from <= Len(text)
      BY <2>1, <3>1, <3>2
    <3>3. CASE ~(from <= Len(text))
      BY <2>1, <3>1, <3>3
    <3> QED
      BY <3>2, <3>3
  <2>3. lastLine(parts)[1] = text[from + 1 - 1]
    BY <1>6, <2>2
  <2> QED
    BY <1>1, <1>5, <2>2, <2>3
<1> QED
  BY <1>1, <1>3, <1>4, <1>7
-----------------------------------------------------------------------------
(* Lines that follow each other. *)

PartName == {"begin", "end", "newline"}

Names == <<"begin", "end", "newline">>

LEMMA Triple ==
  ASSUME NEW T, NEW a \in T, NEW b \in T, NEW e \in T
  PROVE  <<a, b, e>> \in Seq(T) /\ Len(<<a, b, e>>) = 3
OBVIOUS

LEMMA AsSequence ==
  ASSUME NEW T, NEW n \in Nat, NEW f \in [1 .. n -> T]
  PROVE  f \in Seq(T) /\ Len(f) = n
OBVIOUS

LEMMA LineParts ==
  ASSUME NEW o
  PROVE  /\ line(o) \in Seq([of : {o}, part : PartName]) /\ Len(line(o)) = 3
         /\ line(o)[1] = [of |-> o, part |-> "begin"]
         /\ line(o)[2] = [of |-> o, part |-> "end"]
         /\ line(o)[3] = [of |-> o, part |-> "newline"]
<1> DEFINE parts == << [of |-> o, part |-> "begin"], [of |-> o, part |-> "end"],
                       [of |-> o, part |-> "newline"] >>
<1>1. \A i \in 1 .. 3 : parts[i] = [of |-> o, part |-> Names[i]]
  BY DEF Names
<1>2. parts \in Seq([of : {o}, part : PartName]) /\ Len(parts) = 3
  <2> DEFINE T == [of : {o}, part : PartName]
  <2>1. /\ [of |-> o, part |-> "begin"] \in T
        /\ [of |-> o, part |-> "end"] \in T
        /\ [of |-> o, part |-> "newline"] \in T
    BY DEF PartName
  <2> HIDE DEF T
  <2>2. parts \in Seq(T) /\ Len(parts) = 3
    BY <2>1, Triple
  <2> QED
    BY <2>2 DEF T
<1>3. parts = [i \in 1 .. 3 |-> parts[i]]
  OBVIOUS
<1>4. line(o) = [i \in 1 .. 3 |-> [of |-> o, part |-> Names[i]]]
  BY DEF line, Names
<1>5. line(o) = parts
  <2> HIDE DEF parts
  <2> QED
    BY <1>1, <1>3, <1>4
<1> QED
  BY <1>2, <1>5

\* A line is parsed as the object it was made of, if that is acceptable.
LEMMA ParseLine ==
  ASSUME NEW w, NEW c
  PROVE  parseIncomingMessage(chunkOf(line(w), c), c) = IF Accepted(w) THEN w ELSE Corrupt
<1> DEFINE object == parseIncomingMessage(chunkOf(line(w), c), c)
<1>1. /\ line(w) \in Seq([of : {w}, part : PartName]) /\ Len(line(w)) = 3
      /\ line(w)[1] = [of |-> w, part |-> "begin"]
      /\ line(w)[2] = [of |-> w, part |-> "end"]
      /\ line(w)[3] = [of |-> w, part |-> "newline"]
  BY LineParts
<1>2. CASE Accepted(w)
  <2>1. 2 \in 2 .. Len(line(w)) /\ 2 = Len(line(w)) - 1
    BY <1>1
  <2>2. line(w)[2].part = "end" /\ line(w)[2 - 1].part = "begin" /\ Accepted(line(w)[2 - 1].of)
    BY <1>1, <1>2
  <2>3. line(w)[Len(line(w))].part = "newline"
    BY <1>1
  <2>4. object = line(w)[2 - 1].of
    BY <1>1, <2>1, <2>2, <2>3, ParseLastLine
  <2>5. line(w)[2 - 1].of = w
    BY <1>1
  <2> HIDE DEF object
  <2>6. object = w
    BY <2>4, <2>5
  <2> QED
    BY <1>2, <2>6 DEF object
<1>3. CASE ~Accepted(w)
  <2>1. line(w) # << >>
    <3>1. Len(line(w)) # Len(<< >>)
      BY <1>1
    <3> QED
      BY <3>1
  <2>2. \A i \in 1 .. Len(line(w)) : line(w)[i].of = w
    <3> DEFINE T == [of : {w}, part : PartName]
    <3>1. \A p \in T : p.of = w
      OBVIOUS
    <3>2. line(w) \in Seq(T)
      BY <1>1
    <3> HIDE DEF T
    <3> QED
      BY <3>1, <3>2
  <2>3. object # Corrupt =>
          Accepted(object) /\ \E i \in 1 .. Len(line(w)) : object = line(w)[i].of
    BY <1>1, <2>1, ParseSome
  <2> HIDE DEF object
  <2> QED
    BY <1>3, <2>2, <2>3 DEF object
<1> QED
  BY <1>2, <1>3

\* What one side packs the other parses, but for properties without a value, and
\* unless its text does not fit into bytes.
LEMMA RoundTrip ==
  ASSUME NEW o, NEW c
  PROVE  parseIncomingMessage(packOutgoingMessage(o, c), c) =
           IF Accepted(arriving(o, c)) THEN arriving(o, c) ELSE Corrupt
BY PackIsLine, ParseLine

\* Parts are whole lines but for the beginning, which has been read.
InLines(parts) ==
  \A i \in 1 .. Len(parts) :
    /\ parts[i].part \in {"begin", "end", "newline"}
    /\ parts[i].part = "begin" =>
         i < Len(parts) /\ parts[i + 1].part = "end" /\ parts[i + 1].of = parts[i].of
    /\ parts[i].part = "end" =>
         i < Len(parts) /\ parts[i + 1].part = "newline" /\ parts[i + 1].of = parts[i].of
    /\ parts[i].part = "newline" => i = Len(parts) \/ parts[i + 1].part = "begin"

Thirds(n) == (n + 2) \div 3

LEMMA StreamShape ==
  ASSUME NEW O, NEW objects \in Seq(O), NEW chunks, Len(chunks) = Len(objects),
         \A i \in 1 .. Len(objects) : chunks[i].parts = line(objects[i])
  PROVE  LET parts == stream(chunks)
         IN  /\ parts \in Seq([of : O, part : PartName]) /\ Len(parts) = 3 * Len(objects)
             /\ InLines(parts)
             /\ parts # << >> => /\ parts[1].part = "begin"
                                /\ parts[Len(parts)].of = objects[Len(objects)]
<1> DEFINE parts == stream(chunks)
           L == Len(objects)
<1>1. L \in Nat /\ DOMAIN objects = 1 .. L
  OBVIOUS
<1>2. Len(chunks) = L /\ \A i \in 1 .. L : chunks[i].parts = line(objects[i])
  OBVIOUS
<1>3. \A n \in 1 .. 3 * L : Thirds(n) \in 1 .. L /\ n \in Nat
  BY <1>1 DEF Thirds
<1>4. \A n \in 1 .. 3 * L : ((n - 1) % 3) + 1 \in 1 .. 3
  BY <1>1
<1>5. \A n \in 1 .. 3 * L :
        chunks[Thirds(n)].parts[((n - 1) % 3) + 1] =
          [of |-> objects[Thirds(n)], part |-> Names[((n - 1) % 3) + 1]]
  <2>1. \A n \in 1 .. 3 * L : chunks[Thirds(n)].parts = line(objects[Thirds(n)])
    BY <1>2, <1>3
  <2>2. \A o : \A k \in 1 .. 3 : line(o)[k] = [of |-> o, part |-> Names[k]]
    BY DEF line, Names
  <2> QED
    BY <1>4, <2>1, <2>2
<1>6. parts = [n \in 1 .. 3 * L |-> chunks[Thirds(n)].parts[((n - 1) % 3) + 1]]
  BY <1>2 DEF stream, Thirds
<1> HIDE DEF parts, L
<1>7. parts = [n \in 1 .. 3 * L |-> [of |-> objects[Thirds(n)], part |-> Names[((n - 1) % 3) + 1]]]
  BY <1>5, <1>6
<1>8. parts \in Seq([of : O, part : PartName]) /\ Len(parts) = 3 * L
  <2>1. \A n \in 1 .. 3 * L :
          [of |-> objects[Thirds(n)], part |-> Names[((n - 1) % 3) + 1]] \in [of : O, part : PartName]
    <3>1. \A n \in 1 .. 3 * L : objects[Thirds(n)] \in O
      BY <1>1, <1>3
    <3>2. \A i \in 1 .. 3 : Names[i] \in PartName
      <4>1. \A i \in 1 .. 3 : i = 1 \/ i = 2 \/ i = 3
        OBVIOUS
      <4>2. Names[1] \in PartName /\ Names[2] \in PartName /\ Names[3] \in PartName
        BY DEF Names, PartName
      <4> QED
        BY <4>1, <4>2
    <3> QED
      BY <1>4, <3>1, <3>2
  <2>2. parts \in [1 .. 3 * L -> [of : O, part : PartName]] /\ 3 * L \in Nat
    <3>1. 3 * L \in Nat
      BY <1>1
    <3> HIDE DEF Thirds
    <3> QED
      BY <1>7, <2>1, <3>1
  <2> QED
    BY <2>2, AsSequence
<1>9. \A n \in 1 .. 3 * L :
        parts[n].of = objects[Thirds(n)] /\ parts[n].part = Names[((n - 1) % 3) + 1]
  BY <1>7
<1>10. ASSUME NEW n \in 1 .. 3 * L
       PROVE  \/ /\ (n - 1) % 3 = 0 /\ n + 1 \in 1 .. 3 * L
                 /\ (n + 1 - 1) % 3 = 1 /\ Thirds(n + 1) = Thirds(n)
              \/ /\ (n - 1) % 3 = 1 /\ n + 1 \in 1 .. 3 * L
                 /\ (n + 1 - 1) % 3 = 2 /\ Thirds(n + 1) = Thirds(n)
              \/ /\ (n - 1) % 3 = 2
                 /\ n = 3 * L \/ (n + 1 \in 1 .. 3 * L /\ (n + 1 - 1) % 3 = 0)
  BY <1>1 DEF Thirds
<1>11. InLines(parts)
  <2> SUFFICES ASSUME NEW n \in 1 .. 3 * L
               PROVE  /\ parts[n].part \in {"begin", "end", "newline"}
                      /\ parts[n].part = "begin" =>
                           n < 3 * L /\ parts[n + 1].part = "end" /\ parts[n + 1].of = parts[n].of
                      /\ parts[n].part = "end" =>
                           n < 3 * L /\ parts[n + 1].part = "newline" /\ parts[n + 1].of = parts[n].of
                      /\ parts[n].part = "newline" => n = 3 * L \/ parts[n + 1].part = "begin"
    BY <1>8 DEF InLines
  <2>1. n \in Nat /\ L \in Nat
    BY <1>1
  <2>2. Names[0 + 1] = "begin" /\ Names[1 + 1] = "end" /\ Names[2 + 1] = "newline"
    BY DEF Names
  <2>3. CASE (n - 1) % 3 = 0
    <3>1. n + 1 \in 1 .. 3 * L /\ (n + 1 - 1) % 3 = 1 /\ Thirds(n + 1) = Thirds(n)
      BY <1>10, <2>3
    <3>2. parts[n].part = "begin" /\ parts[n + 1].part = "end" /\ parts[n + 1].of = parts[n].of
      BY <1>9, <2>2, <2>3, <3>1
    <3> QED
      BY <2>1, <3>1, <3>2
  <2>4. CASE (n - 1) % 3 = 1
    <3>1. n + 1 \in 1 .. 3 * L /\ (n + 1 - 1) % 3 = 2 /\ Thirds(n + 1) = Thirds(n)
      BY <1>10, <2>4
    <3>2. parts[n].part = "end" /\ parts[n + 1].part = "newline" /\ parts[n + 1].of = parts[n].of
      BY <1>9, <2>2, <2>4, <3>1
    <3> QED
      BY <2>1, <3>1, <3>2
  <2>5. CASE (n - 1) % 3 = 2
    <3>1. n = 3 * L \/ (n + 1 \in 1 .. 3 * L /\ (n + 1 - 1) % 3 = 0)
      BY <1>10, <2>5
    <3>2. parts[n].part = "newline"
      BY <1>9, <2>2, <2>5
    <3>3. n = 3 * L \/ parts[n + 1].part = "begin"
      BY <1>9, <2>2, <3>1
    <3> QED
      BY <3>2, <3>3
  <2> QED
    BY <1>10, <2>3, <2>4, <2>5
<1>12. ASSUME parts # << >>
       PROVE  parts[1].part = "begin" /\ parts[Len(parts)].of = objects[L]
  <2>1. 3 * L # 0 /\ L \in Nat
    BY <1>1, <1>8, <1>12
  <2>2. 1 \in 1 .. 3 * L /\ (1 - 1) % 3 = 0 /\ 3 * L \in 1 .. 3 * L /\ Thirds(3 * L) = L
    BY <2>1 DEF Thirds
  <2>3. Names[((1 - 1) % 3) + 1] = "begin"
    BY DEF Names
  <2> QED
    BY <1>8, <1>9, <2>2, <2>3
<1> QED
  BY <1>1, <1>8, <1>11, <1>12 DEF parts, L

LEMMA SuffixInLines ==
  ASSUME NEW T, NEW parts \in Seq(T), InLines(parts), NEW n \in 1 .. Len(parts)
  PROVE  LET rest == SubSeq(parts, n + 1, Len(parts))
         IN  /\ rest \in Seq(T) /\ Len(rest) = Len(parts) - n /\ InLines(rest)
             /\ \A i \in 1 .. Len(rest) : n + i \in 1 .. Len(parts) /\ rest[i] = parts[n + i]
<1> DEFINE rest == SubSeq(parts, n + 1, Len(parts))
           L == Len(parts)
<1>1. L \in Nat /\ n \in 1 .. L
  OBVIOUS
<1>2. /\ rest \in Seq(T) /\ Len(rest) = L - n
      /\ \A i \in 1 .. L - n : rest[i] = parts[n + i]
  <2>1. n + 1 \in 1 .. L + 1 /\ L \in n + 1 - 1 .. L /\ L - (n + 1) + 1 = L - n
    BY <1>1
  <2>2. \A i \in 1 .. L - n : n + 1 + i - 1 = n + i
    BY <1>1
  <2> DEFINE m == n + 1
  <2>3. m \in 1 .. Len(parts) + 1 /\ L \in m - 1 .. Len(parts)
    BY <2>1
  <2>4. rest = SubSeq(parts, m, L)
    OBVIOUS
  <2> HIDE DEF m, rest
  <2>5. /\ rest \in Seq(T) /\ Len(rest) = L - m + 1
        /\ \A i \in 1 .. L - m + 1 : rest[i] = parts[m + i - 1]
    BY <2>3, <2>4, Slice
  <2> HIDE DEF L
  <2> QED
    BY <2>1, <2>2, <2>5 DEF m
<1>3. \A i \in 1 .. L - n :
        /\ n + i \in 1 .. L
        /\ n + i < L => i + 1 \in 1 .. L - n /\ n + (i + 1) = n + i + 1 /\ i < L - n
        /\ n + i = L => i = L - n
  BY <1>1
<1>4. \A i \in 1 .. L - n : n + i < L => rest[i + 1] = parts[n + i + 1]
  BY <1>2, <1>3
<1> HIDE DEF rest
<1>5. InLines(rest)
  <2> SUFFICES ASSUME NEW i \in 1 .. L - n
               PROVE  /\ rest[i].part \in {"begin", "end", "newline"}
                      /\ rest[i].part = "begin" =>
                           i < L - n /\ rest[i + 1].part = "end" /\ rest[i + 1].of = rest[i].of
                      /\ rest[i].part = "end" =>
                           i < L - n /\ rest[i + 1].part = "newline" /\ rest[i + 1].of = rest[i].of
                      /\ rest[i].part = "newline" => i = L - n \/ rest[i + 1].part = "begin"
    BY <1>2 DEF InLines
  <2>1. n + i \in 1 .. L /\ rest[i] = parts[n + i]
    BY <1>2, <1>3
  <2>2. CASE n + i < L
    <3>1. rest[i + 1] = parts[n + i + 1] /\ i < L - n /\ n + i # L
      BY <1>1, <1>3, <1>4, <2>2
    <3> QED
      BY <2>1, <3>1 DEF InLines
  <2>3. CASE n + i = L
    BY <1>3, <2>1, <2>3 DEF InLines
  <2> QED
    BY <1>1, <2>1, <2>2, <2>3
<1> QED
  BY <1>2, <1>3, <1>5 DEF rest

LEMMA ConcatInLines ==
  ASSUME NEW T, NEW parts \in Seq(T), InLines(parts), NEW more \in Seq(T), InLines(more),
         more # << >> => more[1].part = "begin"
  PROVE  /\ parts \o more \in Seq(T) /\ Len(parts \o more) = Len(parts) + Len(more)
         /\ InLines(parts \o more)
         /\ \A i \in 1 .. Len(parts) : (parts \o more)[i] = parts[i]
         /\ \A i \in 1 .. Len(more) : (parts \o more)[Len(parts) + i] = more[i]
<1> DEFINE all == parts \o more
           L == Len(parts)
           M == Len(more)
<1>1. L \in Nat /\ M \in Nat
  OBVIOUS
<1>2. /\ all \in Seq(T) /\ Len(all) = L + M
      /\ \A i \in 1 .. L : all[i] = parts[i]
      /\ \A i \in 1 .. M : all[L + i] = more[i]
  OBVIOUS
<1>3. M # 0 => all[L + 1].part = "begin"
  <2>1. ASSUME M # 0 PROVE 1 \in 1 .. M /\ more # << >>
    BY <1>1, <2>1
  <2> QED
    BY <1>2, <2>1
<1> HIDE DEF all
<1>4. InLines(all)
  <2> SUFFICES ASSUME NEW i \in 1 .. L + M
               PROVE  /\ all[i].part \in {"begin", "end", "newline"}
                      /\ all[i].part = "begin" =>
                           i < L + M /\ all[i + 1].part = "end" /\ all[i + 1].of = all[i].of
                      /\ all[i].part = "end" =>
                           i < L + M /\ all[i + 1].part = "newline" /\ all[i + 1].of = all[i].of
                      /\ all[i].part = "newline" => i = L + M \/ all[i + 1].part = "begin"
    BY <1>2 DEF InLines
  <2>1. CASE i < L
    <3>1. i \in 1 .. L /\ i + 1 \in 1 .. L /\ i < L + M /\ i # L
      BY <1>1, <2>1
    <3> QED
      BY <1>2, <3>1 DEF InLines
  <2>2. CASE i = L
    <3>1. i \in 1 .. L /\ ~(i < L)
      BY <1>1, <2>2
    <3>2. all[i] = parts[i] /\ parts[i].part = "newline"
      BY <1>2, <3>1 DEF InLines
    <3> QED
      BY <1>1, <1>3, <2>2, <3>2
  <2>3. CASE i > L
    <3> DEFINE j == i - L
    <3>1. j \in 1 .. M /\ i = L + j /\ (j < M => j + 1 \in 1 .. M /\ L + (j + 1) = i + 1 /\ i < L + M)
      BY <1>1, <2>3
    <3>2. all[i] = more[j] /\ (j < M => all[i + 1] = more[j + 1])
      <4> HIDE DEF j, L, M
      <4> QED
        BY <1>2, <3>1
    <3>3. (j = M => i = L + M) /\ (j < M \/ j = M) /\ j \in Nat
      BY <1>1, <3>1
    <3> HIDE DEF j
    <3> QED
      BY <3>1, <3>2, <3>3 DEF InLines
  <2> QED
    BY <1>1, <2>1, <2>2, <2>3
<1> QED
  BY <1>2, <1>4 DEF all

\* A read that reaches the end of the last line, or the newline after it, is parsed
\* as that line.
LEMMA ChunkOfLast ==
  ASSUME NEW T, NEW parts \in Seq(T), InLines(parts), Len(parts) >= 3,
         NEW n \in {Len(parts) - 1, Len(parts)}, NEW c, Accepted(parts[Len(parts)].of)
  PROVE  parseIncomingMessage(chunkOf(SubSeq(parts, 1, n), c), c) = parts[Len(parts)].of
<1> DEFINE L == Len(parts)
           read == SubSeq(parts, 1, n)
           e == L - 1
<1>1. L \in Nat /\ L >= 3 /\ (n = L - 1 \/ n = L)
  OBVIOUS
<1> HIDE DEF L, read
<1>2. /\ L \in 1 .. L /\ e \in 1 .. L /\ e - 1 \in 1 .. L /\ e + 1 = L /\ e - 1 + 1 = e
      /\ ~(L < L) /\ e # L /\ e - 1 # L
      /\ e = 2 \/ (e - 2 \in 1 .. L /\ e - 2 + 1 = e - 1 /\ e - 2 # L)
  BY <1>1
<1>3. parts[L].part = "newline"
  BY <1>2 DEF InLines, L
<1>4. parts[e].part = "end" /\ parts[e].of = parts[L].of
  BY <1>2, <1>3 DEF InLines, L
<1>5. parts[e - 1].part = "begin" /\ parts[e - 1].of = parts[L].of
  BY <1>2, <1>4 DEF InLines, L
<1>6. e = 2 \/ parts[e - 2].part = "newline"
  BY <1>2, <1>5 DEF InLines, L
<1>7. read \in Seq(T) /\ Len(read) = n /\ \A i \in 1 .. n : read[i] = parts[i]
  <2>1. n \in 0 .. Len(parts)
    BY <1>1 DEF L
  <2> QED
    BY <2>1, Prefix DEF read
<1>8. /\ e \in 2 .. n /\ e \in 1 .. n /\ e - 1 \in 1 .. n /\ (e # 2 => e - 2 \in 1 .. n)
      /\ e = n \/ (e = n - 1 /\ n = L /\ n \in 1 .. n)
  BY <1>1
<1> HIDE DEF e
<1>9. parseIncomingMessage(chunkOf(read, c), c) = read[e - 1].of
  <2>1. read[e].part = "end" /\ read[e - 1].part = "begin" /\ Accepted(read[e - 1].of)
    BY <1>4, <1>5, <1>7, <1>8 DEF L
  <2>2. e = 2 \/ read[e - 2].part = "newline"
    BY <1>6, <1>7, <1>8
  <2>3. e = Len(read) \/ (e = Len(read) - 1 /\ read[Len(read)].part = "newline")
    BY <1>3, <1>7, <1>8
  <2>4. e \in 2 .. Len(read)
    BY <1>7, <1>8
  <2> QED
    BY <1>7, <2>1, <2>2, <2>3, <2>4, ParseLastLine
<1> QED
  BY <1>5, <1>7, <1>8, <1>9 DEF L, read

\* A newline alone is no message.
LEMMA LoneNewline ==
  ASSUME NEW T, NEW parts \in Seq(T), Len(parts) = 1, parts[1].part = "newline", NEW c
  PROVE  parseIncomingMessage(chunkOf(parts, c), c) = Corrupt
<1> DEFINE text == textOf(parts)
<1>1. text \in Seq(T) /\ Len(text) = 0
  <2>1. parts # << >> /\ parts[Len(parts)].part = "newline"
    OBVIOUS
  <2> QED
    BY <2>1, TextOf
<1>2. lastLine(parts) = SubSeq(text, Max(newlinesOf(text) \cup {0}) + 1, Len(text))
  BY LastLineOf
<1> HIDE DEF text
<1>3. newlinesOf(text) \cup {0} = {0}
  BY <1>1 DEF newlinesOf
<1>4. Max(newlinesOf(text) \cup {0}) = 0
  <2>1. Max({0}) \in {0}
    BY MaxIn
  <2> QED
    BY <1>3, <2>1
<1>5. Len(lastLine(parts)) = 0
  <2>1. 1 \in 1 .. Len(text) + 1 /\ 0 \in 1 - 1 .. Len(text)
    BY <1>1
  <2>2. Len(SubSeq(text, 1, 0)) = 0 - 1 + 1
    BY <1>1, <2>1, Slice
  <2> QED
    BY <1>1, <1>2, <1>4, <2>2
<1>6. decompress(chunkOf(parts, c), c) = Corrupt
  BY <1>5 DEF decompress, isWhole, chunkOf
<1> QED
  BY <1>6 DEF parseIncomingMessage
=============================================================================
