---------------------------- MODULE MessageFormat ----------------------------
(***************************************************************************)
(* Messages on the wire (src/messageHandler.js).  An object is a function  *)
(* from its properties to their values.  A line of text is three parts:    *)
(* two that make up the JSON text of an object, and the newline.  A chunk  *)
(* is what a UDP packet holds or one read of a TCP connection returns: any *)
(* parts that follow each other on the way.  Data carries the kind of its  *)
(* text with it: "wide" text has characters of more than a byte of which   *)
(* one, cut to a byte, is a quote or a control character.                  *)
(***************************************************************************)
EXTENDS SequencesExt

CONSTANTS
  undefined,  \* the value of a property that was never given one
  null

ASSUME ValueAssumption ==
  undefined \notin {"register", "ping", "error", "status", "command"} \cup Nat \cup {null}

\* No object: the text was torn, or a property is missing.
Corrupt == << >>

line(object) == [i \in 1 .. 3 |-> [of |-> object, part |-> <<"begin", "end", "newline">>[i]]]

chunkOf(parts, enable_compression) == [parts |-> parts, compressed |-> enable_compression]

\* What lines that are sent one after the other are on the way: their parts in a row
stream(lines) == [n \in 1 .. 3 * Len(lines) |-> lines[(n + 2) \div 3].parts[((n - 1) % 3) + 1]]

-----------------------------------------------------------------------------
\* JSON.stringify() leaves out properties that are undefined, and keeps null.
stringify(data) == Restrict(data, {p \in DOMAIN data : data[p] # undefined})

\* smaz gives character codes, of which Buffer keeps the low byte: what was JSON
\* is none if that makes a quote of a character.
inBytes(object) ==
  IF "data" \in DOMAIN object /\ object.data.text = "wide" THEN Corrupt ELSE object

compress(data, enable_compression) ==
  chunkOf(line(IF enable_compression THEN inBytes(stringify(data)) ELSE stringify(data)),
          enable_compression)

\* A slip: properties without a value are left out, null among them.
packWithoutNull(msgObj, enable_compression) ==
  compress(Restrict(msgObj, {p \in DOMAIN msgObj \cap {"type", "seq", "data", "uid"} :
                               msgObj[p] # null}), enable_compression)

packOutgoingMessage(msgObj, enable_compression) ==
  compress(Restrict(msgObj, {p \in DOMAIN msgObj :
             \/ p \in {"type", "seq", "data", "uid"}
             \/ p = "sticky" /\ msgObj.sticky = TRUE}), enable_compression)

-----------------------------------------------------------------------------
\* A slip: the first line is kept, as if a chunk had one.
firstLine(parts) ==
  SubSeq(parts, 1, Min({i \in DOMAIN parts : parts[i].part = "newline"} \cup {Len(parts) + 1}) - 1)

\* The parts of the last line: of all that split('\n') returns the last, or
\* the one before if the chunk ends with a newline.
lastLine(parts) ==
  LET lines == IF Last(parts).part = "newline" THEN Front(parts) ELSE parts
      newlines == {i \in DOMAIN lines : lines[i].part = "newline"}
  IN  SubSeq(lines, Max(newlines \cup {0}) + 1, Len(lines))

isWhole(str) == Len(str) = 2 /\ str[1].part = "begin"

\* Text that is no whole object, or is encoded another way, does not parse.
decompress(chunk, enable_compression) ==
  LET str == lastLine(chunk.parts)
  IN  IF chunk.compressed = enable_compression /\ isWhole(str) THEN str[1].of ELSE Corrupt

requiresList(type) ==
  {"type", "seq", "data"} \cup IF type = "register" THEN {} ELSE {"uid"}

\* A chunk is never empty here: the empty one that ends a connection is ignored.
parseIncomingMessage(chunk, enable_compression) ==
  LET msgObj == decompress(chunk, enable_compression)
  IN  IF msgObj # Corrupt /\ requiresList(msgObj.type) \subseteq DOMAIN msgObj
        THEN msgObj ELSE Corrupt
=============================================================================
