------------------------- MODULE HttpMessageProofs --------------------------
(***************************************************************************)
(* The parser and the response of src/http/Http.cpp, for messages of any   *)
(* length, headers of any name and value, and addresses of any depth.      *)
(***************************************************************************)
EXTENDS HttpMessage, WellFoundedInduction, TLAPS

(* A set of natural numbers has a least one.                               *)
LEMMA Least ==
  ASSUME NEW T \in SUBSET Nat, T # {}
  PROVE  \E x \in T : \A y \in T : x <= y
  <1> DEFINE R == OpToRel(<, Nat)
  <1>1. \A x, y \in T : <<y, x>> \in R <=> y < x
    BY DEF OpToRel
  <1> HIDE DEF R
  <1>2. IsWellFoundedOn(R, Nat)
    BY NatLessThanWellFounded DEF R
  <1>3. PICK x \in T : \A y \in T : ~(<<y, x>> \in R)
    BY <1>2, WFMin
  <1>4. \A y \in T : ~(y < x)
    BY <1>1, <1>3
  <1>5. x \in Nat /\ \A y \in T : y \in Nat
    OBVIOUS
  <1> QED
    BY <1>4, <1>5

-----------------------------------------------------------------------------
(* Paths.                                                                  *)

(* The first question mark of a component, and the first component with    *)
(* one.                                                                    *)
LEMMA AskAtIs ==
  ASSUME NEW comp \in Component, Asks(comp)
  PROVE  /\ AskAt(comp) \in 1..Len(comp)
         /\ comp[AskAt(comp)] = "?"
  <1> DEFINE T == {i \in 1..Len(comp) : comp[i] = "?"}
  <1>1. T \in SUBSET Nat /\ T # {}
    BY DEF Asks, Component
  <1>2. PICK x \in T : \A y \in T : x <= y
    BY <1>1, Least
  <1>3. x \in 1..Len(comp) /\ comp[x] = "?" /\ \A j \in 1..(x - 1) : comp[j] # "?"
    BY <1>2 DEF Component
  <1> QED
    BY <1>3 DEF AskAt

LEMMA AskInIs ==
  ASSUME NEW path \in Seq(Component), \E i \in 1..Len(path) : Asks(path[i])
  PROVE  /\ AskIn(path) \in 1..Len(path)
         /\ Asks(path[AskIn(path)])
         /\ \A j \in 1..(AskIn(path) - 1) : ~Asks(path[j])
  <1> DEFINE T == {i \in 1..Len(path) : Asks(path[i])}
  <1>1. T \in SUBSET Nat /\ T # {}
    OBVIOUS
  <1>2. PICK x \in T : \A y \in T : x <= y
    BY <1>1, Least
  <1>3. x \in 1..Len(path) /\ Asks(path[x]) /\ \A j \in 1..(x - 1) : ~Asks(path[j])
    BY <1>2
  <1> QED
    BY <1>3 DEF AskIn

(* There is only one first component with a question mark.                 *)
LEMMA AskInUnique ==
  ASSUME NEW path \in Seq(Component), NEW k \in 1..Len(path),
         Asks(path[k]), \A j \in 1..(k - 1) : ~Asks(path[j])
  PROVE  AskIn(path) = k
  <1>1. /\ AskIn(path) \in 1..Len(path)
        /\ Asks(path[AskIn(path)])
        /\ \A j \in 1..(AskIn(path) - 1) : ~Asks(path[j])
    BY AskInIs
  <1>2. ~(AskIn(path) < k)
    BY <1>1
  <1>3. ~(k < AskIn(path))
    BY <1>1
  <1> QED
    BY <1>1, <1>2, <1>3

(* An index is only put in place of an empty last component.               *)
LEMMA WithIndexIs ==
  ASSUME NEW path \in Seq(Component)
  PROVE  /\ WithIndex(path) \in Seq(Component)
         /\ Len(WithIndex(path)) = Len(path)
         /\ \A i \in 1..(Len(path) - 1) : WithIndex(path)[i] = path[i]
         /\ WithIndex(path) # path =>
              Len(path) > 0 /\ path[Len(path)] = <<>> /\ WithIndex(path)[Len(path)] = Index
  <1>1. Index \in Component
    <2>1. <<"w", ".", "w">> \in Seq({".", "?", "w"})
      OBVIOUS
    <2> QED
      BY <2>1 DEF Index, Component, Chars
  <1>2. CASE path # <<>> /\ Name(path) = <<>>
    <2>1. Len(path) \in 1..Len(path) /\ path[Len(path)] = <<>>
      BY <1>2 DEF Name
    <2>2. WithIndex(path) = [path EXCEPT ![Len(path)] = Index]
      BY <1>2 DEF WithIndex
    <2> QED
      BY <2>1, <2>2, <1>1
  <1>3. CASE ~(path # <<>> /\ Name(path) = <<>>)
    BY <1>3 DEF WithIndex
  <1> QED
    BY <1>2, <1>3

(* Cutting the arguments keeps the components before the last one.         *)
LEMMA WithoutArgsIs ==
  ASSUME NEW path \in Seq(Component)
  PROVE  /\ WithoutArgs(path) \in Seq(Component)
         /\ Len(WithoutArgs(path)) <= Len(path)
         /\ \A i \in 1..(Len(WithoutArgs(path)) - 1) : WithoutArgs(path)[i] = path[i]
         /\ path # <<>> => WithoutArgs(path) # <<>>
         /\ (\A i \in 1..Len(path) : ~Asks(path[i])) => WithoutArgs(path) = path
  <1>1. CASE \A i \in 1..Len(path) : ~Asks(path[i])
    BY <1>1 DEF WithoutArgs
  <1>2. CASE \E i \in 1..Len(path) : Asks(path[i])
    <2> DEFINE k == AskIn(path)
               cut == [i \in 1..k |-> IF i = k THEN BeforeAsk(path[i]) ELSE path[i]]
    <2>1. k \in 1..Len(path) /\ Asks(path[k])
      BY <1>2, AskInIs
    <2>2. WithoutArgs(path) = cut
      BY <1>2 DEF WithoutArgs
    <2> HIDE DEF k
    <2>3. BeforeAsk(path[k]) \in Component
      <3>1. path[k] \in Component
        BY <2>1
      <3>2. AskAt(path[k]) \in 1..Len(path[k])
        BY <2>1, <3>1, AskAtIs
      <3> QED
        BY <3>1, <3>2 DEF BeforeAsk, Component
    <2>4. \A i \in 1..k : cut[i] \in Component
      BY <2>1, <2>3
    <2>5. cut \in Seq(Component) /\ Len(cut) = k
      BY <2>1, <2>4
    <2> QED
      BY <1>2, <2>1, <2>2, <2>5
  <1> QED
    BY <1>1, <1>2

(* Whether an index was added makes no difference if there are arguments.  *)
LEMMA IndexThenCut ==
  ASSUME NEW path \in Seq(Component), \E i \in 1..Len(path) : Asks(path[i])
  PROVE  WithoutArgs(WithIndex(path)) = WithoutArgs(path)
  <1> DEFINE p == WithIndex(path)
             k == AskIn(path)
  <1>1. CASE p = path
    BY <1>1
  <1>2. CASE p # path
    <2>1. /\ p \in Seq(Component)
          /\ Len(p) = Len(path)
          /\ \A i \in 1..(Len(path) - 1) : p[i] = path[i]
          /\ Len(path) > 0 /\ path[Len(path)] = <<>>
      BY <1>2, WithIndexIs
    <2>2. /\ k \in 1..Len(path)
          /\ Asks(path[k])
          /\ \A j \in 1..(k - 1) : ~Asks(path[j])
      BY AskInIs
    <2>3. ~Asks(<<>>)
      BY DEF Asks
    <2> HIDE DEF p, k
    <2>4. k < Len(path)
      BY <2>1, <2>2, <2>3
    <2>5. k \in 1..Len(p) /\ Asks(p[k]) /\ \A j \in 1..(k - 1) : ~Asks(p[j])
      BY <2>1, <2>2, <2>4
    <2>6. AskIn(p) = k
      BY <2>1, <2>5, AskInUnique
    <2>7. \A i \in 1..k : p[i] = path[i]
      BY <2>1, <2>2, <2>4
    <2>8. WithoutArgs(p) = [i \in 1..k |-> IF i = k THEN BeforeAsk(p[i]) ELSE p[i]]
      BY <2>5, <2>6 DEF WithoutArgs
    <2>9. WithoutArgs(path) = [i \in 1..k |-> IF i = k THEN BeforeAsk(path[i]) ELSE path[i]]
      BY <2>2 DEF WithoutArgs, k
    <2> QED
      BY <2>7, <2>8, <2>9 DEF p
  <1> QED
    BY <1>1, <1>2

(* A path whose request had no component ".." and whose last component has *)
(* an extension has none either, although the last component was cut.      *)
LEMMA NoDotDot ==
  ASSUME NEW path \in Seq(Component), ~GoesUp(path),
         HasExtension(WithoutArgs(WithIndex(path)))
  PROVE  \A i \in 1..Len(WithoutArgs(WithIndex(path))) :
           WithoutArgs(WithIndex(path))[i] # DotDot
  <1> DEFINE p == WithIndex(path)
             q == WithoutArgs(p)
  <1>1. p \in Seq(Component) /\ Len(p) = Len(path) /\ \A i \in 1..(Len(path) - 1) : p[i] = path[i]
    BY WithIndexIs
  <1>2. q \in Seq(Component) /\ Len(q) <= Len(p) /\ \A i \in 1..(Len(q) - 1) : q[i] = p[i]
    BY <1>1, WithoutArgsIs
  <1> HIDE DEF p, q
  <1>3. \A i \in 1..(Len(q) - 1) : q[i] # DotDot
    BY <1>1, <1>2 DEF GoesUp
  <1>4. Len(q) > 0 => q[Len(q)] # DotDot
    BY <1>2 DEF HasExtension, Name, p, q
  <1>5. \A i \in 1..Len(q) : q[i] # DotDot
    BY <1>2, <1>3, <1>4
  <1> QED
    BY <1>5 DEF p, q

-----------------------------------------------------------------------------
(* The parser.                                                             *)

Lines == msg.lines

(* The lines before the one the loop looks at are headers, and the table   *)
(* has the first value of each; the address was taken over.                *)
ParsedSoFar ==
  /\ FirstLineValid
  /\ uri = msg.uri
  /\ \A i \in 1..(next - 1) : LineValid(Lines[i])
  /\ headers = FirstValues(Lines, 1..(next - 1))

(* What is known at each place of the program.                             *)
PlaceInv ==
  /\ at \in {"first", "headers"} => status = "OK"
  /\ at = "first" => next = 1 /\ headers = {}
  /\ at = "headers" => ParsedSoFar
  /\ at = "respond" => status \in {"OK", "BAD_REQUEST"}
  /\ at = "respond" /\ status = "OK" =>
       /\ ParsedSoFar
       /\ next <= Len(Lines)
       /\ Lines[next].colon = "empty"
  /\ at = "respond" /\ status # "OK" => ~WellFormed(msg)

IInv == TypeOK /\ PlaceInv /\ ServedBelowRoot /\ ThrowsOnlyForArgs

(* What the assumption says of the message.                                *)
LEMMA MessageIs ==
  ASSUME TypeOK
  PROVE  /\ msg.uri \in Seq(Component)
         /\ msg.lines \in Seq(Line)
         /\ \A i \in 1..Len(msg.lines) : /\ msg.lines[i].key \in Keys
                                         /\ msg.lines[i].value \in Values \cup {<<>>}
  <1>1. msg.uri \in Seq(Component) /\ msg.lines \in Seq(Line)
    BY MessagesAssumption DEF TypeOK
  <1>2. \A i \in 1..Len(msg.lines) : msg.lines[i] \in Line
    BY <1>1
  <1> QED
    BY <1>1, <1>2 DEF Line

(* Among the lines with some key there is a first one.                     *)
LEMMA FirstExists ==
  ASSUME NEW lines, NEW n \in Nat, NEW i \in 1..n
  PROVE  \E j \in FirstLines(lines, 1..n) : lines[j].key = lines[i].key
  <1> DEFINE T == {j \in 1..n : lines[j].key = lines[i].key}
  <1>1. T \in SUBSET Nat /\ T # {}
    OBVIOUS
  <1>2. PICK x \in T : \A y \in T : x <= y
    BY <1>1, Least
  <1> QED
    BY <1>2 DEF FirstLines

(* emplace extends the table of first values by one line.                  *)
LEMMA EmplaceIs ==
  ASSUME NEW n \in Nat \ {0}, headers = FirstValues(Lines, 1..(n - 1))
  PROVE  Emplace(Lines[n].key, Lines[n].value) = FirstValues(Lines, 1..n)
  <1> DEFINE ls == Lines
             m == n - 1
             h == [key |-> ls[n].key, value |-> ls[n].value]
  <1>1. m \in Nat /\ n = m + 1 /\ 1..n = (1..m) \cup {n} /\ n \notin 1..m
    OBVIOUS
  <1>2. (\E g \in headers : g.key = ls[n].key) <=> \E i \in 1..m : ls[i].key = ls[n].key
    <2>1. ASSUME NEW g \in headers, g.key = ls[n].key
          PROVE  \E i \in 1..m : ls[i].key = ls[n].key
      BY <2>1 DEF FirstValues, FirstLines
    <2>2. ASSUME NEW i \in 1..m, ls[i].key = ls[n].key
          PROVE  \E g \in headers : g.key = ls[n].key
      <3>1. PICK j \in FirstLines(ls, 1..m) : ls[j].key = ls[i].key
        BY <1>1, FirstExists
      <3>2. [key |-> ls[j].key, value |-> ls[j].value] \in headers
        BY <3>1 DEF FirstValues
      <3> QED
        BY <2>2, <3>1, <3>2
    <2> QED
      BY <2>1, <2>2
  <1>3. CASE \E i \in 1..m : ls[i].key = ls[n].key
    <2>1. FirstLines(ls, 1..n) = FirstLines(ls, 1..m)
      BY <1>1, <1>3 DEF FirstLines
    <2>2. Emplace(ls[n].key, ls[n].value) = headers
      BY <1>2, <1>3 DEF Emplace
    <2> QED
      BY <2>1, <2>2 DEF FirstValues
  <1>4. CASE \A i \in 1..m : ls[i].key # ls[n].key
    <2>1. FirstLines(ls, 1..n) = FirstLines(ls, 1..m) \cup {n}
      BY <1>1, <1>4 DEF FirstLines
    <2>2. Emplace(ls[n].key, ls[n].value) = headers \cup {h}
      BY <1>2, <1>4 DEF Emplace
    <2>3. FirstValues(ls, 1..n) = FirstValues(ls, 1..m) \cup {h}
      BY <2>1 DEF FirstValues
    <2> QED
      BY <2>2, <2>3
  <1> QED
    BY <1>3, <1>4

(* The header of a message that was read to an empty line.                 *)
LEMMA HeaderLinesAre ==
  ASSUME TypeOK, next <= Len(Lines), Lines[next].colon = "empty",
         \A i \in 1..(next - 1) : LineValid(Lines[i])
  PROVE  HeaderLines(msg) = 1..(next - 1)
  <1>1. next \in 1..Len(Lines) /\ Len(Lines) \in Nat
    BY MessageIs DEF TypeOK, Lines
  <1>2. \A i \in 1..(next - 1) : Lines[i].colon # "empty"
    BY DEF LineValid
  <1> QED
    BY <1>1, <1>2 DEF HeaderLines, Lines

-----------------------------------------------------------------------------
LEMMA InitInv == Init => IInv
  <1> SUFFICES ASSUME Init PROVE IInv
    OBVIOUS
  <1>1. TypeOK
    <2>1. msg.lines \in Seq(Line)
      BY MessagesAssumption DEF Init
    <2> QED
      BY <2>1 DEF Init, TypeOK
  <1>2. PlaceInv
    BY DEF Init, PlaceInv
  <1> QED
    BY <1>1, <1>2 DEF Init, IInv, ServedBelowRoot, ThrowsOnlyForArgs

LEMMA FirstStep == IInv /\ ParseFirstLine => IInv'
  <1> SUFFICES ASSUME IInv, ParseFirstLine PROVE IInv'
    OBVIOUS
  <1> USE DEF IInv, ParseFirstLine
  <1>1. CASE FirstLineValid
    <2>1. /\ uri' = msg.uri /\ at' = "headers"
          /\ UNCHANGED <<status, msg, next, headers, wire>>
          /\ status = "OK" /\ next = 1 /\ headers = {}
      BY <1>1 DEF PlaceInv
    <2>2. TypeOK'
      BY <2>1, MessageIs DEF TypeOK
    <2>3. ParsedSoFar'
      <3>1. FirstLineValid'
        BY <1>1, <2>1 DEF FirstLineValid
      <3>2. 1..(next' - 1) = {}
        BY <2>1
      <3>3. headers' = FirstValues(Lines', 1..(next' - 1))
        BY <2>1, <3>2 DEF FirstValues, FirstLines
      <3> QED
        BY <2>1, <3>1, <3>2, <3>3 DEF ParsedSoFar
    <2> QED
      BY <2>1, <2>2, <2>3 DEF PlaceInv, ServedBelowRoot, ThrowsOnlyForArgs
  <1>2. CASE ~FirstLineValid
    <2>1. /\ status' = "BAD_REQUEST" /\ at' = "respond"
          /\ UNCHANGED <<uri, msg, next, headers, wire>>
      BY <1>2
    <2>2. TypeOK'
      BY <2>1 DEF TypeOK
    <2>3. ~WellFormed(msg)'
      <3>1. ~WellFormed(msg)
        BY <1>2 DEF WellFormed, FirstLineValid
      <3> QED
        BY <2>1, <3>1 DEF WellFormed, HeaderLines
    <2> QED
      BY <2>1, <2>2, <2>3 DEF PlaceInv, ServedBelowRoot, ThrowsOnlyForArgs
  <1> QED
    BY <1>1, <1>2

(* One line of the header: it is missing or invalid, or empty, or added.   *)
LEMMA HeaderStep == IInv /\ ParseHeader => IInv'
  <1> SUFFICES ASSUME IInv, ParseHeader PROVE IInv'
    OBVIOUS
  <1> USE DEF IInv
  <1>0. /\ at = "headers" /\ status = "OK" /\ ParsedSoFar
        /\ UNCHANGED <<msg, uri, wire>>
        /\ Len(Lines) \in Nat /\ next \in 1..(Len(Lines) + 1)
    BY MessageIs DEF ParseHeader, PlaceInv, TypeOK, Lines
  <1>1. CASE /\ next > Len(msg.lines) \/ ~LineValid(msg.lines[next])
             /\ next <= Len(msg.lines) => msg.lines[next].colon # "empty"
             /\ status' = "BAD_REQUEST" /\ at' = "respond"
             /\ UNCHANGED <<next, headers>>
    <2>1. ~WellFormed(msg)
      <3>1. \A i \in 1..(next - 1) : Lines[i].colon # "empty"
        BY <1>0 DEF ParsedSoFar, LineValid
      <3>2. CASE next > Len(Lines)
        <4>1. 1..Len(Lines) \subseteq 1..(next - 1)
          BY <1>0, <3>2
        <4> QED
          BY <3>1, <4>1 DEF WellFormed, Lines
      <3>3. CASE next <= Len(Lines)
        <4>1. next \in HeaderLines(msg)
          BY <1>0, <1>1, <3>1, <3>3 DEF HeaderLines, Lines
        <4> QED
          BY <1>1, <3>3, <4>1, <1>0 DEF WellFormed, LineValid, Lines
      <3> QED
        BY <1>0, <3>2, <3>3
    <2>2. TypeOK'
      BY <1>0, <1>1 DEF TypeOK
    <2>3. ~WellFormed(msg)'
      BY <1>0, <2>1 DEF WellFormed, HeaderLines
    <2> QED
      BY <1>0, <1>1, <2>2, <2>3 DEF PlaceInv, ServedBelowRoot, ThrowsOnlyForArgs
  <1>2. CASE /\ next <= Len(msg.lines)
             /\ msg.lines[next].colon = "empty"
             /\ at' = "respond"
             /\ UNCHANGED <<next, headers, status>>
    <2>1. TypeOK'
      BY <1>0, <1>2 DEF TypeOK
    <2>2. ParsedSoFar'
      BY <1>0, <1>2 DEF ParsedSoFar, FirstLineValid, Lines
    <2> QED
      BY <1>0, <1>2, <2>1, <2>2 DEF PlaceInv, ServedBelowRoot, ThrowsOnlyForArgs, Lines
  <1>3. CASE /\ next <= Len(msg.lines)
             /\ LineValid(msg.lines[next])
             /\ headers' = Emplace(msg.lines[next].key, msg.lines[next].value)
             /\ next' = next + 1
             /\ UNCHANGED <<status, at>>
    <2>1. next \in 1..Len(Lines)
      BY <1>0, <1>3 DEF Lines
    <2>2. /\ Lines[next].key \in Keys
          /\ Lines[next].value \in Values
      BY <1>3, <2>1, MessageIs DEF LineValid, Lines
    <2>3. TypeOK'
      <3>1. headers' \subseteq [key : Keys, value : Values]
        BY <1>3, <2>2 DEF Emplace, TypeOK, Lines
      <3>2. next' \in 1..(Len(msg'.lines) + 1)
        BY <1>0, <1>3, <2>1 DEF Lines
      <3> QED
        BY <1>0, <1>3, <3>1, <3>2 DEF TypeOK
    <2>4. ParsedSoFar'
      <3>1. headers = FirstValues(Lines, 1..(next - 1)) /\ next \in Nat \ {0}
        BY <1>0, <2>1 DEF ParsedSoFar
      <3>2. headers' = FirstValues(Lines, 1..next)
        BY <1>3, <3>1, EmplaceIs DEF Lines
      <3>3. next' - 1 = next /\ Lines' = Lines
        BY <1>0, <1>3, <2>1 DEF Lines
      <3>4. \A i \in 1..next : LineValid(Lines[i])
        BY <1>0, <1>3, <2>1 DEF ParsedSoFar, Lines
      <3>5. FirstLineValid' /\ uri' = msg'.uri
        BY <1>0 DEF ParsedSoFar, FirstLineValid
      <3> QED
        BY <3>2, <3>3, <3>4, <3>5 DEF ParsedSoFar
    <2> QED
      BY <1>0, <1>3, <2>3, <2>4 DEF PlaceInv, ServedBelowRoot, ThrowsOnlyForArgs
  <1> QED
    BY <1>1, <1>2, <1>3 DEF ParseHeader

(* The constructor of the response.                                        *)
LEMMA RespondStep == IInv /\ Respond => IInv'
  <1> SUFFICES ASSUME IInv, Respond PROVE IInv'
    OBVIOUS
  <1> USE DEF IInv
  <1>0. at = "respond" /\ UNCHANGED <<msg, next, headers, wire>>
    BY DEF Respond
  <1>1. CASE status # "OK"
    <2>1. status' = status /\ uri' = uri /\ at' = "serialize"
      BY <1>1 DEF Respond
    <2>2. TypeOK'
      BY <1>0, <2>1 DEF TypeOK
    <2> QED
      BY <1>1, <2>1, <2>2 DEF PlaceInv, ServedBelowRoot, ThrowsOnlyForArgs
  <1>2. CASE status = "OK"
    <2> DEFINE indexed == WithIndex(uri)
               path == WithoutArgs(indexed)
    <2>1. status' = Outcome.status /\ uri' = Outcome.uri
          /\ at' = IF Outcome.status = "thrown" THEN "ended" ELSE "serialize"
      BY <1>2 DEF Respond
    <2>2. uri = msg.uri /\ uri \in Seq(Component)
      BY <1>0, <1>2, MessageIs DEF PlaceInv, ParsedSoFar
    <2>3. indexed \in Seq(Component) /\ path \in Seq(Component)
      BY <2>2, WithIndexIs, WithoutArgsIs
    <2>4. CASE GoesUp(uri)
      <3>1. Outcome = [status |-> "NOT_FOUND", uri |-> uri]
        BY <2>4 DEF Outcome
      <3>2. TypeOK'
        BY <1>0, <2>1, <2>2, <3>1 DEF TypeOK
      <3> QED
        BY <2>1, <3>1, <3>2 DEF PlaceInv, ServedBelowRoot, ThrowsOnlyForArgs
    <2>5. CASE ~GoesUp(uri) /\ ~RequestHasExtension(indexed)
      <3>1. Outcome = [status |-> "NOT_FOUND", uri |-> indexed]
        BY <2>5 DEF Outcome
      <3>2. TypeOK'
        BY <1>0, <2>1, <2>3, <3>1 DEF TypeOK
      <3> QED
        BY <2>1, <3>1, <3>2 DEF PlaceInv, ServedBelowRoot, ThrowsOnlyForArgs
    <2>6. CASE ~GoesUp(uri) /\ RequestHasExtension(indexed) /\ ~HasExtension(path)
      <3>1. Outcome = [status |-> "thrown", uri |-> path]
        BY <2>6 DEF Outcome
      <3>2. TypeOK'
        BY <1>0, <2>1, <2>3, <3>1 DEF TypeOK
      <3>3. \E i \in 1..Len(uri) : Asks(uri[i])
        <4>1. HasExtension(indexed) /\ path # indexed
          BY <2>6 DEF RequestHasExtension
        <4>2. PICK i \in 1..Len(indexed) : Asks(indexed[i])
          BY <2>3, <4>1, WithoutArgsIs
        <4>3. ~Asks(Index)
          BY DEF Asks, Index
        <4>4. /\ Len(indexed) = Len(uri) /\ Len(uri) \in Nat
              /\ \A j \in 1..(Len(uri) - 1) : indexed[j] = uri[j]
              /\ indexed # uri => indexed[Len(uri)] = Index
          BY <2>2, WithIndexIs
        <4>5. indexed[i] = uri[i]
          BY <4>2, <4>3, <4>4
        <4> QED
          BY <4>2, <4>4, <4>5
      <3>4. ~HasExtension(WithoutArgs(msg.uri))
        BY <2>2, <2>6, <3>3, IndexThenCut
      <3>5. ThrowsOnlyForArgs'
        BY <1>0, <2>2, <3>3, <3>4 DEF ThrowsOnlyForArgs
      <3> QED
        BY <2>1, <3>1, <3>2, <3>5 DEF PlaceInv, ServedBelowRoot
    <2>7. CASE ~GoesUp(uri) /\ RequestHasExtension(indexed) /\ HasExtension(path)
      <3>1. Outcome.uri = path /\ Outcome.status \in {"OK", "BAD_REQUEST", "NOT_FOUND"}
        BY <2>7 DEF Outcome
      <3>2. TypeOK'
        BY <1>0, <2>1, <2>3, <3>1 DEF TypeOK
      <3>3. \A i \in 1..Len(path) : path[i] # DotDot
        BY <2>2, <2>7, NoDotDot
      <3>4. ServedBelowRoot'
        BY <2>1, <3>1, <3>3 DEF ServedBelowRoot
      <3> QED
        BY <2>1, <3>1, <3>2, <3>4 DEF PlaceInv, ThrowsOnlyForArgs
    <2> QED
      BY <2>4, <2>5, <2>6, <2>7
  <1> QED
    BY <1>1, <1>2

LEMMA SerializeStep == IInv /\ Serialize => IInv'
  <1> SUFFICES ASSUME IInv, Serialize PROVE IInv'
    OBVIOUS
  <1>1. TypeOK'
    BY DEF IInv, Serialize, TypeOK, WireOf
  <1> QED
    BY <1>1 DEF IInv, Serialize, PlaceInv, ServedBelowRoot, ThrowsOnlyForArgs

LEMMA StutterStep == IInv /\ UNCHANGED vars => IInv'
  BY DEF IInv, vars, TypeOK, PlaceInv, ParsedSoFar, FirstLineValid, Lines, WellFormed,
         HeaderLines, ServedBelowRoot, ThrowsOnlyForArgs

(* The inductive invariant: what was parsed so far agrees with the message *)
(* at each place of the program.                                           *)
THEOREM Invariance == Spec => []IInv
  <1>1. IInv /\ [Next]_vars => IInv'
    BY FirstStep, HeaderStep, RespondStep, SerializeStep, StutterStep DEF Next
  <1> QED
    BY InitInv, <1>1, PTL DEF Spec

(* The variables of parser and response keep their types.                  *)
THEOREM TypeCorrect == Spec => []TypeOK
  <1>1. IInv => TypeOK
    BY DEF IInv
  <1> QED
    BY Invariance, <1>1, PTL

(* parseFirstLine and parseHeaders accept exactly the well-formed messages *)
(* and find the first value of each header.                                *)
THEOREM ParserCorrect == Spec => []ParsedAsWritten
  <1>1. IInv => ParsedAsWritten
    <2> SUFFICES ASSUME IInv, at = "respond" PROVE ParsedAsWritten
      BY DEF ParsedAsWritten
    <2>1. CASE status # "OK"
      BY <2>1 DEF IInv, PlaceInv, ParsedAsWritten
    <2>2. CASE status = "OK"
      <3>1. /\ ParsedSoFar
            /\ next <= Len(Lines) /\ Lines[next].colon = "empty"
        BY <2>2 DEF IInv, PlaceInv
      <3>2. HeaderLines(msg) = 1..(next - 1)
        BY <3>1, HeaderLinesAre DEF IInv, ParsedSoFar
      <3>3. WellFormed(msg)
        <4>1. next \in 1..Len(Lines)
          BY <3>1, MessageIs DEF IInv, TypeOK, Lines
        <4> QED
          BY <3>1, <3>2, <4>1 DEF WellFormed, ParsedSoFar, FirstLineValid, LineValid, Lines
      <3> QED
        BY <2>2, <3>1, <3>2, <3>3 DEF ParsedAsWritten, ParsedSoFar, Lines
    <2> QED
      BY <2>1, <2>2
  <1> QED
    BY Invariance, <1>1, PTL

(* The path of a file that is sent has no component "..", at any depth.    *)
THEOREM PathsBelowRoot == Spec => []ServedBelowRoot
  <1>1. IInv => ServedBelowRoot
    BY DEF IInv
  <1> QED
    BY Invariance, <1>1, PTL

(* The constructor of httpResponse throws only for an address with a       *)
(* question mark and no extension before it.                               *)
THEOREM ThrowsForArgs == Spec => []ThrowsOnlyForArgs
  <1>1. IInv => ThrowsOnlyForArgs
    BY DEF IInv
  <1> QED
    BY Invariance, <1>1, PTL

=============================================================================
