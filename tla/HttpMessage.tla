---------------------------- MODULE HttpMessage -----------------------------
(***************************************************************************)
(* What src/http/Http.cpp makes of a message that was read completely:     *)
(* parseFirstLine, parseHeaders, the constructor of httpResponse and       *)
(* serialize.  Both HTTP servers use it, the response in a coroutine that  *)
(* nobody awaits, so that an exception ends the process.                   *)
(*                                                                         *)
(* A message is its first line, with the number of its spaces, and the     *)
(* lines after it up to one that is empty.  A path is the sequence of its  *)
(* components, a component a sequence of characters: a dot, a question     *)
(* mark, or any other one.  A path that ends with a slash has an empty     *)
(* last component.  The value of an Accept header is the sequence of the   *)
(* media types in it, and of what else is in it.                           *)
(***************************************************************************)
EXTENDS Integers, Sequences

CONSTANTS
  Messages,  \* the messages to look at
  Keys,      \* names of headers, one of which is "Accept"
  Values     \* values of headers

Methods == {"GET", "HEAD"}
Chars == {".", "?", "w"}
Component == Seq(Chars)
Index == <<"w", ".", "w">>   \* index.html; "w" is also the known extension

(* A line after the first one: empty, or with a colon somewhere or not.    *)
Line == [colon : {"empty", "none", "first", "middle"}, key : Keys, value : Values \cup {<<>>}]

ASSUME MessagesAssumption ==
  /\ "Accept" \in Keys
  /\ Values \subseteq Seq(STRING) \ {<<>>}
  /\ \A m \in Messages :
       /\ m.spaces \in Nat
       /\ m.method \in STRING /\ m.version \in STRING
       /\ m.uri \in Seq(Component)
       /\ m.lines \in Seq(Line)

VARIABLES
  msg,      \* the message
  next,     \* the line the header loop looks at
  headers,  \* the headers found so far, a set of keys with their values
  status,   \* of the request, then of the response
  uri,      \* of the request, then of the response
  at,       \* where the program is
  wire      \* the status line that is sent

vars == <<msg, next, headers, status, uri, at, wire>>

Init ==
  /\ msg \in Messages
  /\ next = 1
  /\ headers = {}
  /\ status = "OK"
  /\ uri = <<>>
  /\ at = "first"
  /\ wire = "none"

-----------------------------------------------------------------------------
(* parseFirstLine: two spaces at least; the method is looked up before the *)
(* address is, and what follows the second space is the version.           *)
FirstLineValid ==
  /\ msg.spaces >= 2
  /\ msg.method \in Methods
  /\ msg.spaces = 2 /\ msg.version = "HTTP/1.1"

ParseFirstLine ==
  /\ at = "first"
  /\ IF FirstLineValid
     THEN /\ uri' = msg.uri
          /\ at' = "headers"
          /\ UNCHANGED status
     ELSE /\ status' = "BAD_REQUEST"
          /\ at' = "respond"
          /\ UNCHANGED uri
  /\ UNCHANGED <<msg, next, headers, wire>>

(* emplace: the first of several values is kept.                           *)
EmplaceOver(k, v) == {h \in headers : h.key # k} \cup {[key |-> k, value |-> v]}
Emplace(k, v) ==
  IF \E h \in headers : h.key = k THEN headers
  ELSE headers \cup {[key |-> k, value |-> v]}

LineValid(line) == line.colon = "middle" /\ line.value # <<>>

(* One iteration of parseHeaders, which ends at the first empty line.  What*)
(* parseResquest returns after it, for "Connection:close", no caller uses. *)
ParseHeader ==
  /\ at = "headers"
  /\ \/ /\ next > Len(msg.lines) \/ ~LineValid(msg.lines[next])
        /\ next <= Len(msg.lines) => msg.lines[next].colon # "empty"
        /\ status' = "BAD_REQUEST"
        /\ at' = "respond"
        /\ UNCHANGED <<next, headers>>
     \/ /\ next <= Len(msg.lines)
        /\ msg.lines[next].colon = "empty"
        /\ at' = "respond"
        /\ UNCHANGED <<next, headers, status>>
     \/ /\ next <= Len(msg.lines)
        /\ LineValid(msg.lines[next])
        /\ headers' = Emplace(msg.lines[next].key, msg.lines[next].value)
        /\ next' = next + 1
        /\ UNCHANGED <<status, at>>
  /\ UNCHANGED <<msg, uri, wire>>

-----------------------------------------------------------------------------
(* The constructor of httpResponse.                                        *)

(* std::filesystem::path.  The extension begins with the last dot of the   *)
(* file name, unless that is its first character or the name is "..".      *)
Name(path) == IF path = <<>> THEN <<>> ELSE path[Len(path)]
DotDot == <<".", ".">>
HasExtension(path) ==
  /\ Name(path) # DotDot
  /\ \E i \in 2..Len(Name(path)) : Name(path)[i] = "."
KnownExtension(path) ==
  LET n == Len(Name(path)) IN n > 2 /\ Name(path)[n - 1] = "." /\ Name(path)[n] = "w"

(* Some component is "..".                                                 *)
GoesUpLast(path) == Name(path) = DotDot
GoesUp(path) == \E i \in 1..Len(path) : path[i] = DotDot

(* A path that ends with a slash names the index of a directory.           *)
WithIndex(path) ==
  IF path # <<>> /\ Name(path) = <<>> THEN [path EXCEPT ![Len(path)] = Index] ELSE path

(* The path up to the first question mark.                                 *)
Asks(comp) == \E i \in 1..Len(comp) : comp[i] = "?"
AskAt(comp) == CHOOSE i \in 1..Len(comp) : comp[i] = "?" /\ \A j \in 1..(i - 1) : comp[j] # "?"
AskIn(path) ==
  CHOOSE i \in 1..Len(path) : Asks(path[i]) /\ \A j \in 1..(i - 1) : ~Asks(path[j])
BeforeAsk(comp) == SubSeq(comp, 1, AskAt(comp) - 1)
WithoutArgs(path) ==
  IF \A i \in 1..Len(path) : ~Asks(path[i]) THEN path
  ELSE [i \in 1..AskIn(path) |-> IF i = AskIn(path) THEN BeforeAsk(path[i]) ELSE path[i]]

HasExtensionAlways(path) == path # <<>>
RequestHasExtension(path) == HasExtension(path)

(* The type of the file and its wildcard.                                  *)
FullType(path) == IF KnownExtension(path) THEN "text/html" ELSE "application/octet-stream"
Wildcard(path) == IF KnownExtension(path) THEN "text/*" ELSE "application/*"

(* find() returns a position, and ! is true of position 0 only.            *)
AtStart(value, type) == value[1] = type
Accepts(value, path) ==
  ~ /\ AtStart(value, "*/*")
    /\ AtStart(value, Wildcard(path))
    /\ AtStart(value, FullType(path))

AcceptValues == {h.value : h \in {g \in headers : g.key = "Accept"}}

(* The status and the path the constructor arrives at; substr(1) of an     *)
(* empty extension throws.                                                 *)
Outcome ==
  LET indexed == WithIndex(uri)
      path == WithoutArgs(indexed)
  IN  CASE GoesUp(uri) -> [status |-> "NOT_FOUND", uri |-> uri]
        [] ~GoesUp(uri) /\ ~RequestHasExtension(indexed) ->
             [status |-> "NOT_FOUND", uri |-> indexed]
        [] ~GoesUp(uri) /\ RequestHasExtension(indexed) /\ ~HasExtension(path) ->
             [status |-> "thrown", uri |-> path]
        [] OTHER ->
             [status |-> IF AcceptValues = {} THEN "BAD_REQUEST"
                         ELSE IF \A v \in AcceptValues : Accepts(v, path) THEN "OK"
                         ELSE "NOT_FOUND",
              uri |-> path]

Respond ==
  /\ at = "respond"
  /\ IF status = "OK"
     THEN /\ status' = Outcome.status
          /\ uri' = Outcome.uri
     ELSE UNCHANGED <<status, uri>>
  /\ at' = IF status = "OK" /\ Outcome.status = "thrown" THEN "ended" ELSE "serialize"
  /\ UNCHANGED <<msg, next, headers, wire>>

(* serialize: two fixed responses for the statuses there are, or a header  *)
(* made from the version, the status and the headers.                      *)
WireOf(s) ==
  CASE s = "NOT_FOUND" -> "404"
    [] s = "BAD_REQUEST" -> "400"
    [] OTHER -> "200"

Serialize ==
  /\ at = "serialize"
  /\ wire' = WireOf(status)
  /\ at' = "sent"
  /\ UNCHANGED <<msg, next, headers, status, uri>>

Next == ParseFirstLine \/ ParseHeader \/ Respond \/ Serialize

Spec == Init /\ [][Next]_vars

-----------------------------------------------------------------------------
TypeOK ==
  /\ msg \in Messages
  /\ next \in 1..(Len(msg.lines) + 1)
  /\ headers \subseteq [key : Keys, value : Values]
  /\ status \in {"OK", "BAD_REQUEST", "NOT_FOUND", "thrown"}
  /\ uri \in Seq(Component)
  /\ at \in {"first", "headers", "respond", "serialize", "sent", "ended"}
  /\ wire \in {"none", "200", "400", "404"}

(* The header of a message: the lines before its first empty one.          *)
HeaderLines(m) ==
  {i \in 1..Len(m.lines) : \A j \in 1..i : m.lines[j].colon # "empty"}

(* The grammar the parser stands for, without its loop.                    *)
WellFormed(m) ==
  /\ m.spaces = 2 /\ m.method \in Methods /\ m.version = "HTTP/1.1"
  /\ \E i \in 1..Len(m.lines) : m.lines[i].colon = "empty"
  /\ \A i \in HeaderLines(m) : m.lines[i].colon = "middle" /\ m.lines[i].value # <<>>

(* The headers in some lines, each with the value it has first.            *)
FirstLines(lines, S) == {i \in S : \A j \in S : lines[j].key = lines[i].key => i <= j}
FirstValues(lines, S) ==
  {[key |-> lines[i].key, value |-> lines[i].value] : i \in FirstLines(lines, S)}

(* The parser accepts what is well formed and nothing else, and what it    *)
(* finds are the headers before the first empty line, each with the value  *)
(* it has first: a second message behind the first one changes nothing.    *)
ParsedAsWritten ==
  at = "respond" =>
    /\ status = "OK" <=> WellFormed(msg)
    /\ status = "OK" => headers = FirstValues(msg.lines, HeaderLines(msg))

(* The path of a response that sends a file has no component "..", although*)
(* that is tested before the arguments are cut off, and cutting may make   *)
(* one.                                                                    *)
ServedBelowRoot ==
  (at \in {"serialize", "sent"} /\ status = "OK") => \A i \in 1..Len(uri) : uri[i] # DotDot

(* Building a response throws only if the address has a question mark and  *)
(* the name before it has no extension.                                    *)
ThrowsOnlyForArgs ==
  at = "ended" =>
    /\ \E i \in 1..Len(msg.uri) : Asks(msg.uri[i])
    /\ ~HasExtension(WithoutArgs(msg.uri))

(* A response is made from every request.                                  *)
ResponseMade == at # "ended"

(* A file is sent only to a client that accepts its type.                  *)
AcceptHonoured ==
  at = "sent" /\ wire = "200" =>
    \E v \in AcceptValues : \E i \in 1..Len(v) :
      v[i] \in {"*/*", Wildcard(uri), FullType(uri)}

=============================================================================
