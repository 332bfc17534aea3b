-------------------------- MODULE EchoServerProofs --------------------------
(***************************************************************************)
(* What holds of the echo server for any number of workers, frames,        *)
(* connections and units: what a peer sends is neither lost nor doubled,   *)
(* and no event and no resumption is lost.                                 *)
(***************************************************************************)
EXTENDS EchoServer, EpollServerProofs

-----------------------------------------------------------------------------
(* The inductive invariant of the server.                                  *)

(* A sequence of units: which are in it, and that none is in it twice.     *)
Elements(s) == {s[i] : i \in 1..Len(s)}
Once(s) == \A i, j \in 1..Len(s) : s[i] = s[j] => i = j
Apart(r, s) == Elements(r) \cap Elements(s) = {}

(* What has arrived, what was sent back and the buffers B between hold     *)
(* each unit once, only units of the p that the peer has sent, and none    *)
(* that another holds.                                                     *)
NoneTwice(in, out, B, p) ==
  /\ Once(in) /\ Once(out) /\ Apart(in, out)
  /\ Elements(in) \cup Elements(out) \subseteq 1..p
  /\ \A t \in DOMAIN B :
       /\ Once(B[t]) /\ Elements(B[t]) \subseteq 1..p
       /\ Apart(B[t], in) /\ Apart(B[t], out)
       /\ \A s \in DOMAIN B \ {t} : Apart(B[t], B[s])

(* Each of the p units is somewhere.                                       *)
NoneLost(in, out, B, p) ==
  \A u \in 1..p :
    u \in Elements(in) \cup Elements(out) \/ \E t \in DOMAIN B : u \in Elements(B[t])

Buffers(c) == [t \in Serving(c) |-> code[t].buf]
UnitInv(c) ==
  ~sock[c].short =>
    /\ NoneTwice(sock[c].in, sock[c].out, Buffers(c), sock[c].put)
    /\ sock[c].fin # "rst" => NoneLost(sock[c].in, sock[c].out, Buffers(c), sock[c].put)

(* A writer has sent nothing yet, unless a send was short.                 *)
WriterInv ==
  \A t \in Frames :
    frame[t] = "live" /\ code[t].kind = "writer" =>
      /\ code[t].size <= Len(code[t].buf)
      /\ ~sock[code[t].conn].short => code[t].size = Len(code[t].buf)

(* A handler ends when its peer has closed and nothing is left to read, so *)
(* the cleaner closes no socket on which something waits.                  *)
EndInv ==
  \A c \in Conns :
    sock[c].st = "open" =>
      \/ \E t \in Serving(c) : code[t].kind = "handler"
      \/ sock[c].in = <<>> /\ sock[c].fin # "no"

EchoInv == CoreInv(Nat) /\ EndInv /\ WriterInv /\ \A c \in Conns : UnitInv(c)

-----------------------------------------------------------------------------
(* Sequences of units.                                                     *)

LEMMA ElementsOf ==
  ASSUME NEW S, NEW s \in Seq(S)
  PROVE  Elements(s) \subseteq S /\ Elements(<<>>) = {} /\ Once(<<>>)
  BY DEF Elements, Once

LEMMA TailOnce ==
  ASSUME NEW S, NEW s \in Seq(S), s # <<>>, Once(s)
  PROVE  /\ Once(Tail(s)) /\ Elements(s) = Elements(Tail(s)) \cup {Head(s)}
         /\ Head(s) \notin Elements(Tail(s)) /\ Tail(s) \in Seq(S) /\ Head(s) \in S
  <1>1. /\ Len(s) > 0 /\ Len(Tail(s)) = Len(s) - 1 /\ Head(s) = s[1] /\ Len(s) \in Nat
        /\ Tail(s) \in Seq(S) /\ Head(s) \in S
        /\ \A i \in 1..Len(Tail(s)) : Tail(s)[i] = s[i + 1] /\ i + 1 \in 1..Len(s)
    OBVIOUS
  <1>2. Once(Tail(s))
    <2> SUFFICES ASSUME NEW i \in 1..Len(Tail(s)), NEW j \in 1..Len(Tail(s)),
                        Tail(s)[i] = Tail(s)[j]
                 PROVE  i = j
      BY DEF Once
    <2>1. i + 1 = j + 1
      BY <1>1 DEF Once
    <2> QED
      BY <1>1, <2>1
  <1>3. Head(s) \notin Elements(Tail(s))
    <2> SUFFICES ASSUME NEW i \in 1..Len(Tail(s)), Tail(s)[i] = Head(s) PROVE FALSE
      BY DEF Elements
    <2>1. i + 1 = 1
      BY <1>1 DEF Once
    <2> QED
      BY <1>1, <2>1
  <1>4. Elements(s) = Elements(Tail(s)) \cup {Head(s)}
    <2>1. ASSUME NEW i \in 1..Len(s) PROVE s[i] \in Elements(Tail(s)) \cup {Head(s)}
      <3>1. CASE i = 1
        BY <1>1, <3>1
      <3>2. CASE i # 1
        <4>1. i - 1 \in 1..Len(Tail(s)) /\ (i - 1) + 1 = i
          BY <1>1, <3>2
        <4>2. s[i] = Tail(s)[i - 1]
          BY <1>1, <4>1
        <4> QED
          BY <4>1, <4>2 DEF Elements
      <3> QED
        BY <3>1, <3>2
    <2>2. Head(s) \in Elements(s)
      BY <1>1 DEF Elements
    <2>3. \A i \in 1..Len(Tail(s)) : Tail(s)[i] \in Elements(s)
      BY <1>1 DEF Elements
    <2> QED
      BY <2>1, <2>2, <2>3 DEF Elements
  <1> QED
    BY <1>1, <1>2, <1>3, <1>4

LEMMA ConcatOnce ==
  ASSUME NEW S, NEW r \in Seq(S), NEW s \in Seq(S)
  PROVE  /\ Elements(r \o s) = Elements(r) \cup Elements(s) /\ r \o s \in Seq(S)
         /\ Once(r) /\ Once(s) /\ Apart(r, s) => Once(r \o s)
  <1>1. /\ Len(r) \in Nat /\ Len(s) \in Nat /\ Len(r \o s) = Len(r) + Len(s)
        /\ r \o s \in Seq(S)
        /\ \A i \in 1..Len(r \o s) : (r \o s)[i] = IF i <= Len(r) THEN r[i] ELSE s[i - Len(r)]
    OBVIOUS
  <1>2. Elements(r \o s) = Elements(r) \cup Elements(s)
    <2>1. ASSUME NEW i \in 1..Len(r \o s) PROVE (r \o s)[i] \in Elements(r) \cup Elements(s)
      <3>1. CASE i <= Len(r)
        BY <1>1, <3>1 DEF Elements
      <3>2. CASE ~(i <= Len(r))
        <4>1. i - Len(r) \in 1..Len(s) /\ (r \o s)[i] = s[i - Len(r)]
          BY <1>1, <3>2
        <4> QED
          BY <4>1 DEF Elements
      <3> QED
        BY <3>1, <3>2
    <2>2. ASSUME NEW i \in 1..Len(r) PROVE r[i] \in Elements(r \o s)
      <3>1. i \in 1..Len(r \o s) /\ (r \o s)[i] = r[i]
        BY <1>1
      <3> QED
        BY <3>1 DEF Elements
    <2>3. ASSUME NEW i \in 1..Len(s) PROVE s[i] \in Elements(r \o s)
      <3>1. i + Len(r) \in 1..Len(r \o s) /\ (r \o s)[i + Len(r)] = s[i]
        BY <1>1
      <3> QED
        BY <3>1 DEF Elements
    <2> QED
      BY <2>1, <2>2, <2>3 DEF Elements
  <1>3. ASSUME Once(r), Once(s), Apart(r, s) PROVE Once(r \o s)
    <2> SUFFICES ASSUME NEW i \in 1..Len(r \o s), NEW j \in 1..Len(r \o s),
                        (r \o s)[i] = (r \o s)[j]
                 PROVE  i = j
      BY DEF Once
    <2>1. CASE i <= Len(r) /\ j <= Len(r)
      BY <1>1, <1>3, <2>1 DEF Once
    <2>2. CASE ~(i <= Len(r)) /\ ~(j <= Len(r))
      <3>1. i - Len(r) = j - Len(r)
        BY <1>1, <1>3, <2>2 DEF Once
      <3> QED
        BY <1>1, <3>1
    <2>3. ASSUME NEW x \in 1..Len(r \o s), NEW y \in 1..Len(r \o s),
                 x <= Len(r), ~(y <= Len(r)), (r \o s)[x] = (r \o s)[y]
          PROVE  FALSE
      <3>1. (r \o s)[x] \in Elements(r)
        BY <1>1, <2>3 DEF Elements
      <3>2. y - Len(r) \in 1..Len(s) /\ (r \o s)[y] = s[y - Len(r)]
        BY <1>1, <2>3
      <3>3. (r \o s)[y] \in Elements(s)
        BY <3>2 DEF Elements
      <3> QED
        BY <1>3, <2>3, <3>1, <3>3 DEF Apart
    <2> QED
      BY <2>1, <2>2, <2>3
  <1> QED
    BY <1>1, <1>2, <1>3

LEMMA AppendOnce ==
  ASSUME NEW S, NEW s \in Seq(S), NEW d \in S
  PROVE  /\ Elements(Append(s, d)) = Elements(s) \cup {d} /\ Append(s, d) \in Seq(S)
         /\ Once(s) /\ d \notin Elements(s) => Once(Append(s, d))
  <1>1. /\ Len(s) \in Nat /\ Len(Append(s, d)) = Len(s) + 1 /\ Append(s, d) \in Seq(S)
        /\ \A i \in 1..Len(Append(s, d)) :
             Append(s, d)[i] = IF i <= Len(s) THEN s[i] ELSE d
    OBVIOUS
  <1>2. Elements(Append(s, d)) = Elements(s) \cup {d}
    <2>1. Append(s, d)[Len(s) + 1] = d /\ Len(s) + 1 \in 1..Len(Append(s, d))
      BY <1>1
    <2>2. \A i \in 1..Len(s) : Append(s, d)[i] = s[i] /\ i \in 1..Len(Append(s, d))
      BY <1>1
    <2>3. \A i \in 1..Len(Append(s, d)) : i \notin 1..Len(s) => i = Len(s) + 1
      BY <1>1
    <2> QED
      BY <2>1, <2>2, <2>3 DEF Elements
  <1>3. ASSUME Once(s), d \notin Elements(s) PROVE Once(Append(s, d))
    <2>1. \A i \in 1..Len(s) : s[i] # d
      BY <1>3 DEF Elements
    <2> QED
      BY <1>1, <1>3, <2>1 DEF Once
  <1> QED
    BY <1>1, <1>2, <1>3

-----------------------------------------------------------------------------
(* How units move.  B are the buffers before, C those after a step.        *)

(* Empty buffers come and go; with what is dropped, units may be lost.     *)
LEMMA EmptyComesAndGoes ==
  ASSUME NEW in, NEW out, NEW p, NEW B, NEW C, NoneTwice(in, out, B, p),
         \A t \in DOMAIN C : C[t] = <<>> \/ (t \in DOMAIN B /\ C[t] = B[t])
  PROVE  /\ NoneTwice(in, out, C, p)
         /\ (\A t \in DOMAIN B : B[t] = <<>> \/ (t \in DOMAIN C /\ C[t] = B[t]))
              /\ NoneLost(in, out, B, p) => NoneLost(in, out, C, p)
  <1>1. Elements(<<>>) = {} /\ Once(<<>>)
    BY DEF Elements, Once
  <1>2. ASSUME NEW t \in DOMAIN C
        PROVE  /\ Once(C[t]) /\ Elements(C[t]) \subseteq 1..p
               /\ Apart(C[t], in) /\ Apart(C[t], out)
    BY <1>1, <1>2 DEF NoneTwice, Apart
  <1>3. ASSUME NEW t \in DOMAIN C, NEW s \in DOMAIN C \ {t}
        PROVE  Apart(C[t], C[s])
    BY <1>1, <1>3 DEF NoneTwice, Apart
  <1>4. NoneTwice(in, out, C, p)
    BY <1>2, <1>3 DEF NoneTwice
  <1>5. ASSUME \A t \in DOMAIN B : B[t] = <<>> \/ (t \in DOMAIN C /\ C[t] = B[t]),
               NoneLost(in, out, B, p)
        PROVE  NoneLost(in, out, C, p)
    BY <1>1, <1>5 DEF NoneLost
  <1> QED
    BY <1>4, <1>5

(* A read: the first unit that has arrived goes to the end of a buffer.    *)
LEMMA ReadMoves ==
  ASSUME NEW in \in Seq(Nat), NEW out, NEW p, NEW B, NEW C, NEW t \in DOMAIN B,
         NoneTwice(in, out, B, p), in # <<>>, B[t] \in Seq(Nat),
         DOMAIN C = DOMAIN B, C[t] = Append(B[t], Head(in)),
         \A s \in DOMAIN B \ {t} : C[s] = B[s]
  PROVE  /\ NoneTwice(Tail(in), out, C, p)
         /\ NoneLost(in, out, B, p) => NoneLost(Tail(in), out, C, p)
  <1> DEFINE rest == Tail(in)
             u == Head(in)
  <1>1. /\ Once(rest) /\ Elements(in) = Elements(rest) \cup {u}
        /\ u \notin Elements(rest) /\ u \in Nat
    BY TailOnce DEF NoneTwice
  <1>2. u \notin Elements(B[t]) /\ Once(B[t])
    BY <1>1 DEF NoneTwice, Apart
  <1>3. Elements(C[t]) = Elements(B[t]) \cup {u} /\ Once(C[t])
    BY <1>1, <1>2, AppendOnce
  <1> HIDE DEF rest, u
  <1>4. ASSUME NEW s \in DOMAIN C
        PROVE  /\ Once(C[s]) /\ Elements(C[s]) \subseteq 1..p
               /\ Apart(C[s], rest) /\ Apart(C[s], out)
    BY <1>1, <1>3, <1>4 DEF NoneTwice, Apart
  <1>5. ASSUME NEW s \in DOMAIN C, NEW r \in DOMAIN C \ {s}
        PROVE  Apart(C[s], C[r])
    BY <1>1, <1>3, <1>5 DEF NoneTwice, Apart
  <1>6. Once(out) /\ Apart(rest, out) /\ Elements(rest) \cup Elements(out) \subseteq 1..p
    BY <1>1 DEF NoneTwice, Apart
  <1>7. NoneTwice(rest, out, C, p)
    BY <1>1, <1>4, <1>5, <1>6 DEF NoneTwice
  <1>8. ASSUME NoneLost(in, out, B, p) PROVE NoneLost(rest, out, C, p)
    BY <1>1, <1>3, <1>8 DEF NoneLost
  <1> QED
    BY <1>7, <1>8 DEF rest

(* A buffer goes to a new writer n.                                        *)
LEMMA HandsOver ==
  ASSUME NEW in, NEW out, NEW p, NEW B, NEW C, NEW t \in DOMAIN B, NEW n,
         NoneTwice(in, out, B, p), n \notin DOMAIN B,
         DOMAIN C \ {t} = (DOMAIN B \ {t}) \cup {n}, C[n] = B[t],
         t \in DOMAIN C => C[t] = <<>>,
         \A s \in DOMAIN B \ {t} : C[s] = B[s]
  PROVE  /\ NoneTwice(in, out, C, p)
         /\ NoneLost(in, out, B, p) => NoneLost(in, out, C, p)
  <1>1. Elements(<<>>) = {} /\ Once(<<>>)
    BY DEF Elements, Once
  <1>2. ASSUME NEW s \in DOMAIN C
        PROVE  /\ Once(C[s]) /\ Elements(C[s]) \subseteq 1..p
               /\ Apart(C[s], in) /\ Apart(C[s], out)
    BY <1>1, <1>2 DEF NoneTwice, Apart
  <1>3. ASSUME NEW s \in DOMAIN C, NEW r \in DOMAIN C \ {s}
        PROVE  Apart(C[s], C[r])
    BY <1>1, <1>3 DEF NoneTwice, Apart
  <1>4. NoneTwice(in, out, C, p)
    BY <1>2, <1>3 DEF NoneTwice
  <1>5. ASSUME NoneLost(in, out, B, p) PROVE NoneLost(in, out, C, p)
    BY <1>5 DEF NoneLost
  <1> QED
    BY <1>4, <1>5

(* A buffer is sent back, and its writer ends.                             *)
LEMMA SendsBack ==
  ASSUME NEW in, NEW out \in Seq(Nat), NEW p, NEW B, NEW C, NEW t \in DOMAIN B,
         NoneTwice(in, out, B, p), B[t] \in Seq(Nat),
         DOMAIN C = DOMAIN B \ {t}, \A s \in DOMAIN C : C[s] = B[s]
  PROVE  /\ NoneTwice(in, out \o B[t], C, p)
         /\ NoneLost(in, out, B, p) => NoneLost(in, out \o B[t], C, p)
  <1> DEFINE after == out \o B[t]
  <1>1. Elements(after) = Elements(out) \cup Elements(B[t]) /\ Once(after)
    BY ConcatOnce DEF NoneTwice, Apart
  <1> HIDE DEF after
  <1>2. NoneTwice(in, after, C, p)
    BY <1>1 DEF NoneTwice, Apart
  <1>3. ASSUME NoneLost(in, out, B, p) PROVE NoneLost(in, after, C, p)
    BY <1>1, <1>3 DEF NoneLost
  <1> QED
    BY <1>2, <1>3 DEF after

(* The next unit arrives.                                                  *)
LEMMA Arrives ==
  ASSUME NEW in \in Seq(Nat), NEW out, NEW p \in Nat, NEW B, NoneTwice(in, out, B, p)
  PROVE  /\ NoneTwice(Append(in, p + 1), out, B, p + 1)
         /\ NoneLost(in, out, B, p) => NoneLost(Append(in, p + 1), out, B, p + 1)
  <1> DEFINE after == Append(in, p + 1)
             u == p + 1
  <1>1. 1..u = 1..p \cup {u} /\ u \notin 1..p
    OBVIOUS
  <1>2. u \notin Elements(in) /\ u \notin Elements(out) /\ u \in Nat
    BY <1>1 DEF NoneTwice
  <1>3. Elements(after) = Elements(in) \cup {u} /\ Once(after)
    BY <1>2, AppendOnce DEF NoneTwice
  <1> HIDE DEF after, u
  <1>4. NoneTwice(after, out, B, u)
    BY <1>1, <1>2, <1>3 DEF NoneTwice, Apart
  <1>5. ASSUME NoneLost(in, out, B, p) PROVE NoneLost(after, out, B, u)
    BY <1>1, <1>3, <1>5 DEF NoneLost
  <1> QED
    BY <1>4, <1>5 DEF after, u

-----------------------------------------------------------------------------
(* What a step leaves alone.                                               *)

(* Connection d: what its sockets hold, and the buffers that are not empty *)
(* before or after.                                                        *)
SameLines(d) ==
  /\ sock'[d].in = sock[d].in /\ sock'[d].out = sock[d].out
  /\ sock'[d].put = sock[d].put /\ sock'[d].short = sock[d].short
  /\ sock[d].fin = "rst" => sock'[d].fin = "rst"
SameBuffers(d) ==
  /\ \A t \in Serving(d)' :
       code'[t].buf = <<>> \/ (t \in Serving(d) /\ code'[t].buf = code[t].buf)
  /\ \A t \in Serving(d) :
       code[t].buf = <<>> \/ (t \in Serving(d)' /\ code'[t].buf = code[t].buf)

LEMMA UnitsStay ==
  ASSUME NEW d \in Conns, UnitInv(d), SameLines(d), SameBuffers(d)
  PROVE  UnitInv(d)'
  <1> SUFFICES ASSUME ~sock'[d].short
               PROVE  /\ NoneTwice(sock'[d].in, sock'[d].out, Buffers(d)', sock'[d].put)
                      /\ sock'[d].fin # "rst" =>
                           NoneLost(sock'[d].in, sock'[d].out, Buffers(d)', sock'[d].put)
    BY DEF UnitInv
  <1> DEFINE B == Buffers(d)
             C == Buffers(d)'
  <1>1. /\ NoneTwice(sock[d].in, sock[d].out, B, sock[d].put)
        /\ sock'[d].fin # "rst" => NoneLost(sock[d].in, sock[d].out, B, sock[d].put)
    BY DEF UnitInv, SameLines
  <1>2. /\ \A t \in DOMAIN C : C[t] = <<>> \/ (t \in DOMAIN B /\ C[t] = B[t])
        /\ \A t \in DOMAIN B : B[t] = <<>> \/ (t \in DOMAIN C /\ C[t] = B[t])
    BY DEF SameBuffers, Buffers
  <1> HIDE DEF B, C
  <1>3. /\ NoneTwice(sock[d].in, sock[d].out, C, sock[d].put)
        /\ sock'[d].fin # "rst" => NoneLost(sock[d].in, sock[d].out, C, sock[d].put)
    BY <1>1, <1>2, EmptyComesAndGoes
  <1> QED
    BY <1>3 DEF SameLines, C

(* The connections other than c, when only frames that serve c change.     *)
LEMMA OthersStay ==
  ASSUME EchoInv, NEW c \in Conns,
         \A u \in Frames : \/ frame'[u] = frame[u] /\ code'[u] = code[u]
                          \/ /\ frame[u] = "live" => code[u].conn = c
                             /\ frame'[u] = "live" => code'[u].conn = c,
         \A d \in Conns \ {c} : sock'[d] = sock[d]
  PROVE  \A d \in Conns \ {c} : UnitInv(d)'
  <1> SUFFICES ASSUME NEW d \in Conns \ {c} PROVE UnitInv(d)'
    OBVIOUS
  <1>1. SameLines(d)
    BY DEF SameLines
  <1>2. SameBuffers(d)
    BY DEF SameBuffers, Serving
  <1> QED
    BY <1>1, <1>2, UnitsStay DEF EchoInv

(* The handlers: one ends only when its peer has closed and nothing is     *)
(* left to read.                                                           *)
LEMMA EndStays ==
  ASSUME EchoInv,
         \A c \in Conns :
           sock'[c].st = "open" => \/ sock[c].st = "open"
                                   \/ \E t \in Serving(c)' : code'[t].kind = "handler",
         \A c \in Conns : sock[c].in = <<>> /\ sock[c].fin # "no"
                            => sock'[c].in = <<>> /\ sock'[c].fin # "no",
         \A t \in Frames : frame[t] = "live" /\ code[t].kind = "handler" =>
           \/ frame'[t] = "live" /\ code'[t].kind = "handler" /\ code'[t].conn = code[t].conn
           \/ sock'[code[t].conn].in = <<>> /\ sock'[code[t].conn].fin # "no"
  PROVE  EndInv'
  <1> SUFFICES ASSUME NEW c \in Conns, sock'[c].st = "open"
               PROVE  \/ \E t \in Serving(c)' : code'[t].kind = "handler"
                      \/ sock'[c].in = <<>> /\ sock'[c].fin # "no"
    BY DEF EndInv
  <1>1. CASE sock[c].st = "open" /\ \E t \in Serving(c) : code[t].kind = "handler"
    <2>1. PICK t \in Serving(c) : code[t].kind = "handler"
      BY <1>1
    <2>2. t \in Frames /\ frame[t] = "live" /\ code[t].conn = c
      BY <2>1 DEF Serving
    <2> QED
      BY <2>1, <2>2 DEF Serving
  <1>2. CASE sock[c].st = "open" /\ sock[c].in = <<>> /\ sock[c].fin # "no"
    BY <1>2
  <1> QED
    BY <1>1, <1>2 DEF EchoInv, EndInv

(* A step that leaves all buffers and what the sockets hold.               *)
LEMMA QuietEcho ==
  ASSUME EchoInv, CoreInv(Nat)', UNCHANGED frame,
         \A t \in Frames : /\ code'[t].kind = code[t].kind /\ code'[t].conn = code[t].conn
                           /\ code'[t].buf = code[t].buf /\ code'[t].size = code[t].size,
         \A d \in Conns : /\ SameLines(d)
                          /\ sock'[d].st = "open" => sock[d].st = "open"
                          /\ sock[d].fin # "no" => sock'[d].fin # "no"
  PROVE  EchoInv'
  <1>1. \A d \in Conns : UnitInv(d)'
    <2> SUFFICES ASSUME NEW d \in Conns PROVE UnitInv(d)'
      OBVIOUS
    <2>1. SameBuffers(d)
      BY DEF SameBuffers, Serving
    <2> QED
      BY <2>1, UnitsStay DEF EchoInv
  <1>2. EndInv'
    <2>1. \A c \in Conns : sock[c].in = <<>> /\ sock[c].fin # "no"
                            => sock'[c].in = <<>> /\ sock'[c].fin # "no"
      BY DEF SameLines
    <2> QED
      BY <2>1, EndStays
  <1>3. WriterInv'
    <2> SUFFICES ASSUME NEW t \in Frames, frame'[t] = "live", code'[t].kind = "writer"
                 PROVE  /\ code'[t].size <= Len(code'[t].buf)
                        /\ ~sock'[code'[t].conn].short => code'[t].size = Len(code'[t].buf)
      BY DEF WriterInv
    <2>1. frame[t] = "live" /\ code[t].kind = "writer"
      OBVIOUS
    <2>2. code[t].conn \in Conns
      BY <2>1 DEF EchoInv, CoreInv, FrameInv
    <2>3. sock'[code[t].conn].short = sock[code[t].conn].short
      BY <2>2 DEF SameLines
    <2> QED
      BY <2>1, <2>3 DEF EchoInv, WriterInv
  <1> QED
    BY <1>1, <1>2, <1>3 DEF EchoInv

-----------------------------------------------------------------------------
(* The steps that are not the handlers'.                                   *)

LEMMA OutsideEcho ==
  ASSUME EchoInv, CoreInv(Nat)', UNCHANGED <<frame, code, sock>>
  PROVE  EchoInv'
  <1>1. \A d \in Conns : SameLines(d)
    BY DEF SameLines
  <1> QED
    BY <1>1, QuietEcho

LEMMA LoopEcho ==
  ASSUME EchoInv, NEW w \in Workers, QuietLoop(w)
  PROVE  EchoInv'
  <1>1. CoreInv(Nat)
    BY DEF EchoInv
  <1>2. CoreInv(Nat)'
    <2>1. CoreLoop(w)
      BY DEF QuietLoop, CoreLoop
    <2> QED
      BY <1>1, <2>1, CoreLoopKeeps
  <1>3. /\ UNCHANGED <<sock, frame>>
        /\ \A t \in Frames : /\ code'[t].kind = code[t].kind /\ code'[t].conn = code[t].conn
                             /\ code'[t].buf = code[t].buf /\ code'[t].size = code[t].size
    BY <1>1, QuietLoopLeaves
  <1>4. \A d \in Conns : SameLines(d)
    BY <1>3 DEF SameLines
  <1> QED
    BY <1>2, <1>3, <1>4, QuietEcho

(* A peer that connects, or closes its end.                                *)
LEMMA PeerEndEcho ==
  ASSUME EchoInv, NEW c \in Conns, NEW how \in {"fin", "rst"},
         PeerConnect(c) \/ PeerClose(c, how)
  PROVE  EchoInv'
  <1>1. CoreInv(Nat)
    BY DEF EchoInv
  <1>2. CoreInv(Nat)'
    BY <1>1, PeerConnectKeeps, PeerCloseKeeps
  <1>3. UNCHANGED <<frame, code>>
    BY DEF PeerConnect, PeerClose
  <1>4. sock[c] \in Sockets(Nat) /\ DOMAIN sock = Conns
    BY <1>1 DEF CoreInv, DataType
  <1>5. \A d \in Conns : /\ SameLines(d)
                         /\ sock'[d].st = "open" => sock[d].st = "open"
                         /\ sock[d].fin # "no" => sock'[d].fin # "no"
    <2>1. CASE PeerConnect(c)
      <3>1. sock' = [sock EXCEPT ![c].st = "backlog"]
        BY <2>1 DEF PeerConnect
      <3> QED
        BY <1>4, <3>1 DEF SameLines, Sockets
    <2>2. CASE PeerClose(c, how)
      <3>1. sock' = [sock EXCEPT ![c].fin = how]
            /\ <<sock[c].fin, how>> \in {<<"no", "fin">>, <<"no", "rst">>, <<"fin", "rst">>}
        BY <2>2 DEF PeerClose
      <3> QED
        BY <1>4, <3>1 DEF SameLines, Sockets
    <2> QED
      BY <2>1, <2>2
  <1> QED
    BY <1>2, <1>3, <1>5, QuietEcho

(* A peer that sends its next unit.                                        *)
LEMMA PeerSendEcho ==
  ASSUME EchoInv, NEW c \in Conns, PeerSend(c, sock[c].put + 1)
  PROVE  EchoInv'
  <1> DEFINE p == sock[c].put
             in == sock[c].in
  <1>1. CoreInv(Nat)
    BY DEF EchoInv
  <1>2. p \in Nat /\ p + 1 \in Nat /\ in \in Seq(Nat)
    BY <1>1, ConstantsAssumption DEF CoreInv, DataType, Sockets
  <1>3. CoreInv(Nat)'
    BY <1>1, <1>2, PeerSendKeeps
  <1>4. /\ \A d \in Conns \ {c} : sock'[d] = sock[d]
        /\ sock'[c].in = Append(in, p + 1) /\ sock'[c].put = p + 1
        /\ sock'[c].st = sock[c].st /\ sock'[c].out = sock[c].out
        /\ sock'[c].fin = sock[c].fin /\ sock'[c].short = sock[c].short
    BY <1>1, <1>2, PeerSendIs
  <1>5. UNCHANGED <<frame, code>> /\ sock[c].fin = "no"
    BY DEF PeerSend
  <1>6. Buffers(c)' = Buffers(c)
    BY <1>5 DEF Buffers, Serving
  <1> HIDE DEF p, in
  <1>7. UnitInv(c)'
    <2> SUFFICES ASSUME ~sock[c].short
                 PROVE  /\ NoneTwice(Append(in, p + 1), sock[c].out, Buffers(c), p + 1)
                        /\ NoneLost(Append(in, p + 1), sock[c].out, Buffers(c), p + 1)
      BY <1>4, <1>6 DEF UnitInv
    <2>1. /\ NoneTwice(in, sock[c].out, Buffers(c), p)
          /\ NoneLost(in, sock[c].out, Buffers(c), p)
      BY <1>5 DEF EchoInv, UnitInv, p, in
    <2> QED
      BY <1>2, <2>1, Arrives
  <1>8. \A d \in Conns \ {c} : UnitInv(d)'
    BY <1>4, <1>5, OthersStay
  <1>9. EndInv'
    <2>1. \A d \in Conns : sock[d].in = <<>> /\ sock[d].fin # "no"
                            => sock'[d].in = <<>> /\ sock'[d].fin # "no"
      BY <1>4, <1>5
    <2>2. \A d \in Conns : sock'[d].st = "open" => sock[d].st = "open"
      BY <1>4
    <2> QED
      BY <1>5, <2>1, <2>2, EndStays
  <1>10. WriterInv'
    <2>1. \A d \in Conns : sock'[d].short = sock[d].short
      BY <1>4
    <2>2. \A t \in Frames : frame[t] = "live" => code[t].conn \in Conns
      BY <1>1 DEF CoreInv, FrameInv
    <2> QED
      BY <1>5, <2>1, <2>2 DEF EchoInv, WriterInv
  <1> QED
    BY <1>3, <1>7, <1>8, <1>9, <1>10 DEF EchoInv

(* A new connection: its handler has an empty buffer.                      *)
LEMMA AcceptEcho ==
  ASSUME EchoInv, NEW w \in Workers, NEW c \in Conns, Accept(w, c)
  PROVE  EchoInv'
  <1> DEFINE n == NewFrame
  <1>1. CoreInv(Nat)
    BY DEF EchoInv
  <1>2. CoreInv(Nat)'
    BY <1>1, AcceptKeeps
  <1>3. /\ n \in Frames /\ frame[n] = "free"
        /\ \A u \in Tasks \ {n} : code'[u] = code[u] /\ frame'[u] = frame[u]
        /\ code'[n].kind = "handler" /\ code'[n].conn = c /\ frame'[n] = "live"
        /\ \A d \in Conns \ {c} : sock'[d] = sock[d]
        /\ sock'[c].in = sock[c].in /\ sock'[c].fin = sock[c].fin /\ sock'[c].put = sock[c].put
    BY <1>1, AcceptIs
  <1>4. /\ sock' = [sock EXCEPT ![c].st = "open", ![c].fd = LowestFd, ![c].ptr = NewFrame]
        /\ code' = [code EXCEPT ![NewFrame] = Fresh("handler", c)]
    BY DEF Accept
  <1>5. sock[c] \in Sockets(Nat) /\ DOMAIN sock = Conns /\ DOMAIN code = Tasks
    BY <1>1 DEF CoreInv, DataType
  <1>6. sock'[c].out = sock[c].out /\ sock'[c].short = sock[c].short
    BY <1>4, <1>5 DEF Sockets
  <1>7. code'[n].buf = <<>>
    <2>1. code'[n] = Fresh("handler", c)
      BY <1>3, <1>4, <1>5, ConstantsFacts
    <2> QED
      BY <2>1 DEF Fresh, Blank
  <1> HIDE DEF n
  <1>8. \A u \in Frames \ {n} : code'[u] = code[u] /\ frame'[u] = frame[u]
    BY <1>3, ConstantsFacts
  <1>9. UnitInv(c)'
    <2>1. SameLines(c)
      BY <1>3, <1>6 DEF SameLines
    <2>2. SameBuffers(c)
      BY <1>3, <1>7, <1>8 DEF SameBuffers, Serving
    <2> QED
      BY <2>1, <2>2, UnitsStay DEF EchoInv
  <1>10. \A d \in Conns \ {c} : UnitInv(d)'
    <2>1. /\ frame[n] = "live" => code[n].conn = c
          /\ frame'[n] = "live" => code'[n].conn = c
      BY <1>3
    <2> QED
      BY <1>3, <1>8, <2>1, OthersStay
  <1>11. EndInv'
    <2>1. \A d \in Conns : sock'[d].st = "open" =>
            \/ sock[d].st = "open"
            \/ \E t \in Serving(d)' : code'[t].kind = "handler"
      <3>1. n \in Serving(c)'
        BY <1>3 DEF Serving
      <3> QED
        BY <1>3, <3>1
    <2>2. \A d \in Conns : sock'[d].in = sock[d].in /\ sock'[d].fin = sock[d].fin
      BY <1>3
    <2>3. \A t \in Frames : frame[t] = "live" => frame'[t] = "live" /\ code'[t] = code[t]
      BY <1>3, <1>8
    <2> QED
      BY <2>1, <2>2, <2>3, EndStays
  <1>12. WriterInv'
    <2>1. \A d \in Conns : sock'[d].short = sock[d].short
      BY <1>3, <1>6
    <2>2. \A t \in Frames : frame[t] = "live" => code[t].conn \in Conns
      BY <1>1 DEF CoreInv, FrameInv
    <2>3. \A t \in Frames : code'[t].kind = "writer" => frame'[t] = frame[t] /\ code'[t] = code[t]
      BY <1>3, <1>8
    <2> QED
      BY <2>1, <2>2, <2>3 DEF EchoInv, WriterInv
  <1> QED
    BY <1>2, <1>9, <1>10, <1>11, <1>12 DEF EchoInv

(* A round of the cleaner: no buffer and no unit that waits is dropped.    *)
LEMMA CleanEcho ==
  ASSUME EchoInv, Clean
  PROVE  EchoInv'
  <1>1. CoreInv(Nat)
    BY DEF EchoInv
  <1>2. CoreInv(Nat)'
    BY <1>1, CleanKeepsCore
  <1>3. /\ \A c \in GoneConns : sock'[c].st = "closed" /\ sock'[c].in = <<>>
        /\ \A c \in Conns \ GoneConns : sock'[c] = sock[c]
        /\ \A c \in Conns : /\ sock'[c].put = sock[c].put /\ sock'[c].fin = sock[c].fin
                            /\ sock'[c].out = sock[c].out /\ sock'[c].short = sock[c].short
    BY <1>1, CleanSockets
  <1>4. /\ frame' = [t \in Tasks |-> IF t \in Cleanable THEN "free" ELSE frame[t]]
        /\ code' = [t \in Tasks |-> IF t \in Cleanable THEN Blank ELSE code[t]]
    BY DEF Clean
  <1>5. \A t \in Frames : /\ t \notin Cleanable => frame'[t] = frame[t] /\ code'[t] = code[t]
                          /\ t \in Cleanable => frame[t] = "done" /\ frame'[t] = "free"
    BY <1>4, ConstantsFacts DEF Cleanable
  <1>6. ASSUME NEW c \in GoneConns PROVE sock[c].in = <<>> /\ sock[c].fin # "no"
    <2>1. c \in Conns /\ sock[c].st = "open" /\ Owners(c) \subseteq Cleanable
      BY DEF GoneConns
    <2>2. Serving(c) = {}
      BY <1>5, <2>1 DEF Serving, Owners
    <2> QED
      BY <2>1, <2>2 DEF EchoInv, EndInv
  <1>7. \A c \in Conns : sock'[c].in = sock[c].in
    BY <1>3, <1>6
  <1>8. \A c \in Conns : UnitInv(c)'
    <2> SUFFICES ASSUME NEW c \in Conns PROVE UnitInv(c)'
      OBVIOUS
    <2>1. SameLines(c)
      BY <1>3, <1>7 DEF SameLines
    <2>2. SameBuffers(c)
      BY <1>5 DEF SameBuffers, Serving
    <2> QED
      BY <2>1, <2>2, UnitsStay DEF EchoInv
  <1>9. EndInv'
    <2>1. \A c \in Conns : sock'[c].st = "open" => sock[c].st = "open"
      BY <1>3
    <2>2. \A t \in Frames : frame[t] = "live" => frame'[t] = "live" /\ code'[t] = code[t]
      BY <1>5
    <2> QED
      BY <1>3, <1>7, <2>1, <2>2, EndStays
  <1>10. WriterInv'
    <2>1. \A t \in Frames : frame'[t] = "live" => frame[t] = "live" /\ code'[t] = code[t]
      BY <1>5
    <2>2. \A t \in Frames : frame[t] = "live" => code[t].conn \in Conns
      BY <1>1 DEF CoreInv, FrameInv
    <2> QED
      BY <1>3, <2>1, <2>2 DEF EchoInv, WriterInv
  <1> QED
    BY <1>2, <1>8, <1>9, <1>10 DEF EchoInv

-----------------------------------------------------------------------------
(* The steps of the coroutines of a connection.                            *)

LEMMA ServerFacts ==
  ASSUME CoreInv(Nat), NEW w \in Workers, NEW t \in Frames, NEW kind, On(w, t, kind),
         NEW c, c = code[t].conn
  PROVE  /\ t \in Tasks /\ t # None /\ t # Waiter /\ holder[w] = t
         /\ frame[t] = "live" /\ code[t].kind = kind /\ t \in Serving(c)
         /\ code[t] \in Coroutines(Nat) /\ code[t].buf \in Seq(Nat) /\ code[t].size \in Nat
         /\ c \in Conns /\ sock[c].st = "open" /\ sock[c] \in Sockets(Nat)
         /\ sock[c].in \in Seq(Nat) /\ sock[c].out \in Seq(Nat)
         /\ ended \in {"no", "freed", "thrown", "sigpipe"}
  <1>1. t \in Tasks /\ t # None /\ t # Waiter /\ holder[w] = t /\ code[t].kind = kind
    BY ConstantsFacts DEF On
  <1>2. frame[t] = "live"
    BY <1>1 DEF CoreInv, HeldInv
  <1>3. c \in Conns /\ sock[c].st = "open"
    BY <1>2 DEF CoreInv, FrameInv
  <1>4. code[t] \in Coroutines(Nat) /\ sock[c] \in Sockets(Nat)
    BY <1>1, <1>3 DEF CoreInv, DataType
  <1>5. code[t].buf \in Seq(Nat) /\ code[t].size \in Nat
    BY <1>4 DEF Coroutines
  <1>6. sock[c].in \in Seq(Nat) /\ sock[c].out \in Seq(Nat)
    BY <1>4 DEF Sockets
  <1>7. ended \in {"no", "freed", "thrown", "sigpipe"}
    BY DEF CoreInv, EventType
  <1> QED
    BY <1>1, <1>2, <1>3, <1>4, <1>5, <1>6, <1>7 DEF Serving

LEMMA OneTask ==
  ASSUME CoreInv(Nat), NEW t \in Frames, NEW q \in Coroutines(Nat),
         code' = [code EXCEPT ![t] = q],
         q.kind = code[t].kind, q.conn = code[t].conn, q.wakes = code[t].wakes
  PROVE  /\ code' \in [Tasks -> Coroutines(Nat)]
         /\ code'[t] = q /\ \A u \in Tasks \ {t} : code'[u] = code[u]
         /\ \A u \in Frames : SameTask(u)
         /\ code'[Waiter].at = code[Waiter].at
  <1>1. t \in Tasks /\ t # Waiter /\ Waiter \in Tasks /\ code \in [Tasks -> Coroutines(Nat)]
    BY ConstantsFacts DEF CoreInv, DataType
  <1>2. code' \in [Tasks -> Coroutines(Nat)]
    BY <1>1
  <1>3. code'[t] = q /\ \A u \in Tasks \ {t} : code'[u] = code[u]
    BY <1>1
  <1>4. \A u \in Frames : SameTask(u)
    BY <1>3, ConstantsFacts DEF SameTask
  <1> QED
    BY <1>1, <1>2, <1>3, <1>4

LEMMA OneSocket ==
  ASSUME CoreInv(Nat), NEW c \in Conns, NEW r \in Sockets(Nat),
         sock' = [sock EXCEPT ![c] = r]
  PROVE  /\ sock' \in [Conns -> Sockets(Nat)]
         /\ sock'[c] = r /\ \A d \in Conns \ {c} : sock'[d] = sock[d]
  <1>1. sock \in [Conns -> Sockets(Nat)]
    BY DEF CoreInv, DataType
  <1> QED
    BY <1>1

(* When an operation reports an error, and when a read finds the end.      *)
LEMMA Results ==
  ASSUME CoreInv(Nat), NEW c \in Conns
  PROVE  /\ ReadResult(c) = "reset" => sock[c].in = <<>> /\ sock[c].fin = "rst"
         /\ ReadResult(c) = "eof" => sock[c].in = <<>> /\ sock[c].fin # "no"
         /\ SendResult(c) = "reset" => sock[c].fin = "rst"
  <1>1. sock[c].told \in BOOLEAN /\ sock[c].fin \in {"no", "fin", "rst"}
    BY DEF CoreInv, DataType, Sockets
  <1>2. sock[c].in # <<>> => ReadResult(c) = "data"
    BY <1>1 DEF ReadResult
  <1>3. sock[c].in = <<>> /\ sock[c].fin = "no" => ReadResult(c) = "again"
    BY <1>1 DEF ReadResult
  <1>4. sock[c].in = <<>> /\ sock[c].fin = "fin" => ReadResult(c) = "eof"
    BY <1>1 DEF ReadResult
  <1>5. sock[c].fin # "rst" => SendResult(c) = "sent"
    BY <1>1 DEF SendResult
  <1> QED
    BY <1>1, <1>2, <1>3, <1>4, <1>5

(* The step of t keeps what is not about c.                                *)
LEMMA OneServer ==
  ASSUME EchoInv, NEW t \in Frames, NEW c \in Conns, code[t].conn = c,
         \A u \in Frames \ {t} : frame'[u] = frame[u] /\ code'[u] = code[u],
         code'[t].conn = c,
         \A d \in Conns \ {c} : sock'[d] = sock[d]
  PROVE  \A d \in Conns \ {c} : UnitInv(d)'
  <1>1. \A u \in Frames : \/ frame'[u] = frame[u] /\ code'[u] = code[u]
                          \/ /\ frame[u] = "live" => code[u].conn = c
                             /\ frame'[u] = "live" => code'[u].conn = c
    OBVIOUS
  <1> QED
    BY <1>1, OthersStay

(* A read.                                                                 *)
LEMMA RecvEcho ==
  ASSUME EchoInv, NEW w \in Workers, NEW t \in Frames, EchoRecv(w, t)
  PROVE  EchoInv'
  <1>0. CoreInv(Nat)
    BY DEF EchoInv
  <1>c. PICK c \in Conns : c = code[t].conn
    BY <1>0, ServerFacts DEF EchoRecv
  <1> DEFINE in == sock[c].in
             buf == code[t].buf
             more == Append(buf, Head(in))
             rest == Tail(in)
             q == [code[t] EXCEPT !.buf = more]
             r == [sock[c] EXCEPT !.in = rest]
  <1>1. /\ On(w, t, "handler") /\ ReadResult(c) = "data"
        /\ code' = [code EXCEPT ![t].buf = Append(@, Head(in))]
        /\ sock' = [sock EXCEPT ![c].in = Tail(@)]
        /\ UNCHANGED <<binding, queue, holder, frame, events, ready, ended>>
    BY <1>c DEF EchoRecv, poolVars, epollVars
  <1>2. /\ t \in Tasks /\ holder[w] = t /\ frame[t] = "live" /\ t \in Serving(c)
        /\ code[t].kind = "handler" /\ code[t] \in Coroutines(Nat) /\ buf \in Seq(Nat)
        /\ c \in Conns /\ sock[c] \in Sockets(Nat) /\ in \in Seq(Nat)
        /\ ended \in {"no", "freed", "thrown", "sigpipe"}
    BY <1>0, <1>1, <1>c, ServerFacts
  <1>3. in # <<>>
    BY <1>1 DEF ReadResult
  <1>4. more \in Seq(Nat) /\ rest \in Seq(Nat)
    BY <1>2, <1>3
  <1>5. code' = [code EXCEPT ![t] = q] /\ sock' = [sock EXCEPT ![c] = r]
    BY <1>0, <1>1, <1>2 DEF CoreInv, DataType
  <1> HIDE DEF more, rest
  <1>6. /\ q \in Coroutines(Nat) /\ q.kind = code[t].kind /\ q.conn = code[t].conn
        /\ q.wakes = code[t].wakes /\ q.buf = more /\ q.size = code[t].size
    BY <1>2, <1>4 DEF Coroutines
  <1>7. /\ r \in Sockets(Nat) /\ r.st = sock[c].st /\ r.fd = sock[c].fd /\ r.ptr = sock[c].ptr
        /\ r.fin = sock[c].fin /\ r.in = rest /\ r.out = sock[c].out /\ r.put = sock[c].put
        /\ r.short = sock[c].short
    BY <1>2, <1>4 DEF Sockets
  <1> HIDE DEF q, r
  <1>8. /\ code' \in [Tasks -> Coroutines(Nat)]
        /\ code'[t] = q /\ \A u \in Tasks \ {t} : code'[u] = code[u]
        /\ \A u \in Frames : SameTask(u)
        /\ code'[Waiter].at = code[Waiter].at
    BY <1>0, <1>5, <1>6, OneTask
  <1>9. /\ sock' \in [Conns -> Sockets(Nat)]
        /\ sock'[c] = r /\ \A d \in Conns \ {c} : sock'[d] = sock[d]
    BY <1>0, <1>2, <1>5, <1>7, OneSocket
  <1>10. CoreInv(Nat)'
    <2>1. \A d \in Conns : SameEnds(d)
      BY <1>3, <1>7, <1>9 DEF SameEnds
    <2>2. DataType(Nat)'
      BY <1>8, <1>9 DEF DataType
    <2>3. Going(w, t, Nat)
      BY <1>1, <1>2, <1>8, <2>1, <2>2 DEF Going
    <2> QED
      BY <1>0, <2>3, GoingKeeps
  <1>11. \A u \in Frames \ {t} : frame'[u] = frame[u] /\ code'[u] = code[u]
    BY <1>1, <1>8, ConstantsFacts
  <1>12. code[t].conn = c /\ code'[t].conn = c
    BY <1>c, <1>6, <1>8
  <1>13. UnitInv(c)'
    <2> DEFINE B == Buffers(c)
               C == Buffers(c)'
               out == sock[c].out
               p == sock[c].put
    <2>1. /\ t \in DOMAIN B /\ DOMAIN C = DOMAIN B /\ C[t] = more
          /\ B[t] = buf
          /\ \A s \in DOMAIN B \ {t} : C[s] = B[s]
      <3>1. Serving(c)' = Serving(c)
        BY <1>1, <1>11, <1>12 DEF Serving
      <3> QED
        BY <1>2, <1>6, <1>8, <1>11, <3>1 DEF Buffers, Serving
    <2> SUFFICES ASSUME ~sock'[c].short
                 PROVE  /\ NoneTwice(rest, out, C, p)
                        /\ sock[c].fin # "rst" => NoneLost(rest, out, C, p)
      BY <1>7, <1>9 DEF UnitInv
    <2>2. /\ NoneTwice(in, out, B, p)
          /\ sock[c].fin # "rst" => NoneLost(in, out, B, p)
      BY <1>2, <1>7, <1>9 DEF EchoInv, UnitInv
    <2>3. in \in Seq(Nat) /\ B[t] \in Seq(Nat) /\ C[t] = Append(B[t], Head(in)) /\ rest = Tail(in)
      BY <1>2, <2>1 DEF more, rest
    <2> HIDE DEF B, C, out, p, in
    <2> QED
      BY <1>3, <2>1, <2>2, <2>3, ReadMoves
  <1>14. \A d \in Conns \ {c} : UnitInv(d)'
    BY <1>2, <1>9, <1>11, <1>12, OneServer
  <1>15. EndInv'
    <2>1. \A d \in Conns : /\ sock'[d].st = "open" => sock[d].st = "open"
                           /\ sock[d].in = <<>> /\ sock[d].fin # "no"
                                => sock'[d].in = <<>> /\ sock'[d].fin # "no"
      BY <1>3, <1>7, <1>9
    <2>2. \A u \in Frames : /\ frame'[u] = frame[u] /\ code'[u].kind = code[u].kind
                            /\ code'[u].conn = code[u].conn
      BY <1>1, <1>8 DEF SameTask
    <2> QED
      BY <2>1, <2>2, EndStays
  <1>16. WriterInv'
    <2>1. \A d \in Conns : sock'[d].short = sock[d].short
      BY <1>7, <1>9
    <2>2. \A u \in Frames : frame[u] = "live" => code[u].conn \in Conns
      BY <1>0 DEF CoreInv, FrameInv
    <2>3. code'[t].kind = "handler"
      BY <1>2, <1>6, <1>8
    <2> QED
      BY <1>11, <2>1, <2>2, <2>3 DEF EchoInv, WriterInv
  <1> QED
    BY <1>10, <1>13, <1>14, <1>15, <1>16 DEF EchoInv

(* An error: the coroutine ends, and what it held is lost with the reset.  *)
LEMMA ErrorEcho ==
  ASSUME EchoInv, NEW w \in Workers, NEW t \in Frames, EchoError(w, t) \/ WriterError(w, t)
  PROVE  EchoInv'
  <1>0. CoreInv(Nat)
    BY DEF EchoInv
  <1>c. PICK c \in Conns : c = code[t].conn
    BY <1>0, ServerFacts DEF EchoError, WriterError
  <1> DEFINE buf == IF code[t].kind = "handler" THEN <<>> ELSE code[t].buf
             q == [code[t] EXCEPT !.buf = buf]
             r == [sock[c] EXCEPT !.told = TRUE]
  <1>1. /\ holder[w] = t /\ t \in Tasks /\ frame[t] = "live" /\ t \in Serving(c)
        /\ code[t] \in Coroutines(Nat) /\ sock[c] \in Sockets(Nat)
        /\ ended \in {"no", "freed", "thrown", "sigpipe"}
    BY <1>0, <1>c, ServerFacts DEF EchoError, WriterError
  <1>2. /\ frame' = [frame EXCEPT ![t] = "done"] /\ holder' = [holder EXCEPT ![w] = None]
        /\ sock' = [sock EXCEPT ![c].told = TRUE]
        /\ UNCHANGED <<binding, queue, events, ready, ended>>
    BY <1>c DEF EchoError, WriterError, Return, epollVars
  <1>3. sock[c].fin = "rst" /\ (code[t].kind = "handler" => sock[c].in = <<>>)
    <2>1. CASE EchoError(w, t)
      BY <1>0, <1>c, <2>1, Results DEF EchoError
    <2>2. CASE WriterError(w, t)
      BY <1>0, <1>c, <2>2, Results DEF WriterError, On
    <2> QED
      BY <2>1, <2>2
  <1>4. code' = [code EXCEPT ![t] = q]
    <2>1. CASE EchoError(w, t)
      BY <1>0, <1>1, <2>1 DEF EchoError, On, CoreInv, DataType
    <2>2. CASE WriterError(w, t)
      <3>1. q = code[t] /\ code' = code
        BY <1>1, <2>2 DEF WriterError, On, Coroutines
      <3> QED
        BY <1>0, <1>1, <3>1 DEF CoreInv, DataType
    <2> QED
      BY <2>1, <2>2
  <1>5. sock' = [sock EXCEPT ![c] = r]
    BY <1>0, <1>2 DEF CoreInv, DataType
  <1>6. /\ q \in Coroutines(Nat) /\ q.kind = code[t].kind /\ q.conn = code[t].conn
        /\ q.wakes = code[t].wakes
    <2>1. buf \in Seq(Nat)
      BY <1>1 DEF Coroutines
    <2> HIDE DEF buf
    <2> QED
      BY <1>1, <2>1 DEF Coroutines
  <1>7. /\ r \in Sockets(Nat) /\ r.st = sock[c].st /\ r.fd = sock[c].fd /\ r.ptr = sock[c].ptr
        /\ r.fin = sock[c].fin /\ r.in = sock[c].in /\ r.out = sock[c].out
        /\ r.put = sock[c].put /\ r.short = sock[c].short
    BY <1>1 DEF Sockets
  <1> HIDE DEF q, r
  <1>8. /\ code' \in [Tasks -> Coroutines(Nat)]
        /\ code'[t] = q /\ \A u \in Tasks \ {t} : code'[u] = code[u]
        /\ \A u \in Frames : SameTask(u)
        /\ code'[Waiter].at = code[Waiter].at
    BY <1>0, <1>4, <1>6, OneTask
  <1>9. /\ sock' \in [Conns -> Sockets(Nat)]
        /\ sock'[c] = r /\ \A d \in Conns \ {c} : sock'[d] = sock[d]
    BY <1>0, <1>5, <1>7, OneSocket
  <1>10. CoreInv(Nat)'
    <2>1. \A d \in Conns : SameEnds(d)
      BY <1>7, <1>9 DEF SameEnds
    <2>2. DataType(Nat)'
      BY <1>8, <1>9 DEF DataType
    <2>3. Going(w, t, Nat)
      BY <1>1, <1>2, <1>8, <2>1, <2>2 DEF Going
    <2> QED
      BY <1>0, <2>3, GoingKeeps
  <1>11. /\ frame'[t] = "done"
         /\ \A u \in Frames \ {t} : frame'[u] = frame[u] /\ code'[u] = code[u]
    BY <1>0, <1>1, <1>2, <1>8, ConstantsFacts DEF CoreInv, PoolType
  <1>12. code[t].conn = c /\ code'[t].conn = c
    BY <1>c, <1>6, <1>8
  <1>13. UnitInv(c)'
    <2> DEFINE B == Buffers(c)
               C == Buffers(c)'
    <2>1. \A s \in DOMAIN C : s \in DOMAIN B /\ C[s] = B[s]
      BY <1>11 DEF Buffers, Serving
    <2> SUFFICES ASSUME ~sock'[c].short
                 PROVE  NoneTwice(sock[c].in, sock[c].out, C, sock[c].put)
      BY <1>3, <1>7, <1>9 DEF UnitInv
    <2>2. NoneTwice(sock[c].in, sock[c].out, B, sock[c].put)
      BY <1>7, <1>9 DEF EchoInv, UnitInv
    <2> HIDE DEF B, C
    <2> QED
      BY <2>1, <2>2, EmptyComesAndGoes
  <1>14. \A d \in Conns \ {c} : UnitInv(d)'
    BY <1>9, <1>11, <1>12, OneServer
  <1>15. EndInv'
    <2>1. \A d \in Conns : /\ sock'[d].st = sock[d].st /\ sock'[d].in = sock[d].in
                           /\ sock'[d].fin = sock[d].fin
      BY <1>7, <1>9
    <2>2. code[t].kind = "handler" =>
            sock'[code[t].conn].in = <<>> /\ sock'[code[t].conn].fin # "no"
      BY <1>3, <1>12, <2>1
    <2>3. \A u \in Frames : frame[u] = "live" /\ code[u].kind = "handler" =>
            \/ frame'[u] = "live" /\ code'[u].kind = "handler" /\ code'[u].conn = code[u].conn
            \/ sock'[code[u].conn].in = <<>> /\ sock'[code[u].conn].fin # "no"
      BY <1>11, <2>2
    <2> QED
      BY <2>1, <2>3, EndStays
  <1>16. WriterInv'
    <2>1. \A d \in Conns : sock'[d].short = sock[d].short
      BY <1>7, <1>9
    <2>2. \A u \in Frames : frame[u] = "live" => code[u].conn \in Conns
      BY <1>0 DEF CoreInv, FrameInv
    <2> QED
      BY <1>11, <2>1, <2>2 DEF EchoInv, WriterInv
  <1> QED
    BY <1>10, <1>13, <1>14, <1>15, <1>16 DEF EchoInv

(* A send.                                                                 *)
LEMMA SendEcho ==
  ASSUME EchoInv, NEW w \in Workers, NEW t \in Frames, NEW n, WriterSend(w, t, n)
  PROVE  EchoInv'
  <1>0. CoreInv(Nat)
    BY DEF EchoInv
  <1>c. PICK c \in Conns : c = code[t].conn
    BY <1>0, ServerFacts DEF WriterSend
  <1> DEFINE buf == code[t].buf
             size == code[t].size
             left == size - n
             out == sock[c].out \o SubSeq(buf, 1, n)
             short == sock[c].short \/ n < size
             q == [code[t] EXCEPT !.size = left]
             r == [sock[c] EXCEPT !.out = out, !.short = short]
  <1>1. /\ holder[w] = t /\ t \in Tasks /\ frame[t] = "live" /\ t \in Serving(c)
        /\ code[t].kind = "writer"
        /\ code[t] \in Coroutines(Nat) /\ sock[c] \in Sockets(Nat)
        /\ buf \in Seq(Nat) /\ size \in Nat /\ sock[c].out \in Seq(Nat)
        /\ ended \in {"no", "freed", "thrown", "sigpipe"}
    BY <1>0, <1>c, ServerFacts DEF WriterSend
  <1>2. /\ sock' = [sock EXCEPT ![c].out = @ \o SubSeq(buf, 1, n),
                               ![c].short = @ \/ n < size]
        /\ code' = [code EXCEPT ![t].size = left]
        /\ IF n >= Len(buf)
           THEN /\ frame' = [frame EXCEPT ![t] = "done"]
                /\ holder' = [holder EXCEPT ![w] = None]
           ELSE UNCHANGED <<frame, holder>>
        /\ n \in 0..size
        /\ UNCHANGED <<binding, queue, events, ready, ended>>
    BY <1>c DEF WriterSend, WriterDone, Size, Return, epollVars
  <1>3. /\ size <= Len(buf) /\ (~sock[c].short => size = Len(buf))
        /\ sock[c].short \in BOOLEAN
    BY <1>c, <1>1 DEF EchoInv, WriterInv, Sockets
  <1>4. left \in Nat /\ out \in Seq(Nat) /\ short \in BOOLEAN
    <2>1. SubSeq(buf, 1, n) \in Seq(Nat)
      BY <1>1, <1>2, <1>3
    <2> QED
      BY <1>1, <1>2, <1>3, <2>1
  <1>5. ~short => n = Len(buf) /\ out = sock[c].out \o buf /\ ~sock[c].short
    <2>1. SubSeq(buf, 1, Len(buf)) = buf
      BY <1>1
    <2>2. ~short => n = Len(buf) /\ ~sock[c].short
      BY <1>1, <1>2, <1>3
    <2> QED
      BY <2>1, <2>2
  <1>6. code' = [code EXCEPT ![t] = q] /\ sock' = [sock EXCEPT ![c] = r]
    BY <1>0, <1>1, <1>2 DEF CoreInv, DataType
  <1> HIDE DEF left, out, short
  <1>7. /\ q \in Coroutines(Nat) /\ q.kind = code[t].kind /\ q.conn = code[t].conn
        /\ q.wakes = code[t].wakes /\ q.size = left /\ q.buf = buf
    BY <1>1, <1>4 DEF Coroutines
  <1>8. /\ r \in Sockets(Nat) /\ r.st = sock[c].st /\ r.fd = sock[c].fd /\ r.ptr = sock[c].ptr
        /\ r.fin = sock[c].fin /\ r.in = sock[c].in /\ r.out = out
        /\ r.put = sock[c].put /\ r.short = short
    BY <1>1, <1>4 DEF Sockets
  <1> HIDE DEF q, r
  <1>9. /\ code' \in [Tasks -> Coroutines(Nat)]
        /\ code'[t] = q /\ \A u \in Tasks \ {t} : code'[u] = code[u]
        /\ \A u \in Frames : SameTask(u)
        /\ code'[Waiter].at = code[Waiter].at
    BY <1>0, <1>6, <1>7, OneTask
  <1>10. /\ sock' \in [Conns -> Sockets(Nat)]
         /\ sock'[c] = r /\ \A d \in Conns \ {c} : sock'[d] = sock[d]
    BY <1>0, <1>6, <1>8, OneSocket
  <1>11. CoreInv(Nat)'
    <2>1. \A d \in Conns : SameEnds(d)
      BY <1>8, <1>10 DEF SameEnds
    <2>2. DataType(Nat)'
      BY <1>9, <1>10 DEF DataType
    <2>3. Going(w, t, Nat)
      BY <1>1, <1>2, <1>9, <2>1, <2>2 DEF Going
    <2> QED
      BY <1>0, <2>3, GoingKeeps
  <1>12. \A u \in Frames \ {t} : frame'[u] = frame[u] /\ code'[u] = code[u]
    BY <1>0, <1>1, <1>2, <1>9, ConstantsFacts DEF CoreInv, PoolType
  <1>13. code[t].conn = c /\ code'[t].conn = c
    BY <1>c, <1>7, <1>9
  <1>14. UnitInv(c)'
    <2> SUFFICES ASSUME ~short
                 PROVE  /\ NoneTwice(sock[c].in, out, Buffers(c)', sock[c].put)
                        /\ sock[c].fin # "rst" =>
                             NoneLost(sock[c].in, out, Buffers(c)', sock[c].put)
      BY <1>8, <1>10 DEF UnitInv
    <2> DEFINE B == Buffers(c)
               C == Buffers(c)'
    <2>1. frame'[t] = "done"
      BY <1>0, <1>1, <1>2, <1>5 DEF CoreInv, PoolType
    <2>2. /\ t \in DOMAIN B /\ B[t] = buf /\ DOMAIN C = DOMAIN B \ {t}
          /\ \A s \in DOMAIN C : C[s] = B[s]
      <3>1. Serving(c)' = Serving(c) \ {t}
        BY <1>12, <2>1 DEF Serving
      <3> QED
        BY <1>1, <1>12, <3>1 DEF Buffers, Serving
    <2>3. /\ NoneTwice(sock[c].in, sock[c].out, B, sock[c].put)
          /\ sock[c].fin # "rst" => NoneLost(sock[c].in, sock[c].out, B, sock[c].put)
      BY <1>5 DEF EchoInv, UnitInv
    <2>4. out = sock[c].out \o B[t] /\ B[t] \in Seq(Nat)
      BY <1>1, <1>5, <2>2
    <2> HIDE DEF B, C
    <2>5. /\ NoneTwice(sock[c].in, sock[c].out \o B[t], C, sock[c].put)
          /\ sock[c].fin # "rst" => NoneLost(sock[c].in, sock[c].out \o B[t], C, sock[c].put)
      BY <1>1, <2>2, <2>3, <2>4, SendsBack
    <2> QED
      BY <2>4, <2>5 DEF C
  <1>15. \A d \in Conns \ {c} : UnitInv(d)'
    BY <1>10, <1>12, <1>13, OneServer
  <1>16. EndInv'
    <2>1. \A d \in Conns : /\ sock'[d].st = sock[d].st /\ sock'[d].in = sock[d].in
                           /\ sock'[d].fin = sock[d].fin
      BY <1>8, <1>10
    <2>2. \A u \in Frames : frame[u] = "live" /\ code[u].kind = "handler" =>
            frame'[u] = "live" /\ code'[u].kind = "handler" /\ code'[u].conn = code[u].conn
      BY <1>1, <1>12
    <2> QED
      BY <2>1, <2>2, EndStays
  <1>17. WriterInv'
    <2>1. \A d \in Conns \ {c} : sock'[d].short = sock[d].short
      BY <1>10
    <2>2. \A u \in Frames : frame[u] = "live" => code[u].conn \in Conns
      BY <1>0 DEF CoreInv, FrameInv
    <2>3. sock'[c].short = short /\ (~short => ~sock[c].short)
      BY <1>5, <1>8, <1>10
    <2>4. frame'[t] = "live" => short
      <3>1. ~short => frame'[t] = "done"
        BY <1>0, <1>1, <1>2, <1>5 DEF CoreInv, PoolType
      <3> QED
        BY <3>1
    <2>5. code'[t].size <= Len(code'[t].buf)
      <3>1. code'[t].size = left /\ code'[t].buf = buf
        BY <1>7, <1>9
      <3> QED
        BY <1>1, <1>2, <1>3, <3>1 DEF left
    <2> SUFFICES ASSUME NEW u \in Frames, frame'[u] = "live", code'[u].kind = "writer"
                 PROVE  /\ code'[u].size <= Len(code'[u].buf)
                        /\ ~sock'[code'[u].conn].short => code'[u].size = Len(code'[u].buf)
      BY DEF WriterInv
    <2>6. CASE u = t
      BY <1>13, <2>3, <2>4, <2>5, <2>6
    <2>7. CASE u # t
      <3>1. frame[u] = "live" /\ code'[u] = code[u] /\ code[u].conn \in Conns
        BY <1>12, <2>2, <2>7
      <3>2. ~sock'[code[u].conn].short => ~sock[code[u].conn].short
        BY <2>1, <2>3, <3>1
      <3> QED
        BY <3>1, <3>2 DEF EchoInv, WriterInv
    <2> QED
      BY <2>6, <2>7
  <1> QED
    BY <1>11, <1>14, <1>15, <1>16, <1>17 DEF EchoInv

(* The frame of a new writer.                                              *)
LEMMA NewWriter ==
  ASSUME CoreInv(Nat), NEW t \in Frames, FreeFrames # {},
         code[t] \in Coroutines(Nat), code[t].conn \in Conns
  PROVE  /\ WriterOf(t) \in Coroutines(Nat)
         /\ WriterOf(t).kind = "writer" /\ WriterOf(t).conn = code[t].conn
         /\ WriterOf(t).wakes = Waiting(NewFrame) + 1
         /\ WriterOf(t).buf = code[t].buf /\ WriterOf(t).size = Len(code[t].buf)
  <1> DEFINE r == Fresh("writer", code[t].conn)
             k == r.wakes + 1
             b == code[t].buf
             z == Len(b)
             q == WriterOf(t)
  <1>1. Waiting(NewFrame) \in Nat
    <2>1. NewFrame \in Tasks
      BY NewFrameIsFree, ConstantsFacts
    <2> QED
      BY <2>1, WaitingType DEF CoreInv
  <1>2. /\ r \in Coroutines(Nat) /\ r.kind = "writer" /\ r.conn = code[t].conn
        /\ r.wakes = Waiting(NewFrame)
    BY <1>1, FreshIs
  <1>3. Spawned("writer", code[t].conn) = [r EXCEPT !.wakes = k]
    BY DEF Spawned
  <1>4. k \in Nat /\ k = Waiting(NewFrame) + 1
    BY <1>1, <1>2
  <1>5. b \in Seq(Nat)
    BY DEF Coroutines
  <1>6. z \in Nat
    BY <1>5
  <1>7. q = [[r EXCEPT !.wakes = k] EXCEPT !.buf = b, !.size = z]
    BY <1>3 DEF WriterOf
  <1> HIDE DEF r, k, b, z, q
  <1>8. /\ q \in Coroutines(Nat) /\ q.kind = "writer" /\ q.conn = code[t].conn
        /\ q.wakes = Waiting(NewFrame) + 1 /\ q.buf = b /\ q.size = z
    BY <1>2, <1>4, <1>5, <1>6, <1>7 DEF Coroutines
  <1> QED
    BY <1>8 DEF q, z, b

(* The handler hands its buffer to a new writer, and polls or is done.     *)
Handing(w, t) ==
  /\ FreeFrames # {} /\ addTask(NewFrame)
  /\ UNCHANGED <<epollVars, sock, ended>>
  /\ \/ /\ holder' = holder /\ frame' = [frame EXCEPT ![NewFrame] = "live"]
        /\ code' = [code EXCEPT ![NewFrame] = WriterOf(t),
                                ![t].at = "yield", ![t].buf = NewBuffer(t)]
     \/ /\ holder' = [holder EXCEPT ![w] = None]
        /\ frame' = [frame EXCEPT ![t] = "done", ![NewFrame] = "live"]
        /\ code' = [code EXCEPT ![NewFrame] = WriterOf(t), ![t].buf = <<>>]
        /\ sock[code[t].conn].in = <<>> /\ sock[code[t].conn].fin # "no"

LEMMA HandingEcho ==
  ASSUME EchoInv, NEW w \in Workers, NEW t \in Frames, On(w, t, "handler"), Handing(w, t)
  PROVE  EchoInv'
  <1>0. CoreInv(Nat)
    BY DEF EchoInv
  <1>c. PICK c \in Conns : c = code[t].conn
    BY <1>0, ServerFacts
  <1>f. PICK n \in Frames : n = NewFrame /\ frame[n] = "free"
    BY NewFrameIsFree DEF Handing
  <1> DEFINE a == IF frame'[t] = "done" THEN "run" ELSE "yield"
             empty == <<>>
             q == [code[t] EXCEPT !.at = a, !.buf = empty]
             new == WriterOf(t)
  <1>1. /\ holder[w] = t /\ t \in Tasks /\ n \in Tasks /\ frame[t] = "live" /\ t \in Serving(c)
        /\ t # n /\ n # Waiter /\ t # Waiter
        /\ code[t].kind = "handler" /\ code[t].at = "run"
        /\ code[t] \in Coroutines(Nat) /\ sock[c] \in Sockets(Nat)
        /\ code[t].buf \in Seq(Nat)
    BY <1>0, <1>c, <1>f, ServerFacts, ConstantsFacts DEF On
  <1>2. /\ frame'[n] = "live" /\ \A u \in Tasks \ {t, n} : frame'[u] = frame[u]
        /\ \/ /\ frame'[t] = "live" /\ holder' = holder
              /\ frame' = [frame EXCEPT ![n] = "live"]
           \/ /\ frame'[t] = "done" /\ holder' = [holder EXCEPT ![w] = None]
              /\ frame' = [frame EXCEPT ![n] = "live", ![t] = "done"]
              /\ sock[c].in = <<>> /\ sock[c].fin # "no"
    BY <1>0, <1>c, <1>f, <1>1 DEF Handing, CoreInv, PoolType
  <1>3. /\ new \in Coroutines(Nat) /\ new.kind = "writer" /\ new.conn = c
        /\ new.wakes = Waiting(n) + 1
        /\ new.buf = code[t].buf /\ new.size = Len(code[t].buf)
    BY <1>0, <1>c, <1>f, <1>1, NewWriter DEF Handing
  <1>4. code' = [code EXCEPT ![n] = new, ![t] = q]
    <2>1. NewBuffer(t) = empty
      BY <1>1 DEF NewBuffer
    <2>2. code \in [Tasks -> Coroutines(Nat)]
      BY <1>0 DEF CoreInv, DataType
    <2>3. CASE frame'[t] = "live"
      <3>1. code' = [code EXCEPT ![n] = new, ![t].at = "yield", ![t].buf = NewBuffer(t)]
        BY <1>0, <1>f, <1>1, <2>3 DEF Handing, CoreInv, PoolType
      <3> HIDE DEF new, empty
      <3> QED
        BY <1>1, <2>1, <2>2, <2>3, <3>1
    <2>4. CASE frame'[t] = "done"
      <3>1. code' = [code EXCEPT ![n] = new, ![t].buf = empty]
        BY <1>0, <1>f, <1>1, <2>4 DEF Handing, CoreInv, PoolType
      <3>2. q = [code[t] EXCEPT !.buf = empty]
        BY <1>1, <2>4 DEF Coroutines
      <3> HIDE DEF new, empty, q
      <3> QED
        BY <1>1, <2>2, <3>1, <3>2
    <2> QED
      BY <1>2, <2>3, <2>4
  <1> HIDE DEF new, a
  <1>5. /\ q \in Coroutines(Nat) /\ q.kind = "handler" /\ q.conn = c
        /\ q.wakes = code[t].wakes /\ q.buf = <<>>
    <2>1. a \in {"run", "yield"} /\ empty \in Seq(Nat) /\ empty = <<>>
      BY DEF a
    <2> HIDE DEF empty
    <2> QED
      BY <1>c, <1>1, <2>1 DEF Coroutines
  <1> HIDE DEF q, empty
  <1>6. /\ code' \in [Tasks -> Coroutines(Nat)]
        /\ code'[t] = q /\ code'[n] = new /\ \A u \in Tasks \ {t, n} : code'[u] = code[u]
    BY <1>0, <1>1, <1>3, <1>4, <1>5 DEF CoreInv, DataType
  <1>7. CoreInv(Nat)'
    <2>1. \A u \in Frames \ {n} : SameTask(u)
      BY <1>c, <1>1, <1>5, <1>6, ConstantsFacts DEF SameTask
    <2>2. code'[Waiter].at = code[Waiter].at
      BY <1>1, <1>6, ConstantsFacts
    <2>3. DataType(Nat)'
      BY <1>0, <1>6 DEF Handing, CoreInv, DataType
    <2>4. FreeFrames # {} /\ addTask(NewFrame) /\ UNCHANGED <<events, ready, sock, ended>>
      BY DEF Handing, epollVars
    <2>5. \/ holder' = holder /\ frame' = [frame EXCEPT ![n] = "live"]
          \/ /\ holder' = [holder EXCEPT ![w] = None]
             /\ frame' = [frame EXCEPT ![n] = "live", ![t] = "done"]
      BY <1>2
    <2>6. Spawning(w, t, Nat)
      BY <1>c, <1>f, <1>1, <1>3, <1>6, <2>1, <2>2, <2>3, <2>4, <2>5 DEF Spawning
    <2> QED
      BY <1>0, <2>6, SpawningKeeps
  <1>8. /\ \A u \in Frames \ {t, n} : frame'[u] = frame[u] /\ code'[u] = code[u]
        /\ sock' = sock
    BY <1>2, <1>6, ConstantsFacts DEF Handing
  <1>9. UnitInv(c)'
    <2> DEFINE B == Buffers(c)
               C == Buffers(c)'
    <2>1. /\ t \in DOMAIN B /\ n \notin DOMAIN B
          /\ DOMAIN C \ {t} = (DOMAIN B \ {t}) \cup {n}
          /\ C[n] = B[t]
          /\ t \in DOMAIN C => C[t] = <<>>
          /\ \A s \in DOMAIN B \ {t} : C[s] = B[s]
      <3>1. Serving(c)' \ {t} = (Serving(c) \ {t}) \cup {n}
        <4>1. n \in Serving(c)' /\ n \notin Serving(c)
          BY <1>f, <1>2, <1>3, <1>6 DEF Serving
        <4>2. \A u \in Frames \ {t, n} : u \in Serving(c)' <=> u \in Serving(c)
          BY <1>8 DEF Serving
        <4> QED
          BY <1>1, <4>1, <4>2 DEF Serving
      <3>2. n \in Serving(c)'
        BY <1>1, <3>1
      <3>3. \A s \in Serving(c) \ {t} : s \in Serving(c)' /\ code'[s] = code[s]
        BY <1>f, <1>8, <3>1 DEF Serving
      <3> QED
        BY <1>f, <1>1, <1>3, <1>5, <1>6, <3>1, <3>2, <3>3 DEF Buffers, Serving
    <2> SUFFICES ASSUME ~sock[c].short
                 PROVE  /\ NoneTwice(sock[c].in, sock[c].out, C, sock[c].put)
                        /\ sock[c].fin # "rst" =>
                             NoneLost(sock[c].in, sock[c].out, C, sock[c].put)
      BY <1>8 DEF UnitInv
    <2>2. /\ NoneTwice(sock[c].in, sock[c].out, B, sock[c].put)
          /\ sock[c].fin # "rst" => NoneLost(sock[c].in, sock[c].out, B, sock[c].put)
      BY DEF EchoInv, UnitInv
    <2> HIDE DEF B, C
    <2> QED
      BY <2>1, <2>2, HandsOver
  <1>10. \A d \in Conns \ {c} : UnitInv(d)'
    <2>1. \A u \in Frames : \/ frame'[u] = frame[u] /\ code'[u] = code[u]
                            \/ /\ frame[u] = "live" => code[u].conn = c
                               /\ frame'[u] = "live" => code'[u].conn = c
      BY <1>c, <1>f, <1>3, <1>5, <1>6, <1>8
    <2> QED
      BY <1>8, <2>1, OthersStay
  <1>11. EndInv'
    <2>1. \/ frame'[t] = "live" /\ code'[t].kind = "handler" /\ code'[t].conn = code[t].conn
          \/ sock'[code[t].conn].in = <<>> /\ sock'[code[t].conn].fin # "no"
      BY <1>c, <1>2, <1>5, <1>6, <1>8
    <2>2. \A u \in Frames : frame[u] = "live" /\ code[u].kind = "handler" =>
            \/ frame'[u] = "live" /\ code'[u].kind = "handler" /\ code'[u].conn = code[u].conn
            \/ sock'[code[u].conn].in = <<>> /\ sock'[code[u].conn].fin # "no"
      BY <1>f, <1>8, <2>1
    <2> QED
      BY <1>8, <2>2, EndStays
  <1>12. WriterInv'
    <2>1. code'[t].kind = "handler"
      BY <1>5, <1>6
    <2>2. code'[n].size = Len(code'[n].buf) /\ Len(code'[n].buf) \in Nat
      BY <1>1, <1>3, <1>6
    <2> QED
      BY <1>8, <2>1, <2>2 DEF EchoInv, WriterInv
  <1> QED
    BY <1>7, <1>9, <1>10, <1>11, <1>12 DEF EchoInv

(* EAGAIN: a coroutine that keeps what it holds polls through the          *)
(* scheduler.                                                              *)
LEMMA PollEcho ==
  ASSUME EchoInv, NEW w \in Workers, NEW t \in Frames, NEW kind, On(w, t, kind),
         code' = [code EXCEPT ![t].at = "yield"],
         UNCHANGED <<poolVars, frame, epollVars, sock, ended>>
  PROVE  EchoInv'
  <1> DEFINE q == [code[t] EXCEPT !.at = "yield"]
  <1>0. CoreInv(Nat)
    BY DEF EchoInv
  <1>1. /\ holder[w] = t /\ t \in Tasks /\ code[t] \in Coroutines(Nat)
        /\ ended \in {"no", "freed", "thrown", "sigpipe"}
    BY <1>0, ServerFacts
  <1>2. code' = [code EXCEPT ![t] = q]
    BY <1>0, <1>1 DEF CoreInv, DataType
  <1>3. /\ q \in Coroutines(Nat) /\ q.kind = code[t].kind /\ q.conn = code[t].conn
        /\ q.wakes = code[t].wakes /\ q.buf = code[t].buf /\ q.size = code[t].size
    BY <1>1 DEF Coroutines
  <1> HIDE DEF q
  <1>4. /\ code' \in [Tasks -> Coroutines(Nat)]
        /\ code'[t] = q /\ \A u \in Tasks \ {t} : code'[u] = code[u]
        /\ \A u \in Frames : SameTask(u)
        /\ code'[Waiter].at = code[Waiter].at
    BY <1>0, <1>2, <1>3, OneTask
  <1>5. CoreInv(Nat)'
    <2>1. \A d \in Conns : SameEnds(d)
      BY DEF SameEnds
    <2>2. DataType(Nat)'
      BY <1>0, <1>4 DEF CoreInv, DataType
    <2>3. Going(w, t, Nat)
      BY <1>1, <1>4, <2>1, <2>2 DEF Going, poolVars, epollVars
    <2> QED
      BY <1>0, <2>3, GoingKeeps
  <1>6. \A u \in Frames : /\ code'[u].kind = code[u].kind /\ code'[u].conn = code[u].conn
                          /\ code'[u].buf = code[u].buf /\ code'[u].size = code[u].size
    BY <1>3, <1>4, ConstantsFacts
  <1>7. \A d \in Conns : SameLines(d)
    BY DEF SameLines
  <1> QED
    BY <1>5, <1>6, <1>7, QuietEcho

(* The end of the stream, with an empty buffer whose writer is left out.   *)
LEMMA EndEcho ==
  ASSUME EchoInv, NEW w \in Workers, NEW t \in Frames, EchoEof(w, t), LeftOut(t)
  PROVE  EchoInv'
  <1>0. CoreInv(Nat)
    BY DEF EchoInv
  <1>c. PICK c \in Conns : c = code[t].conn
    BY <1>0, ServerFacts DEF EchoEof
  <1>1. /\ holder[w] = t /\ t \in Tasks /\ frame[t] = "live"
        /\ code[t].kind = "handler" /\ code[t].buf = <<>>
        /\ sock[c].in = <<>> /\ sock[c].fin # "no"
        /\ ended \in {"no", "freed", "thrown", "sigpipe"}
    BY <1>0, <1>c, ServerFacts, Results DEF EchoEof, LeftOut
  <1>2. /\ frame' = [frame EXCEPT ![t] = "done"] /\ holder' = [holder EXCEPT ![w] = None]
        /\ UNCHANGED <<binding, queue, code, events, ready, sock, ended>>
    BY DEF EchoEof, epollVars
  <1>3. CoreInv(Nat)'
    <2>1. \A d \in Conns : SameEnds(d)
      BY <1>2 DEF SameEnds
    <2>2. DataType(Nat)'
      BY <1>0, <1>2 DEF CoreInv, DataType
    <2>3. \A u \in Frames : SameTask(u)
      BY <1>2 DEF SameTask
    <2>4. Going(w, t, Nat)
      BY <1>1, <1>2, <2>1, <2>2, <2>3 DEF Going
    <2> QED
      BY <1>0, <2>4, GoingKeeps
  <1>4. frame'[t] = "done" /\ \A u \in Frames \ {t} : frame'[u] = frame[u]
    BY <1>0, <1>1, <1>2, ConstantsFacts DEF CoreInv, PoolType
  <1>5. \A d \in Conns : UnitInv(d)'
    <2> SUFFICES ASSUME NEW d \in Conns PROVE UnitInv(d)'
      OBVIOUS
    <2>1. SameLines(d)
      BY <1>2 DEF SameLines
    <2>2. SameBuffers(d)
      BY <1>1, <1>2, <1>4 DEF SameBuffers, Serving
    <2> QED
      BY <2>1, <2>2, UnitsStay DEF EchoInv
  <1>6. EndInv'
    <2>1. \A u \in Frames : frame[u] = "live" /\ code[u].kind = "handler" =>
            \/ frame'[u] = "live" /\ code'[u].kind = "handler" /\ code'[u].conn = code[u].conn
            \/ sock'[code[u].conn].in = <<>> /\ sock'[code[u].conn].fin # "no"
      BY <1>c, <1>1, <1>2, <1>4
    <2> QED
      BY <1>2, <2>1, EndStays
  <1>7. WriterInv'
    BY <1>2, <1>4 DEF EchoInv, WriterInv
  <1> QED
    BY <1>3, <1>5, <1>6, <1>7 DEF EchoInv

-----------------------------------------------------------------------------
(* The theorems.                                                           *)

LEMMA EchoStarts ==
  ASSUME Init
  PROVE  EchoInv
  <1>1. CoreInv(Nat)
    BY InitKeeps DEF Init
  <1>2. /\ frame = [t \in Tasks |-> IF t \in Frames THEN "free" ELSE "live"]
        /\ sock = [c \in Conns |-> NoSock]
    BY DEF Init, InitCore
  <1>3. \A c \in Conns : /\ Serving(c) = {} /\ sock[c].st = "none" /\ sock[c].put = 0
                         /\ sock[c].in = <<>> /\ sock[c].out = <<>>
    BY <1>2, ConstantsFacts DEF Serving, NoSock
  <1>4. \A c \in Conns : UnitInv(c)
    BY <1>3 DEF UnitInv, NoneTwice, NoneLost, Buffers, Elements, Once, Apart
  <1>5. EndInv
    BY <1>3 DEF EndInv
  <1>6. WriterInv
    BY <1>2, ConstantsFacts DEF WriterInv
  <1> QED
    BY <1>1, <1>4, <1>5, <1>6 DEF EchoInv

LEMMA ServerKeeps ==
  ASSUME EchoInv, NEW w \in Workers, NEW t \in Frames,
         \/ EchoRecv(w, t) \/ EchoAgain(w, t) \/ EchoEof(w, t) \/ EchoError(w, t)
         \/ \E n \in 0..MaxSends : WriterSend(w, t, n)
         \/ WriterAgain(w, t) \/ WriterError(w, t) \/ WriterSignal(w, t)
  PROVE  EchoInv'
  <1>0. CoreInv(Nat)
    BY DEF EchoInv
  <1>1. CASE EchoAgain(w, t)
    <2>1. On(w, t, "handler") /\ UNCHANGED <<holder, epollVars, sock, ended>>
      BY <1>1 DEF EchoAgain
    <2>2. CASE LeftOut(t)
      <3>1. code' = [code EXCEPT ![t].at = "yield"] /\ UNCHANGED <<poolVars, frame>>
        BY <1>1, <2>2 DEF EchoAgain, poolVars
      <3> QED
        BY <2>1, <3>1, PollEcho
    <2>3. CASE ~LeftOut(t)
      <3>1. Handing(w, t)
        BY <1>1, <2>3 DEF EchoAgain, Spawn, Handing
      <3> QED
        BY <2>1, <3>1, HandingEcho
    <2> QED
      BY <2>2, <2>3
  <1>2. CASE EchoEof(w, t)
    <2>1. CASE LeftOut(t)
      BY <1>2, <2>1, EndEcho
    <2>2. CASE ~LeftOut(t)
      <3>1. On(w, t, "handler") /\ ReadResult(code[t].conn) = "eof"
        BY <1>2 DEF EchoEof
      <3>2. sock[code[t].conn].in = <<>> /\ sock[code[t].conn].fin # "no"
        BY <1>0, <3>1, ServerFacts, Results
      <3>3. Handing(w, t)
        BY <1>2, <2>2, <3>2 DEF EchoEof, Handing
      <3> QED
        BY <3>1, <3>3, HandingEcho
    <2> QED
      BY <2>1, <2>2
  <1>3. CASE WriterAgain(w, t)
    BY <1>3, PollEcho DEF WriterAgain
  <1>4. CASE WriterSignal(w, t)
    <2>1. /\ UNCHANGED <<poolVars, frame, code, epollVars, sock>>
          /\ ended' \in {"freed", "thrown", "sigpipe"}
      BY <1>4 DEF WriterSignal
    <2>2. CoreInv(Nat)'
      BY <1>0, <2>1, EndingKeeps
    <2> QED
      BY <2>1, <2>2, OutsideEcho
  <1> QED
    BY <1>1, <1>2, <1>3, <1>4, RecvEcho, ErrorEcho, SendEcho

LEMMA WorkerEcho ==
  ASSUME EchoInv, NEW w \in Workers, Coroutine(w)
  PROVE  EchoInv'
  <1>1. \/ QuietLoop(w)
        \/ \E c \in Conns : Accept(w, c)
        \/ \E t \in Frames :
             \/ EchoRecv(w, t) \/ EchoAgain(w, t) \/ EchoEof(w, t) \/ EchoError(w, t)
             \/ \E n \in 0..MaxSends : WriterSend(w, t, n)
             \/ WriterAgain(w, t) \/ WriterError(w, t) \/ WriterSignal(w, t)
    BY DEF Coroutine, QuietLoop
  <1> QED
    BY <1>1, LoopEcho, AcceptEcho, ServerKeeps

(* EchoInv is an invariant of the server, whatever the numbers of workers, *)
(* frames, connections, descriptors and units.                             *)
THEOREM EchoInvariance == Spec => []EchoInv
  <1>1. Init => EchoInv
    BY EchoStarts
  <1>2. EchoInv /\ [Next]_coreVars => EchoInv'
    <2> SUFFICES ASSUME EchoInv, [Next]_coreVars PROVE EchoInv'
      OBVIOUS
    <2>0. CoreInv(Nat)
      BY DEF EchoInv
    <2>1. CASE UNCHANGED coreVars
      <3>1. CoreInv(Nat)'
        BY <2>0, <2>1, StutterKeeps
      <3> QED
        BY <2>1, <3>1, OutsideEcho DEF coreVars
    <2>2. CASE \E w \in Workers : Coroutine(w)
      BY <2>2, WorkerEcho
    <2>3. ASSUME NEW c \in Conns, Peer(c) PROVE EchoInv'
      <3>1. "fin" \in {"fin", "rst"}
        OBVIOUS
      <3> QED
        BY <2>3, <3>1, PeerEndEcho, PeerSendEcho DEF Peer
    <2>4. CASE Clean
      BY <2>4, CleanEcho
    <2>5. CASE TouchFreed
      <3>1. CoreInv(Nat)'
        BY <2>0, <2>5, TouchFreedKeeps
      <3> QED
        BY <2>5, <3>1, OutsideEcho DEF TouchFreed
    <2> QED
      BY <2>1, <2>2, <2>3, <2>4, <2>5 DEF Next
  <1> QED
    BY <1>1, <1>2, PTL DEF Spec

(* No resumption is lost: what was added to a coroutine since it was made  *)
(* is in its worker's queue, or the worker is inside of it.                *)
THEOREM EchoWakesKept == Spec => []WakesKept
  <1>1. EchoInv => WakesKept
    BY CoreTypes DEF EchoInv
  <1> QED
    BY <1>1, EchoInvariance, PTL

(* An open connection on which something arrived, and whose handler has no *)
(* resumption to come, has an event that is still to come.                 *)
THEOREM EchoFirstEventComes == Spec => []FirstEventComes
  <1>1. EchoInv => FirstEventComes
    BY DEF EchoInv, CoreInv
  <1> QED
    BY <1>1, EchoInvariance, PTL

(* The echo: each unit that a peer has sent is in one place, unless a send *)
(* was short, and lost at most with a reset.                               *)
THEOREM EchoEachUnitOnce == Spec => []EachUnitOnce
  <1>1. EchoInv => EachUnitOnce
    <2> SUFFICES ASSUME EchoInv, NEW c \in Conns, ~sock[c].short, NEW u \in 1..sock[c].put
                 PROVE  IF sock[c].fin = "rst" THEN Cardinality(Places(c, u)) <= 1
                        ELSE Cardinality(Places(c, u)) = 1
      BY DEF EachUnitOnce
    <2> DEFINE in == sock[c].in
               out == sock[c].out
               B == Buffers(c)
               p == sock[c].put
               P == Places(c, u)
    <2>1. /\ NoneTwice(in, out, B, p)
          /\ sock[c].fin # "rst" => NoneLost(in, out, B, p)
      BY DEF EchoInv, UnitInv
    <2>2. /\ DOMAIN B = Serving(c) /\ \A t \in Serving(c) : B[t] = code[t].buf
      BY DEF Buffers
    <2>3. P = {<<"in", i>> : i \in Positions(in, u)}
                \cup {<<"out", i>> : i \in Positions(out, u)}
                \cup UNION {{<<t, i>> : i \in Positions(B[t], u)} : t \in DOMAIN B}
      <3> HIDE DEF B
      <3> DEFINE InBuffer(t) == {<<t, i>> : i \in Positions(B[t], u)}
                 InFrame(t) == {<<t, i>> : i \in Positions(code[t].buf, u)}
      <3>1. \A t \in DOMAIN B : InBuffer(t) = InFrame(t)
        BY <2>2
      <3>2. UNION {InBuffer(t) : t \in DOMAIN B} = UNION {InFrame(t) : t \in Serving(c)}
        <4> HIDE DEF InBuffer, InFrame
        <4> QED
          BY <2>2, <3>1
      <3> QED
        BY <3>2, Zenon DEF Places, in, out, P
    <2>4. \A s : \A i \in Positions(s, u) : i \in 1..Len(s) /\ s[i] = u /\ u \in Elements(s)
      BY DEF Positions, Elements
    <2>5. \A s : u \in Elements(s) => \E i \in 1..Len(s) : i \in Positions(s, u)
      BY DEF Positions, Elements
    <2> HIDE DEF in, out, B, p, P
    <2>6. ASSUME NEW x \in P
          PROVE  \/ u \in Elements(in) /\ \E i \in Positions(in, u) : x = <<"in", i>>
                 \/ u \in Elements(out) /\ \E i \in Positions(out, u) : x = <<"out", i>>
                 \/ \E t \in DOMAIN B : /\ u \in Elements(B[t])
                                        /\ \E i \in Positions(B[t], u) : x = <<t, i>>
      BY <2>3, <2>4
    <2>7. \A s : Once(s) => \A i, j \in Positions(s, u) : i = j
      BY DEF Positions, Once
    <2>8. ASSUME NEW x \in P, NEW y \in P PROVE x = y
      <3>1. u \in Elements(in) => u \notin Elements(out) /\ \A t \in DOMAIN B : u \notin Elements(B[t])
        BY <2>1 DEF NoneTwice, Apart
      <3>2. u \in Elements(out) => \A t \in DOMAIN B : u \notin Elements(B[t])
        BY <2>1 DEF NoneTwice, Apart
      <3>3. \A t, s \in DOMAIN B : u \in Elements(B[t]) /\ u \in Elements(B[s]) => t = s
        BY <2>1 DEF NoneTwice, Apart
      <3>4. CASE u \in Elements(in)
        <4>1. \A i, j \in Positions(in, u) : i = j
          BY <2>1, <2>7 DEF NoneTwice
        <4> QED
          BY <2>6, <3>1, <3>4, <4>1
      <3>5. CASE u \in Elements(out)
        <4>1. \A i, j \in Positions(out, u) : i = j
          BY <2>1, <2>7 DEF NoneTwice
        <4> QED
          BY <2>6, <3>1, <3>2, <3>5, <4>1
      <3>6. CASE u \notin Elements(in) /\ u \notin Elements(out)
        <4>1. PICK t \in DOMAIN B : u \in Elements(B[t])
                                    /\ \E i \in Positions(B[t], u) : x = <<t, i>>
          BY <2>6, <3>6
        <4>2. \E i \in Positions(B[t], u) : y = <<t, i>>
          BY <2>6, <3>3, <3>6, <4>1
        <4>3. \A i, j \in Positions(B[t], u) : i = j
          BY <2>1, <2>7 DEF NoneTwice
        <4> QED
          BY <4>1, <4>2, <4>3
      <3> QED
        BY <3>4, <3>5, <3>6
    <2>9. P = {} \/ \E x : P = {x}
      BY <2>8
    <2>10. sock[c].fin # "rst" => P # {}
      <3> SUFFICES ASSUME NoneLost(in, out, B, p) PROVE P # {}
        BY <2>1
      <3>1. \/ u \in Elements(in) \/ u \in Elements(out)
            \/ \E t \in DOMAIN B : u \in Elements(B[t])
        BY DEF NoneLost, p
      <3>2. CASE u \in Elements(in)
        <4>1. PICK i : i \in Positions(in, u)
          BY <2>5, <3>2
        <4>2. <<"in", i>> \in P
          BY <2>3, <4>1
        <4> QED
          BY <4>2
      <3>3. CASE u \in Elements(out)
        <4>1. PICK i : i \in Positions(out, u)
          BY <2>5, <3>3
        <4>2. <<"out", i>> \in P
          BY <2>3, <4>1
        <4> QED
          BY <4>2
      <3>4. CASE \E t \in DOMAIN B : u \in Elements(B[t])
        <4>1. PICK t \in DOMAIN B : u \in Elements(B[t])
          BY <3>4
        <4>2. PICK i : i \in Positions(B[t], u)
          BY <2>5, <4>1
        <4>3. <<t, i>> \in P
          BY <2>3, <4>2
        <4> QED
          BY <4>3
      <3> QED
        BY <3>1, <3>2, <3>3, <3>4
    <2>11. Cardinality(P) = 0 \/ Cardinality(P) = 1
      BY <2>9, FS_EmptySet, FS_Singleton
    <2>12. P # {} => Cardinality(P) = 1
      BY <2>9, FS_Singleton
    <2> QED
      BY <2>10, <2>11, <2>12 DEF P
  <1> QED
    BY <1>1, EchoInvariance, PTL

=============================================================================
