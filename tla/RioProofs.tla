------------------------------- MODULE RioProofs ------------------------------
(***************************************************************************)
(* Proofs about a connection, for any addresses, buffers, bounds on what is*)
(* in flight and numbers of lines: neither end leaks a socket or gives up  *)
(* without a reason, no call overruns its buffer, and Rio keeps the stream.*)
(***************************************************************************)
EXTENDS Rio, CountingProofs, SequenceTheorems

----------------------------------------------------------------------------
(* Sequences *)

LEMMA Cut ==
  ASSUME NEW S, NEW s \in Seq(S), NEW k \in 0 .. Len(s)
  PROVE  /\ SubSeq(s, 1, k) \in Seq(S) /\ SubSeq(s, k + 1, Len(s)) \in Seq(S)
         /\ Len(SubSeq(s, 1, k)) = k /\ Len(SubSeq(s, k + 1, Len(s))) = Len(s) - k
         /\ SubSeq(s, 1, k) \o SubSeq(s, k + 1, Len(s)) = s
  <1>1. Len(s) \in Nat /\ k \in Nat /\ k <= Len(s)
    BY LenProperties
  <1>2. \A j \in 1 .. Len(s) : s[j] \in S
    BY LenProperties
  <1> DEFINE len == Len(s)
  <1>3. /\ SubSeq(s, 1, k) \in Seq(S)
        /\ Len(SubSeq(s, 1, k)) = IF 1 <= k THEN k - 1 + 1 ELSE 0
    <2>1. 1 \in Int /\ k \in Int /\ \A j \in 1 .. k : s[j] \in S
      BY <1>1, <1>2
    <2> QED
      BY <2>1, SubSeqProperties
  <1>4. /\ SubSeq(s, k + 1, len) \in Seq(S)
        /\ Len(SubSeq(s, k + 1, len)) = IF k + 1 <= len THEN len - (k + 1) + 1 ELSE 0
    <2>1. k + 1 \in Int /\ len \in Int /\ \A j \in k + 1 .. len : s[j] \in S
      BY <1>1, <1>2
    <2> HIDE DEF len
    <2> QED
      BY <2>1, SubSeqProperties
  <1>5. SubSeq(s, 1, k) \o SubSeq(s, k + 1, len) = SubSeq(s, 1, len)
    <2>1. 1 \in 1 .. len + 1 /\ k \in 1 - 1 .. len /\ len \in k .. len
      BY <1>1
    <2> QED
      BY <2>1, ConcatAdjacentSubSeq
  <1>6. SubSeq(s, 1, len) = s
    BY SubSeqFull
  <1>7. (IF 1 <= k THEN k - 1 + 1 ELSE 0) = k
    BY <1>1
  <1>8. (IF k + 1 <= len THEN len - (k + 1) + 1 ELSE 0) = len - k
    <2>1. len \in Nat /\ k <= len
      BY <1>1
    <2> HIDE DEF len
    <2> QED
      BY <1>1, <2>1
  <1>9. Len(SubSeq(s, 1, k)) = k
    BY ONLY <1>3, <1>7
  <1>10. Len(SubSeq(s, k + 1, len)) = len - k
    BY ONLY <1>4, <1>8
  <1> QED
    BY <1>3, <1>4, <1>5, <1>6, <1>9, <1>10, Zenon

LEMMA Appended ==
  ASSUME NEW S, NEW f \in Seq(S), NEW d \in Seq(S)
  PROVE  /\ f \o d \in Seq(S) /\ Len(f \o d) = Len(f) + Len(d)
         /\ \A k \in 1 .. Len(f) : (f \o d)[k] = f[k]
         /\ \A k \in 1 .. Len(d) : (f \o d)[Len(f) + k] = d[k]
  <1>1. Len(f) \in Nat /\ Len(d) \in Nat
    BY LenProperties
  <1>2. /\ f \o d \in Seq(S) /\ Len(f \o d) = Len(f) + Len(d)
        /\ \A k \in 1 .. Len(f) + Len(d) : (f \o d)[k] = IF k <= Len(f) THEN f[k]
                                                         ELSE d[k - Len(f)]
    BY ConcatProperties
  <1>3. \A k \in 1 .. Len(f) : (f \o d)[k] = f[k]
    BY <1>1, <1>2
  <1>4. \A k \in 1 .. Len(d) : (f \o d)[Len(f) + k] = d[k]
    <2> TAKE k \in 1 .. Len(d)
    <2> DEFINE m == Len(f)
    <2>1. m + k \in 1 .. m + Len(d) /\ ~(m + k <= m) /\ m + k - m = k
      BY <1>1
    <2> HIDE DEF m
    <2>2. (f \o d)[m + k] = d[m + k - m]
      BY <1>2, <2>1 DEF m
    <2> QED
      BY <2>1, <2>2 DEF m
  <1> QED
    BY <1>2, <1>3, <1>4

(* The four parts of a stream.                                             *)
LEMMA Parts ==
  ASSUME NEW S, NEW a \in Seq(S), NEW b \in Seq(S), NEW c \in Seq(S), NEW d \in Seq(S)
  PROVE  /\ a \o b \o c \o d \in Seq(S) /\ a \o b \o c \in Seq(S) /\ a \o b \in Seq(S)
         /\ Len(a \o b \o c \o d) = Len(a \o b \o c) + Len(d)
         /\ Len(a \o b \o c) = Len(a) + Len(b) + Len(c)
         /\ \A k \in 1 .. Len(a \o b \o c) : (a \o b \o c \o d)[k] = (a \o b \o c)[k]
         /\ \A k \in 1 .. Len(d) : (a \o b \o c \o d)[Len(a \o b \o c) + k] = d[k]
  <1>1. a \o b \in Seq(S) /\ Len(a \o b) = Len(a) + Len(b)
    BY ConcatProperties
  <1>2. a \o b \o c \in Seq(S) /\ Len(a \o b \o c) = Len(a) + Len(b) + Len(c)
    BY <1>1, ConcatProperties
  <1> DEFINE f == a \o b \o c
  <1>3. f \in Seq(S)
    BY <1>2
  <1> HIDE DEF f
  <1>4. /\ f \o d \in Seq(S) /\ Len(f \o d) = Len(f) + Len(d)
        /\ \A k \in 1 .. Len(f) : (f \o d)[k] = f[k]
        /\ \A k \in 1 .. Len(d) : (f \o d)[Len(f) + k] = d[k]
    BY ONLY <1>3, d \in Seq(S), Appended
  <1> QED
    BY <1>1, <1>2, <1>4 DEF f

LEMMA Regrouped ==
  ASSUME NEW S, NEW s \in Seq(S), NEW t \in Seq(S), NEW u \in Seq(S)
  PROVE  (s \o t) \o u = s \o (t \o u)
  BY ConcatAssociative

----------------------------------------------------------------------------
USE SocketsAssumption, RioAssumption

----------------------------------------------------------------------------
(* The inductive invariant of the sockets *)

SockTypes ==
    /\ stage \in [Ends -> {"start", "walk", "use", "listen", "ready", "failed", "accepted"}]
    /\ p \in [Ends -> Nat]
    /\ fd \in [Ends -> Nat]
    /\ open \in [Ends -> SUBSET (3 .. 5)]
    /\ listening \in BOOLEAN /\ excused \in BOOLEAN
    /\ stage["client"] \notin {"listen", "accepted"}

(* A client that has no reason to fail has an address before it where the  *)
(* server listens, which goes on listening.                                *)
Hopeful ==
    /\ listening => stage["server"] \in {"ready", "accepted"}
    /\ stage["client"] = "start" => p["client"] = 1
    /\ stage["client"] \in {"walk", "use"} /\ ~excused =>
          \E k \in p["client"] .. Len(Addresses["client"]) : Reached(Addresses["client"][k])

SockInv == SockTypes /\ SetUpSound /\ Hopeful

----------------------------------------------------------------------------
(* The inductive invariant of the stream *)

RioTypes ==
    /\ reader \in {"readnb", "readlineb"}
    /\ call \in [Ends -> {"fgets", "writen", "readnb", "readlineb", "closed", "killed"}]
    /\ call["client"] \in {"fgets", "writen", reader, "closed", "killed"}
    /\ call["server"] \in {"writen", "readlineb", "closed", "killed"}
    /\ out \in [Ends -> Seq(Bytes)] /\ net \in [Ends -> Seq(Bytes)]
    /\ rio \in [Ends -> Seq(Bytes)] /\ usr \in [Ends -> Seq(Bytes)]
    /\ given \in [Ends -> Nat] /\ got \in [Ends -> Nat]
    /\ asked \in 0 .. Orders /\ cut \in BOOLEAN /\ shown \in 0 .. asked
    /\ call["client"] \in {"writen", "readnb", "readlineb"} => shown < asked

(* The limits of the buffers, and when they are in use at all.             *)
Buffered ==
    /\ \A e \in Ends : Len(rio[e]) <= RIO_BUFSIZE
    /\ \A e \in Ends : Len(usr[e]) <= IF call[e] = "readlineb" THEN MAXLINE - 1 ELSE MAXLINE
    /\ \A e \in Ends : usr[e] # <<>> => Reading(e)
    /\ \A e \in Ends : out[Peer(e)] # <<>> <=> call[e] = "writen"

(* The first two parts of StreamKept.                                      *)
Streamed ==
    /\ \A e \in Ends : ~Gone(e) =>
         \A k \in 1 .. Len(Pending(e)) : Pending(e)[k].at = got[e] + k
    /\ \A e \in Ends : ~Gone("client") /\ ~Gone("server") =>
         got[e] + Len(Pending(e)) = given[e]

(* At most a line, which ends with its only newline if it has one.         *)
OneLine(s) == /\ Len(s) \in 1 .. MAXLINE - 1
              /\ \A k \in 1 .. Len(s) - 1 : s[k].ch # "end"

(* A client that reads whole answers and the server take turns: all that is*)
(* on its way is one line, or one answer, or nothing.                      *)
Turns == reader = "readnb" /\ ~Gone("client") /\ ~Gone("server") =>
    \/ /\ call["client"] = "fgets" /\ call["server"] = "readlineb"
       /\ Pending("client") = <<>> /\ Pending("server") = <<>>
       /\ given["client"] = asked * MAXLINE
    \/ /\ call["client"] \in {"writen", "readnb"} /\ call["server"] = "readlineb"
       /\ Pending("client") = <<>> /\ OneLine(Pending("server"))
       /\ given["client"] = (asked - 1) * MAXLINE
    \/ /\ call["client"] = "readnb"
       /\ Len(Pending("client")) = MAXLINE /\ Pending("server") = <<>>
       /\ given["client"] = asked * MAXLINE

RioInv == RioTypes /\ Buffered /\ Streamed /\ Turns

IInv == SockInv /\ RioInv
----------------------------------------------------------------------------
(* Sockets *)

LEMMA TwoEnds ==
  /\ Ends = {"client", "server"} /\ "client" \in Ends /\ "server" \in Ends
  /\ \A e \in Ends : Addresses[e] \in Seq(DOMAIN Serves) /\ Len(Addresses[e]) \in Nat
                     /\ DOMAIN Addresses[e] = 1 .. Len(Addresses[e])
  BY LenProperties DEF Ends

(* There is a free descriptor while a process has one socket or none.      *)
LEMMA FreeFd ==
  ASSUME SockTypes, NEW e \in Ends, open[e] = {} \/ \E d : open[e] = {d}
  PROVE  NewFd(e) \in 3 .. 5 /\ NewFd(e) \notin open[e]
  <1> DEFINE free == (3 .. 5) \ open[e]
  <1>1. free \subseteq Nat
    OBVIOUS
  <1>2. free # {}
    <2>1. 3 \in 3 .. 5 /\ 4 \in 3 .. 5 /\ 3 # 4
      OBVIOUS
    <2>2. 3 \notin open[e] \/ 4 \notin open[e]
      BY <2>1
    <2> QED
      BY <2>1, <2>2
  <1> HIDE DEF free
  <1>3. Min(free) \in free
    BY <1>1, <1>2, MinIsLeast
  <1> QED
    BY <1>3 DEF NewFd, free

(* Nothing that decides where the server can be reached changes.           *)
LEMMA StillReached ==
  ASSUME UNCHANGED <<bound, listening>>, NEW a
  PROVE  Reached(a)' <=> Reached(a)
  BY DEF Reached

LEMMA GetaddrinfoStep ==
  ASSUME SockInv, NEW e \in Ends, Getaddrinfo(e)
  PROVE  SockInv'
  <1>1. /\ stage[e] = "start" /\ UNCHANGED <<p, fd, open, bound, listening>>
        /\ stage' = [stage EXCEPT ![e] = "walk"] \/ stage' = [stage EXCEPT ![e] = "failed"]
    BY DEF Getaddrinfo, Go
  <1>2. \A x \in Ends : stage'[x] = IF x = e THEN stage'[e] ELSE stage[x]
    BY <1>1 DEF SockInv, SockTypes
  <1>3. stage'[e] \in {"walk", "failed"}
    BY <1>1 DEF SockInv, SockTypes
  <1>4. excused' = IF e = "client"
                   THEN \/ stage'[e] = "failed"
                        \/ \A k \in DOMAIN Addresses[e] : ~Reached(Addresses[e][k])
                   ELSE excused
    BY DEF Getaddrinfo
  <1>5. excused' \in BOOLEAN
    BY <1>4 DEF SockInv, SockTypes
  <1>6. SockTypes'
    BY <1>1, <1>2, <1>3, <1>5, TwoEnds DEF SockInv, SockTypes
  <1>7. SetUpSound'
    BY <1>1, <1>2, <1>3, <1>4, TwoEnds DEF SockInv, SetUpSound
  <1>8. Hopeful'
    <2>1. listening' => stage'["server"] \in {"ready", "accepted"}
      BY <1>1, <1>2, TwoEnds DEF SockInv, Hopeful
    <2>2. stage'["client"] = "start" => p'["client"] = 1
      BY <1>1, <1>2, <1>3, TwoEnds DEF SockInv, Hopeful
    <2>3. ASSUME stage'["client"] \in {"walk", "use"}, ~excused'
          PROVE  \E k \in p'["client"] .. Len(Addresses["client"]) :
                    Reached(Addresses["client"][k])'
      <3>1. CASE e = "client"
        <4>1. PICK k \in DOMAIN Addresses[e] : Reached(Addresses[e][k])
          BY <1>4, <2>3, <3>1
        <4>2. p["client"] = 1 /\ DOMAIN Addresses["client"] = 1 .. Len(Addresses["client"])
          BY <1>1, <3>1, TwoEnds DEF SockInv, Hopeful
        <4> QED
          BY <1>1, <3>1, <4>1, <4>2, StillReached
      <3>2. CASE e # "client"
        BY <1>1, <1>2, <1>4, <2>3, <3>2, StillReached, TwoEnds DEF SockInv, Hopeful
      <3> QED
        BY <3>1, <3>2
    <2> QED
      BY <2>1, <2>2, <2>3 DEF Hopeful
  <1> QED
    BY <1>6, <1>7, <1>8 DEF SockInv

LEMMA SocketStep ==
  ASSUME SockInv, NEW e \in Ends, Socket(e)
  PROVE  SockInv'
  <1>1. /\ stage[e] = "walk" /\ p[e] <= Len(Addresses[e]) /\ UNCHANGED <<bound, listening>>
        /\ open[e] = {} /\ p[e] \in Nat
    BY DEF Socket, SockInv, SetUpSound, SockTypes
  <1>2. CASE /\ fd' = [fd EXCEPT ![e] = NewFd(e)]
             /\ open' = [open EXCEPT ![e] = @ \cup {NewFd(e)}]
             /\ stage' = [stage EXCEPT ![e] = "use"]
             /\ UNCHANGED <<p, excused>>
    <2>1. NewFd(e) \in 3 .. 5
      BY <1>1, FreeFd DEF SockInv
    <2>2. /\ \A x \in Ends : stage'[x] = IF x = e THEN "use" ELSE stage[x]
          /\ \A x \in Ends : fd'[x] = IF x = e THEN NewFd(e) ELSE fd[x]
          /\ \A x \in Ends : open'[x] = IF x = e THEN {NewFd(e)} ELSE open[x]
      BY <1>1, <1>2 DEF SockInv, SockTypes
    <2>3. SockTypes'
      BY <1>1, <1>2, <2>1, <2>2, TwoEnds DEF SockInv, SockTypes
    <2>4. SetUpSound'
      BY <1>1, <1>2, <2>2, TwoEnds DEF SockInv, SetUpSound
    <2>5. Hopeful'
      BY <1>1, <1>2, <2>2, StillReached, TwoEnds DEF SockInv, Hopeful
    <2> QED
      BY <2>3, <2>4, <2>5 DEF SockInv
  <1>3. CASE /\ p' = [p EXCEPT ![e] = @ + 1]
             /\ excused' = (excused \/ (e = "client" /\ Reached(Address(e))))
             /\ UNCHANGED <<stage, fd, open>>
    <2>1. \A x \in Ends : p'[x] = IF x = e THEN p[e] + 1 ELSE p[x]
      BY <1>3 DEF SockInv, SockTypes
    <2>2. SockTypes'
      BY <1>1, <1>3 DEF SockInv, SockTypes
    <2>3. SetUpSound'
      BY <1>3 DEF SockInv, SetUpSound
    <2>4. Hopeful'
      <3>1. ASSUME stage["client"] \in {"walk", "use"}, ~excused'
            PROVE  \E k \in p'["client"] .. Len(Addresses["client"]) :
                      Reached(Addresses["client"][k])'
        <4>1. PICK k \in p["client"] .. Len(Addresses["client"]) : Reached(Addresses["client"][k])
          BY <1>3, <3>1 DEF SockInv, Hopeful
        <4>2. e = "client" => k # p["client"]
          BY <1>3, <3>1, <4>1 DEF Address
        <4>3. k \in p'["client"] .. Len(Addresses["client"])
          BY <1>1, <2>1, <4>2, TwoEnds DEF SockInv, SockTypes
        <4> QED
          BY <1>1, <4>1, <4>3, StillReached
      <3>2. stage["client"] = "start" => p'["client"] = 1
        BY <1>1, <2>1, TwoEnds DEF SockInv, Hopeful
      <3> QED
        BY <1>1, <1>3, <3>1, <3>2 DEF SockInv, Hopeful
    <2> QED
      BY <2>2, <2>3, <2>4 DEF SockInv
  <1> QED
    BY <1>2, <1>3 DEF Socket, Go

LEMMA WalkEndsStep ==
  ASSUME SockInv, NEW e \in Ends, WalkEnds(e)
  PROVE  SockInv'
  <1>1. /\ stage[e] = "walk" /\ p[e] > Len(Addresses[e])
        /\ stage' = [stage EXCEPT ![e] = "failed"] /\ p' = [p EXCEPT ![e] = 1]
        /\ UNCHANGED <<fd, open, bound, listening, excused>>
    BY DEF WalkEnds, Returned, Go
  <1>2. /\ \A x \in Ends : stage'[x] = IF x = e THEN "failed" ELSE stage[x]
        /\ \A x \in Ends : p'[x] = IF x = e THEN 1 ELSE p[x]
    BY <1>1 DEF SockInv, SockTypes
  <1>3. SockTypes'
    BY <1>1, <1>2, TwoEnds DEF SockInv, SockTypes
  <1>4. e = "client" => excused
    BY <1>1, TwoEnds DEF SockInv, SockTypes, Hopeful
  <1>5. SetUpSound'
    BY <1>1, <1>2, <1>4, TwoEnds DEF SockInv, SetUpSound
  <1>6. Hopeful'
    BY <1>1, <1>2, StillReached, TwoEnds DEF SockInv, Hopeful
  <1> QED
    BY <1>3, <1>5, <1>6 DEF SockInv

(* The socket that did not work is closed and the walk goes on behind an   *)
(* address that was not reached.                                           *)
LEMMA TryNextStep ==
  ASSUME SockInv, NEW e \in Ends, stage[e] = "use", TryNext(e),
         e = "client" => ~Reached(Address(e)), UNCHANGED <<bound, listening, excused>>
  PROVE  SockInv'
  <1>1. /\ open' = [open EXCEPT ![e] = @ \ {fd[e]}] /\ fd' = [fd EXCEPT ![e] = 0]
        /\ p' = [p EXCEPT ![e] = @ + 1] /\ stage' = [stage EXCEPT ![e] = "walk"]
    BY DEF TryNext, Go
  <1>2. /\ open[e] = {fd[e]} /\ p[e] \in Nat
    BY DEF SockInv, SockTypes, SetUpSound
  <1>3. /\ \A x \in Ends : stage'[x] = IF x = e THEN "walk" ELSE stage[x]
        /\ \A x \in Ends : p'[x] = IF x = e THEN p[e] + 1 ELSE p[x]
        /\ \A x \in Ends : open'[x] = IF x = e THEN {} ELSE open[x]
        /\ \A x \in Ends : fd'[x] = IF x = e THEN 0 ELSE fd[x]
    BY <1>1, <1>2 DEF SockInv, SockTypes
  <1>4. SockTypes'
    BY <1>1, <1>2, <1>3, TwoEnds DEF SockInv, SockTypes
  <1>5. SetUpSound'
    BY <1>3, TwoEnds DEF SockInv, SetUpSound
  <1>6. Hopeful'
    <2>1. listening => stage'["server"] \in {"ready", "accepted"}
      BY <1>3, TwoEnds DEF SockInv, Hopeful
    <2>2. stage'["client"] = "start" => p'["client"] = 1
      BY <1>3, TwoEnds DEF SockInv, Hopeful
    <2>3. ASSUME stage'["client"] \in {"walk", "use"}, ~excused
          PROVE  \E k \in p'["client"] .. Len(Addresses["client"]) :
                    Reached(Addresses["client"][k])'
      <3>1. stage["client"] \in {"walk", "use"}
        BY <1>3, <2>3, TwoEnds
      <3>2. PICK k \in p["client"] .. Len(Addresses["client"]) : Reached(Addresses["client"][k])
        BY <2>3, <3>1 DEF SockInv, Hopeful
      <3>3. e = "client" => k # p["client"]
        BY <3>2 DEF Address
      <3>4. k \in p'["client"] .. Len(Addresses["client"])
        BY <1>2, <1>3, <3>3, TwoEnds DEF SockInv, SockTypes
      <3> QED
        BY <3>2, <3>4, StillReached
    <2> QED
      BY <2>1, <2>2, <2>3 DEF Hopeful
  <1> QED
    BY <1>4, <1>5, <1>6 DEF SockInv

LEMMA ConnectStep ==
  ASSUME SockInv, Connect
  PROVE  SockInv'
  <1>1. stage["client"] = "use" /\ UNCHANGED <<bound, listening>>
    BY DEF Connect
  <1>2. CASE Reached(Address("client"))
    <2>1. /\ stage' = [stage EXCEPT !["client"] = "ready"] /\ p' = [p EXCEPT !["client"] = 1]
          /\ excused' = FALSE /\ UNCHANGED <<fd, open>>
      BY <1>2 DEF Connect, Returned, Go
    <2>2. /\ \A x \in Ends : stage'[x] = IF x = "client" THEN "ready" ELSE stage[x]
          /\ \A x \in Ends : p'[x] = IF x = "client" THEN 1 ELSE p[x]
      BY <2>1 DEF SockInv, SockTypes
    <2>3. SockTypes'
      BY <1>1, <2>1, <2>2, TwoEnds DEF SockInv, SockTypes
    <2>4. SetUpSound'
      BY <1>1, <2>1, <2>2, TwoEnds DEF SockInv, SetUpSound
    <2>5. Hopeful'
      BY <1>1, <2>1, <2>2, TwoEnds DEF SockInv, Hopeful
    <2> QED
      BY <2>3, <2>4, <2>5 DEF SockInv
  <1>3. CASE ~Reached(Address("client"))
    BY <1>1, <1>3, TryNextStep, TwoEnds DEF Connect
  <1> QED
    BY <1>2, <1>3

LEMMA BindStep ==
  ASSUME SockInv, Bind
  PROVE  SockInv'
  <1>1. stage["server"] = "use" /\ UNCHANGED <<listening, excused>> /\ ~listening
    BY DEF Bind, SockInv, Hopeful
  <1>2. CASE /\ stage' = [stage EXCEPT !["server"] = "listen"] /\ p' = [p EXCEPT !["server"] = 1]
             /\ UNCHANGED <<fd, open>>
    <2>1. /\ \A x \in Ends : stage'[x] = IF x = "server" THEN "listen" ELSE stage[x]
          /\ \A x \in Ends : p'[x] = IF x = "server" THEN 1 ELSE p[x]
      BY <1>2 DEF SockInv, SockTypes
    <2>2. SockTypes'
      BY <1>1, <1>2, <2>1, TwoEnds DEF SockInv, SockTypes
    <2>3. SetUpSound'
      BY <1>1, <1>2, <2>1, TwoEnds DEF SockInv, SetUpSound
    <2>4. Hopeful'
      BY <1>1, <2>1, TwoEnds DEF SockInv, Hopeful, Reached
    <2> QED
      BY <2>2, <2>3, <2>4 DEF SockInv
  <1>3. CASE TryNext("server") /\ UNCHANGED bound
    BY <1>1, <1>3, TryNextStep, TwoEnds
  <1> QED
    BY <1>2, <1>3 DEF Bind, Returned, Go

LEMMA ListenStep ==
  ASSUME SockInv, Listen
  PROVE  SockInv'
  <1>1. stage["server"] = "listen" /\ UNCHANGED <<p, excused>> /\ ~listening
    BY DEF Listen, SockInv, Hopeful
  <1>2. open["server"] = {fd["server"]}
    BY <1>1, TwoEnds DEF SockInv, SetUpSound
  <1>3. stage["client"] \in {"walk", "use"} => excused
    BY <1>1 DEF SockInv, Hopeful, Reached
  <1>4. CASE /\ listening' = TRUE /\ stage' = [stage EXCEPT !["server"] = "ready"]
             /\ UNCHANGED <<fd, open, bound>>
    <2>1. \A x \in Ends : stage'[x] = IF x = "server" THEN "ready" ELSE stage[x]
      BY <1>4 DEF SockInv, SockTypes
    <2>2. SockTypes'
      BY <1>1, <1>4, <2>1, TwoEnds DEF SockInv, SockTypes
    <2>3. SetUpSound'
      BY <1>1, <1>4, <2>1, TwoEnds DEF SockInv, SetUpSound
    <2>4. Hopeful'
      BY <1>1, <1>3, <2>1, TwoEnds DEF SockInv, Hopeful
    <2> QED
      BY <2>2, <2>3, <2>4 DEF SockInv
  <1>5. CASE /\ open' = [open EXCEPT !["server"] = @ \ {fd["server"]}]
             /\ fd' = [fd EXCEPT !["server"] = 0]
             /\ stage' = [stage EXCEPT !["server"] = "failed"]
             /\ UNCHANGED listening
    <2>1. /\ \A x \in Ends : stage'[x] = IF x = "server" THEN "failed" ELSE stage[x]
          /\ \A x \in Ends : open'[x] = IF x = "server" THEN {} ELSE open[x]
          /\ \A x \in Ends : fd'[x] = IF x = "server" THEN 0 ELSE fd[x]
      BY <1>2, <1>5 DEF SockInv, SockTypes
    <2>2. SockTypes'
      BY <1>1, <1>5, <2>1, TwoEnds DEF SockInv, SockTypes
    <2>3. SetUpSound'
      BY <1>1, <1>5, <2>1, TwoEnds DEF SockInv, SetUpSound
    <2>4. Hopeful'
      BY <1>1, <1>3, <1>5, <2>1, TwoEnds DEF SockInv, Hopeful
    <2> QED
      BY <2>2, <2>3, <2>4 DEF SockInv
  <1> QED
    BY <1>4, <1>5 DEF Listen, Go

(* The new socket is not the listening one.                                *)
LEMMA AcceptStep ==
  ASSUME SockInv, Accept
  PROVE  SockInv'
  <1>1. /\ stage["server"] = "ready" /\ stage["client"] = "ready"
        /\ open' = [open EXCEPT !["server"] = @ \cup {NewFd("server")}]
        /\ stage' = [stage EXCEPT !["server"] = "accepted"]
        /\ UNCHANGED <<p, fd, bound, listening, excused>>
    BY DEF Accept, Go
  <1>2. open["server"] = {fd["server"]}
    BY <1>1, TwoEnds DEF SockInv, SetUpSound
  <1>3. NewFd("server") \in 3 .. 5 /\ NewFd("server") # fd["server"]
    BY <1>2, FreeFd, TwoEnds DEF SockInv
  <1>4. /\ \A x \in Ends : stage'[x] = IF x = "server" THEN "accepted" ELSE stage[x]
        /\ \A x \in Ends : open'[x] = IF x = "server" THEN {fd["server"]} \cup {NewFd("server")}
                                      ELSE open[x]
    BY <1>1, <1>2 DEF SockInv, SockTypes
  <1>5. Cardinality({fd["server"]} \cup {NewFd("server")}) = 2
    <2> DEFINE listenfd == fd["server"]
               connfd == NewFd("server")
    <2>1. connfd \notin {listenfd}
      BY <1>3
    <2> HIDE DEF listenfd, connfd
    <2>2. IsFiniteSet({listenfd}) /\ Cardinality({listenfd}) = 1
      BY FS_Singleton
    <2>3. Cardinality({listenfd} \cup {connfd}) = 2
      BY <2>1, <2>2, FS_AddElement
    <2> QED
      BY <2>3 DEF listenfd, connfd
  <1>6. SockTypes'
    <2>1. open["server"] \cup {NewFd("server")} \in SUBSET (3 .. 5)
      BY <1>3, TwoEnds DEF SockInv, SockTypes
    <2> QED
      BY <1>1, <1>4, <2>1, TwoEnds DEF SockInv, SockTypes
  <1>7. SetUpSound'
    <2>1. Cardinality(open'["server"]) = 2
      BY <1>4, <1>5, TwoEnds
    <2>2. stage'["server"] = "accepted" /\ stage'["client"] = "ready" /\ open'["client"] = open["client"]
      BY <1>1, <1>4, TwoEnds
    <2>3. open["client"] = {fd["client"]}
      BY <1>1, TwoEnds DEF SockInv, SetUpSound
    <2> QED
      BY <1>1, <2>1, <2>2, <2>3, TwoEnds DEF SetUpSound
  <1>8. Hopeful'
    BY <1>1, <1>4, TwoEnds DEF SockInv, Hopeful
  <1> QED
    BY <1>6, <1>7, <1>8 DEF SockInv

LEMMA SockStays ==
  ASSUME SockInv, UNCHANGED sockVars
  PROVE  SockInv'
  <1>1. UNCHANGED <<stage, p, fd, open, bound, listening, excused>>
    BY DEF sockVars
  <1>2. SockTypes' /\ SetUpSound'
    BY <1>1 DEF SockInv, SockTypes, SetUpSound
  <1>3. Hopeful'
    BY <1>1 DEF SockInv, Hopeful, Reached
  <1> QED
    BY <1>2, <1>3 DEF SockInv

LEMMA SetUpStep ==
  ASSUME SockInv, SetUp
  PROVE  SockInv'
  <1>1. CASE \E e \in Ends : Getaddrinfo(e)
    BY <1>1, GetaddrinfoStep
  <1>2. CASE \E e \in Ends : Socket(e)
    BY <1>2, SocketStep
  <1>3. CASE \E e \in Ends : WalkEnds(e)
    BY <1>3, WalkEndsStep
  <1>4. CASE Connect \/ Bind \/ Listen \/ Accept
    BY <1>4, ConnectStep, BindStep, ListenStep, AcceptStep
  <1> QED
    BY <1>1, <1>2, <1>3, <1>4, TwoEnds DEF SetUp, open_clientfd, open_listenfd, OpenSocket

LEMMA InitSockInv ==
  ASSUME Init
  PROVE  SockInv
  <1>1. /\ stage = [e \in Ends |-> "start"] /\ p = [e \in Ends |-> 1] /\ fd = [e \in Ends |-> 0]
        /\ open = [e \in Ends |-> {}] /\ listening = FALSE /\ excused = FALSE
    BY DEF Init, SocketsInit
  <1> QED
    BY <1>1, TwoEnds DEF SockInv, SockTypes, SetUpSound, Hopeful

----------------------------------------------------------------------------
(* What is on its way *)

LEMMA Peers ==
  /\ Peer("client") = "server" /\ Peer("server") = "client"
  /\ \A e \in Ends : Peer(e) \in Ends /\ Peer(e) # e /\ Peer(Peer(e)) = e
  /\ \A e \in Ends, x \in Ends : x # e => x = Peer(e)
  BY DEF Ends, Peer

LEMMA FourParts ==
  ASSUME RioTypes, NEW e \in Ends
  PROVE  /\ usr[e] \in Seq(Bytes) /\ rio[e] \in Seq(Bytes)
         /\ net[e] \in Seq(Bytes) /\ out[e] \in Seq(Bytes)
         /\ Len(usr[e]) \in Nat /\ Len(rio[e]) \in Nat
         /\ Len(net[e]) \in Nat /\ Len(out[e]) \in Nat
         /\ Pending(e) \in Seq(Bytes) /\ Len(Pending(e)) \in Nat
         /\ Len(Pending(e)) = Len(usr[e]) + Len(rio[e]) + Len(net[e]) + Len(out[e])
         /\ usr[e] = <<>> <=> Len(usr[e]) = 0
         /\ rio[e] = <<>> <=> Len(rio[e]) = 0
         /\ out[e] = <<>> <=> Len(out[e]) = 0
         /\ Pending(e) = <<>> <=> Len(Pending(e)) = 0
  <1>1. /\ usr[e] \in Seq(Bytes) /\ rio[e] \in Seq(Bytes)
        /\ net[e] \in Seq(Bytes) /\ out[e] \in Seq(Bytes)
    BY DEF RioTypes
  <1>2. /\ Len(usr[e]) \in Nat /\ Len(rio[e]) \in Nat
        /\ Len(net[e]) \in Nat /\ Len(out[e]) \in Nat
    BY <1>1, LenProperties
  <1>3. /\ Pending(e) \in Seq(Bytes)
        /\ Len(Pending(e)) = Len(usr[e]) + Len(rio[e]) + Len(net[e]) + Len(out[e])
    BY <1>1, Parts DEF Pending
  <1>4. \A s \in Seq(Bytes) : Len(s) \in Nat /\ (s = <<>> <=> Len(s) = 0)
    BY EmptySeq, LenProperties
  <1> QED
    BY <1>1, <1>2, <1>3, <1>4

(* What moves from one of the four parts to the one before.                *)
LEMMA MovedForward ==
  ASSUME RioTypes, NEW e \in Ends
  PROVE  /\ \A k \in 0 .. Len(out[e]) :
              usr[e] \o rio[e] \o (net[e] \o SubSeq(out[e], 1, k)) \o SubSeq(out[e], k + 1, Len(out[e]))
                 = Pending(e)
         /\ rio[e] = <<>> => \A k \in 0 .. Len(net[e]) :
              usr[e] \o SubSeq(net[e], 1, k) \o SubSeq(net[e], k + 1, Len(net[e])) \o out[e]
                 = Pending(e)
         /\ \A k \in 0 .. Len(rio[e]) :
              (usr[e] \o SubSeq(rio[e], 1, k)) \o SubSeq(rio[e], k + 1, Len(rio[e])) \o net[e] \o out[e]
                 = Pending(e)
  <1>0. \A s \in Seq(Bytes), t \in Seq(Bytes), u \in Seq(Bytes) : (s \o t) \o u = s \o (t \o u)
    BY ONLY Regrouped
  <1> DEFINE a == usr[e]
             b == rio[e]
             c == net[e]
             d == out[e]
  <1>a. a \in Seq(Bytes)
    BY FourParts
  <1>b. b \in Seq(Bytes)
    BY FourParts
  <1>c. c \in Seq(Bytes)
    BY FourParts
  <1>d. d \in Seq(Bytes)
    BY FourParts
  <1> HIDE DEF a, b, c, d
  <1>1. ASSUME NEW k \in 0 .. Len(d)
        PROVE  a \o b \o (c \o SubSeq(d, 1, k)) \o SubSeq(d, k + 1, Len(d)) = a \o b \o c \o d
    <2> DEFINE x == SubSeq(d, 1, k)
               y == SubSeq(d, k + 1, Len(d))
    <2>1. x \in Seq(Bytes) /\ y \in Seq(Bytes)
      BY ONLY <1>d, <1>1, Cut
    <2>2. x \o y = d
      BY ONLY <1>d, <1>1, Cut
    <2> HIDE DEF x, y
    <2>3. \A s \in Seq(Bytes) : (s \o x) \o y = s \o d
      <3> TAKE s \in Seq(Bytes)
      <3>1. (s \o x) \o y = s \o (x \o y)
        BY <1>0, <2>1, Zenon
      <3> QED
        BY <2>2, <3>1, Zenon
    <2>5. a \o b \in Seq(Bytes) /\ a \o b \o c \in Seq(Bytes)
      BY ONLY <1>a, <1>b, <1>c, <1>d, Parts
    <2> DEFINE f == a \o b
    <2>4. f \in Seq(Bytes)
      BY <2>5
    <2> HIDE DEF f
    <2>6. (f \o c) \o x = f \o (c \o x)
      BY <1>0, <1>c, <2>1, <2>4, Zenon
    <2>7. (a \o b \o c) \o x \o y = a \o b \o c \o d
      BY <2>3, <2>5, Zenon
    <2> QED
      BY <2>6, <2>7, Zenon DEF f, x, y
  <1>2. ASSUME NEW k \in 0 .. Len(c)
        PROVE  a \o SubSeq(c, 1, k) \o SubSeq(c, k + 1, Len(c)) \o d = a \o <<>> \o c \o d
    <2> DEFINE x == SubSeq(c, 1, k)
               y == SubSeq(c, k + 1, Len(c))
    <2>1. x \in Seq(Bytes) /\ y \in Seq(Bytes)
      BY ONLY <1>c, <1>2, Cut
    <2>2. x \o y = c
      BY ONLY <1>c, <1>2, Cut
    <2> HIDE DEF x, y
    <2>3. (a \o x) \o y = a \o (x \o y)
      BY <1>0, <1>a, <2>1, Zenon
    <2>4. a \o <<>> = a
      BY <1>a, ConcatEmptySeq
    <2> QED
      BY <2>2, <2>3, <2>4, Zenon DEF x, y
  <1>3. ASSUME NEW k \in 0 .. Len(b)
        PROVE  (a \o SubSeq(b, 1, k)) \o SubSeq(b, k + 1, Len(b)) \o c \o d = a \o b \o c \o d
    <2> DEFINE x == SubSeq(b, 1, k)
               y == SubSeq(b, k + 1, Len(b))
    <2>1. x \in Seq(Bytes) /\ y \in Seq(Bytes)
      BY ONLY <1>b, <1>3, Cut
    <2>2. x \o y = b
      BY ONLY <1>b, <1>3, Cut
    <2> HIDE DEF x, y
    <2>3. (a \o x) \o y = a \o (x \o y)
      BY <1>0, <1>a, <2>1, Zenon
    <2> QED
      BY <2>2, <2>3, Zenon DEF x, y
  <1> QED
    BY <1>1, <1>2, <1>3, Zenon DEF a, b, c, d, Pending

(* The two ends' calls, and what moves without changing what is pending.   *)
LEMMA Moves ==
  ASSUME RioInv, UNCHANGED <<reader, given, got, asked>>,
         \A x \in Ends : Pending(x)' = Pending(x),
         \A x \in Ends : \/ call'[x] = call[x]
                         \/ /\ call[x] = "writen"
                            /\ call'[x] \in {"writen", IF x = "client" THEN reader ELSE "readlineb"}
  PROVE  Streamed' /\ Turns'
  <1>1. reader \in {"readnb", "readlineb"}
    BY DEF RioInv, RioTypes
  <1>2. \A x \in Ends : Gone(x)' <=> Gone(x)
    BY <1>1 DEF Gone
  <1>3. Streamed'
    BY <1>2, TwoEnds DEF RioInv, Streamed
  <1>4. Turns'
    <2>1. CASE reader = "readnb" /\ ~Gone("client") /\ ~Gone("server")
      <3>1. \A x \in Ends : OneLine(Pending(x))' <=> OneLine(Pending(x))
        BY DEF OneLine
      <3>2. call["client"] = "fgets" => call'["client"] = "fgets"
        BY TwoEnds
      <3>3. call["client"] \in {"writen", "readnb"} => call'["client"] \in {"writen", "readnb"}
        BY <2>1, TwoEnds
      <3>4. call["client"] = "readnb" => call'["client"] = "readnb"
        BY TwoEnds
      <3>5. call["server"] = "readlineb" => call'["server"] = "readlineb"
        BY TwoEnds
      <3>6. Turns
        BY DEF RioInv
      <3> QED
        BY <2>1, <3>1, <3>2, <3>3, <3>4, <3>5, <3>6, TwoEnds DEF Turns
    <2>2. CASE ~(reader = "readnb" /\ ~Gone("client") /\ ~Gone("server"))
      BY <1>2, <2>2, TwoEnds DEF Turns
    <2> QED
      BY <2>1, <2>2
  <1> QED
    BY <1>3, <1>4

(* The steps of an end: a write system call, and the two halves of a read. *)
LEMMA WriteStep ==
  ASSUME RioInv, NEW e \in Ends, Write(e)
  PROVE  RioInv'
  <1> DEFINE q == Peer(e)
  <1>0. q \in Ends /\ q # e /\ Peer(q) = e
    BY Peers
  <1>1. RioTypes /\ Buffered /\ Streamed /\ Turns
    BY DEF RioInv
  <1>2. PICK k \in 1 .. Least(Len(out[q]), Room - Len(net[q])) :
           /\ Sent(e, k)
           /\ net' = [net EXCEPT ![q] = @ \o SubSeq(out[q], 1, k)]
    BY DEF Write
  <1>3. call[e] = "writen" /\ UNCHANGED <<reader, rio, usr, given, got, asked, cut, shown>>
    BY DEF Write
  <1>4. k \in 0 .. Len(out[q]) /\ k >= 1
    <2>1. Len(out[q]) \in Nat /\ Len(net[q]) \in Nat
      BY <1>0, <1>1, FourParts
    <2> QED
      BY <1>2, <2>1 DEF Least
  <1>5. \A x \in Ends : /\ out'[x] = IF x = q THEN SubSeq(out[q], k + 1, Len(out[q])) ELSE out[x]
                        /\ net'[x] = IF x = q THEN net[q] \o SubSeq(out[q], 1, k) ELSE net[x]
                        /\ call'[x] = IF x # e THEN call[x]
                                      ELSE IF k < Len(out[q]) THEN "writen"
                                      ELSE IF e = "client" THEN reader ELSE "readlineb"
    BY <1>1, <1>2 DEF Sent, RioTypes
  <1>6. /\ SubSeq(out[q], k + 1, Len(out[q])) \in Seq(Bytes)
        /\ Len(SubSeq(out[q], k + 1, Len(out[q]))) = Len(out[q]) - k
        /\ SubSeq(out[q], 1, k) \in Seq(Bytes)
    <2>1. out[q] \in Seq(Bytes)
      BY <1>0, <1>1, FourParts
    <2> QED
      BY ONLY <1>4, <2>1, Cut
  <1>7. net[q] \o SubSeq(out[q], 1, k) \in Seq(Bytes)
    <2>1. net[q] \in Seq(Bytes)
      BY <1>0, <1>1, FourParts
    <2> QED
      BY <1>6, <2>1, ConcatProperties
  <1>8. RioTypes'
    <2>1. out' \in [Ends -> Seq(Bytes)] /\ net' \in [Ends -> Seq(Bytes)]
      BY <1>0, <1>1, <1>2, <1>5, <1>6, <1>7 DEF Sent, RioTypes
    <2>2. /\ call' \in [Ends -> {"fgets", "writen", "readnb", "readlineb", "closed", "killed"}]
          /\ call'["client"] \in {"fgets", "writen", reader, "closed", "killed"}
          /\ call'["server"] \in {"writen", "readlineb", "closed", "killed"}
      BY <1>1, <1>2, <1>5, TwoEnds DEF Sent, RioTypes
    <2>3. call'["client"] \in {"writen", "readnb", "readlineb"} => shown < asked
      BY <1>1, <1>3, <1>5, TwoEnds DEF RioTypes
    <2> QED
      BY <1>1, <1>3, <2>1, <2>2, <2>3 DEF RioTypes
  <1>9. Buffered'
    <2>1. usr[e] = <<>> /\ Len(usr[e]) = 0
      BY <1>1, <1>3, FourParts DEF Buffered, Reading
    <2>2. \A x \in Ends : Reading(x) => Reading(x)'
      BY <1>3, <1>5 DEF Reading
    <2>3. out'[q] # <<>> <=> call'[e] = "writen"
      <3>1. out'[q] = <<>> <=> Len(out'[q]) = 0
        BY <1>0, <1>5, <1>6, EmptySeq
      <3>2. Len(out'[q]) = Len(out[q]) - k /\ Len(out[q]) \in Nat
        BY <1>0, <1>1, <1>5, <1>6, FourParts
      <3>3. reader # "writen"
        BY <1>1 DEF RioTypes
      <3> QED
        BY <1>0, <1>4, <1>5, <3>1, <3>2, <3>3
    <2>4. \A x \in Ends : out'[Peer(x)] # <<>> <=> call'[x] = "writen"
      BY <1>1, <1>5, <2>3, Peers DEF Buffered
    <2>5. ASSUME NEW x \in Ends
          PROVE  /\ Len(rio'[x]) <= RIO_BUFSIZE
                 /\ Len(usr'[x]) <= IF call'[x] = "readlineb" THEN MAXLINE - 1 ELSE MAXLINE
                 /\ usr'[x] # <<>> => Reading(x)'
      <3>1. CASE x = e
        BY <1>1, <1>3, <2>1, <3>1 DEF Buffered
      <3>2. CASE x # e
        BY <1>1, <1>3, <1>5, <2>2, <3>2 DEF Buffered
      <3> QED
        BY <3>1, <3>2
    <2> QED
      BY <2>4, <2>5 DEF Buffered
  <1>10. \A x \in Ends : Pending(x)' = Pending(x)
    <2>1. Pending(q)' = Pending(q)
      <3>2. usr[q] \o rio[q] \o (net[q] \o SubSeq(out[q], 1, k)) \o SubSeq(out[q], k + 1, Len(out[q]))
               = Pending(q)
        BY <1>0, <1>1, <1>4, MovedForward, Zenon
      <3>3. /\ usr'[q] = usr[q] /\ rio'[q] = rio[q] /\ net'[q] = net[q] \o SubSeq(out[q], 1, k)
            /\ out'[q] = SubSeq(out[q], k + 1, Len(out[q]))
        BY <1>0, <1>3, <1>5
      <3> QED
        BY <3>2, <3>3, Zenon DEF Pending
    <2>2. ASSUME NEW x \in Ends, x # q
          PROVE  Pending(x)' = Pending(x)
      BY <1>3, <1>5, <2>2 DEF Pending
    <2> QED
      BY <2>1, <2>2
  <1>11. \A x \in Ends : \/ call'[x] = call[x]
                         \/ /\ call[x] = "writen"
                            /\ call'[x] \in {"writen", IF x = "client" THEN reader ELSE "readlineb"}
    BY <1>3, <1>5
  <1>12. Streamed' /\ Turns'
    BY <1>3, <1>10, <1>11, Moves
  <1> QED
    BY <1>8, <1>9, <1>12 DEF RioInv

LEMMA WriteGoneStep ==
  ASSUME RioInv, NEW e \in Ends, WriteGone(e)
  PROVE  RioInv'
  <1> DEFINE q == Peer(e)
  <1>0. q \in Ends /\ q # e /\ Peer(q) = e
    BY Peers
  <1>1. RioTypes /\ Buffered /\ Streamed /\ Turns
    BY DEF RioInv
  <1>2. call[e] = "writen" /\ Gone(q) /\ UNCHANGED <<reader, net, rio, usr, given, got, asked, cut, shown>>
    BY DEF WriteGone
  <1>3. /\ out' = [out EXCEPT ![q] = <<>>]
        /\ \/ call' = [call EXCEPT ![e] = IF e = "client" THEN reader ELSE "readlineb"]
           \/ call' = [call EXCEPT ![e] = "killed"]
    <2>1. CASE Sent(e, Len(out[q]))
      <3>1. out[q] \in Seq(Bytes) /\ Len(out[q]) \in Nat
        BY <1>0, <1>1, FourParts
      <3>2. SubSeq(out[q], Len(out[q]) + 1, Len(out[q])) = <<>>
        <4>1. Len(out[q]) \in 0 .. Len(out[q])
          BY <3>1
        <4>2. /\ SubSeq(out[q], Len(out[q]) + 1, Len(out[q])) \in Seq(Bytes)
              /\ Len(SubSeq(out[q], Len(out[q]) + 1, Len(out[q]))) = Len(out[q]) - Len(out[q])
          BY ONLY <3>1, <4>1, Cut
        <4> QED
          BY <3>1, <4>2, EmptySeq
      <3>3. ~(Len(out[q]) < Len(out[q]))
        BY <3>1
      <3> QED
        BY <2>1, <3>2, <3>3 DEF Sent
    <2>2. CASE call' = [call EXCEPT ![e] = "killed"] /\ out' = [out EXCEPT ![q] = <<>>]
      BY <2>2
    <2> QED
      BY <2>1, <2>2 DEF WriteGone
  <1>4. /\ \A x \in Ends : out'[x] = IF x = q THEN <<>> ELSE out[x]
        /\ \A x \in Ends : x # e => call'[x] = call[x]
        /\ call'[e] \in {IF e = "client" THEN reader ELSE "readlineb", "killed"}
    BY <1>1, <1>3 DEF RioTypes
  <1>5. RioTypes'
    <2>1. out' \in [Ends -> Seq(Bytes)]
      BY <1>1, <1>3, EmptySeq DEF RioTypes
    <2> QED
      BY <1>1, <1>2, <1>3, <1>4, <2>1, TwoEnds DEF RioTypes
  <1>6. Buffered'
    <2>1. usr[e] = <<>> /\ Len(usr[e]) = 0
      BY <1>1, <1>2, FourParts DEF Buffered, Reading
    <2>2. \A x \in Ends : x # e => (Reading(x)' <=> Reading(x))
      BY <1>4 DEF Reading
    <2>3. call'[e] # "writen"
      BY <1>1, <1>4 DEF RioTypes
    <2>4. \A x \in Ends : out'[Peer(x)] # <<>> <=> call'[x] = "writen"
      BY <1>1, <1>4, <2>3, Peers DEF Buffered
    <2>5. ASSUME NEW x \in Ends
          PROVE  /\ Len(rio'[x]) <= RIO_BUFSIZE
                 /\ Len(usr'[x]) <= IF call'[x] = "readlineb" THEN MAXLINE - 1 ELSE MAXLINE
                 /\ usr'[x] # <<>> => Reading(x)'
      <3>1. CASE x = e
        BY <1>1, <1>2, <2>1, <3>1 DEF Buffered
      <3>2. CASE x # e
        BY <1>1, <1>2, <1>4, <2>2, <3>2 DEF Buffered
      <3> QED
        BY <3>1, <3>2
    <2> QED
      BY <2>4, <2>5 DEF Buffered
  <1>7. Gone(q)' /\ (Gone(e) => Gone(e)')
    BY <1>0, <1>2, <1>4 DEF Gone
  <1>8. Pending(e)' = Pending(e)
    BY <1>0, <1>2, <1>4 DEF Pending
  <1>9. Streamed'
    BY <1>0, <1>1, <1>2, <1>7, <1>8, Peers, TwoEnds DEF Streamed
  <1>10. Turns'
    BY <1>0, <1>7, TwoEnds DEF Turns
  <1> QED
    BY <1>5, <1>6, <1>9, <1>10 DEF RioInv

LEMMA RefillStep ==
  ASSUME RioInv, NEW e \in Ends, Refill(e)
  PROVE  RioInv'
  <1>1. RioTypes /\ Buffered
    BY DEF RioInv
  <1>2. PICK k \in 1 .. Least(Len(net[e]), RIO_BUFSIZE) :
           /\ rio' = [rio EXCEPT ![e] = SubSeq(net[e], 1, k)]
           /\ net' = [net EXCEPT ![e] = SubSeq(@, k + 1, Len(@))]
    BY DEF Refill
  <1>3. rio[e] = <<>> /\ UNCHANGED <<reader, call, out, usr, given, got, asked, cut, shown>>
    BY DEF Refill
  <1>4. k \in 0 .. Len(net[e]) /\ k <= RIO_BUFSIZE /\ net[e] \in Seq(Bytes)
    <2>1. Len(net[e]) \in Nat /\ net[e] \in Seq(Bytes)
      BY <1>1, FourParts
    <2> QED
      BY <1>2, <2>1 DEF Least
  <1>5. \A x \in Ends : /\ rio'[x] = IF x = e THEN SubSeq(net[e], 1, k) ELSE rio[x]
                        /\ net'[x] = IF x = e THEN SubSeq(net[e], k + 1, Len(net[e])) ELSE net[x]
    BY <1>1, <1>2 DEF RioTypes
  <1>6. /\ SubSeq(net[e], 1, k) \in Seq(Bytes) /\ Len(SubSeq(net[e], 1, k)) = k
        /\ SubSeq(net[e], k + 1, Len(net[e])) \in Seq(Bytes)
    BY ONLY <1>4, Cut
  <1>7. RioTypes'
    BY <1>1, <1>2, <1>3, <1>6 DEF RioTypes
  <1>8. Buffered'
    <2>1. \A x \in Ends : Len(rio'[x]) <= RIO_BUFSIZE
      BY <1>1, <1>4, <1>5, <1>6 DEF Buffered
    <2> QED
      BY <1>1, <1>3, <2>1 DEF Buffered, Reading
  <1>9. \A x \in Ends : Pending(x)' = Pending(x)
    <2>1. Pending(e)' = Pending(e)
      <3>1. usr[e] \o SubSeq(net[e], 1, k) \o SubSeq(net[e], k + 1, Len(net[e])) \o out[e] = Pending(e)
        BY <1>1, <1>3, <1>4, MovedForward, Zenon
      <3>2. /\ usr'[e] = usr[e] /\ rio'[e] = SubSeq(net[e], 1, k)
            /\ net'[e] = SubSeq(net[e], k + 1, Len(net[e])) /\ out'[e] = out[e]
        BY <1>3, <1>5
      <3> QED
        BY <3>1, <3>2, Zenon DEF Pending
    <2>2. ASSUME NEW x \in Ends, x # e
          PROVE  Pending(x)' = Pending(x)
      BY <1>3, <1>5, <2>2 DEF Pending
    <2> QED
      BY <2>1, <2>2
  <1>10. Streamed' /\ Turns'
    BY <1>3, <1>9, Moves
  <1> QED
    BY <1>7, <1>8, <1>10 DEF RioInv

LEMMA CopyStep ==
  ASSUME RioInv, NEW e \in Ends, Copy(e)
  PROVE  RioInv'
  <1> DEFINE k == Wanted(e)
  <1>1. RioTypes /\ Buffered
    BY DEF RioInv
  <1>2. /\ usr' = [usr EXCEPT ![e] = @ \o SubSeq(rio[e], 1, k)]
        /\ rio' = [rio EXCEPT ![e] = SubSeq(@, k + 1, Len(@))]
    BY DEF Copy
  <1>3. /\ Reading(e) /\ ~Complete(e) /\ rio[e] # <<>>
        /\ UNCHANGED <<reader, call, out, net, given, got, asked, cut, shown>>
    BY DEF Copy
  <1>4. rio[e] \in Seq(Bytes) /\ usr[e] \in Seq(Bytes) /\ Len(rio[e]) \in Nat /\ Len(usr[e]) \in Nat
    BY <1>1, FourParts
  <1>5. k \in 0 .. Len(rio[e]) /\ Len(usr[e]) + k <= IF call[e] = "readlineb" THEN MAXLINE - 1 ELSE MAXLINE
    <2>1. Len(rio[e]) >= 1
      BY <1>1, <1>3, FourParts
    <2>2. CASE call[e] = "readnb"
      <3>1. k = Least(Len(rio[e]), MAXLINE - Len(usr[e])) /\ Len(usr[e]) <= MAXLINE
        BY <1>1, <2>2 DEF Wanted, Buffered
      <3> DEFINE n == Len(rio[e])
                 m == Len(usr[e])
      <3>2. k = Least(n, MAXLINE - m) /\ m <= MAXLINE /\ n \in Nat /\ m \in Nat
        BY <1>4, <3>1
      <3> HIDE DEF k, m, n
      <3>3. k \in 0 .. n /\ m + k <= MAXLINE
        BY <3>2 DEF Least
      <3> QED
        BY <2>2, <3>3 DEF m, n
    <2>3. CASE call[e] = "readlineb"
      <3>1. k = 1 /\ Len(usr[e]) <= MAXLINE - 1 /\ Len(usr[e]) # MAXLINE - 1
        BY <1>1, <1>3, <2>3 DEF Wanted, Buffered, Complete
      <3> HIDE DEF k
      <3> QED
        BY <1>4, <2>1, <2>3, <3>1
    <2> QED
      BY <1>3, <2>2, <2>3 DEF Reading
  <1> HIDE DEF k
  <1>6. \A x \in Ends : /\ usr'[x] = IF x = e THEN usr[e] \o SubSeq(rio[e], 1, k) ELSE usr[x]
                        /\ rio'[x] = IF x = e THEN SubSeq(rio[e], k + 1, Len(rio[e])) ELSE rio[x]
    BY <1>1, <1>2 DEF RioTypes
  <1>7. /\ SubSeq(rio[e], 1, k) \in Seq(Bytes) /\ Len(SubSeq(rio[e], 1, k)) = k
        /\ SubSeq(rio[e], k + 1, Len(rio[e])) \in Seq(Bytes)
        /\ Len(SubSeq(rio[e], k + 1, Len(rio[e]))) = Len(rio[e]) - k
    <2>1. rio[e] \in Seq(Bytes) /\ k \in 0 .. Len(rio[e])
      BY <1>4, <1>5
    <2> QED
      BY ONLY <2>1, Cut
  <1>8. /\ usr[e] \o SubSeq(rio[e], 1, k) \in Seq(Bytes)
        /\ Len(usr[e] \o SubSeq(rio[e], 1, k)) = Len(usr[e]) + k
    <2>1. usr[e] \in Seq(Bytes) /\ SubSeq(rio[e], 1, k) \in Seq(Bytes) /\ Len(SubSeq(rio[e], 1, k)) = k
      BY <1>4, <1>7
    <2> QED
      BY ONLY <2>1, ConcatProperties
  <1>9. RioTypes'
    BY <1>1, <1>2, <1>3, <1>7, <1>8 DEF RioTypes
  <1>10. Buffered'
    <2>1. \A x \in Ends : Len(rio'[x]) <= RIO_BUFSIZE
      <3>1. Len(rio[e]) <= RIO_BUFSIZE
        BY <1>1 DEF Buffered
      <3>2. Len(rio'[e]) = Len(rio[e]) - k
        BY <1>6, <1>7
      <3>3. Len(rio'[e]) <= RIO_BUFSIZE
        BY <1>4, <1>5, <3>1, <3>2
      <3> QED
        BY <1>1, <1>6, <3>3 DEF Buffered
    <2>2. \A x \in Ends : Len(usr'[x]) <= IF call'[x] = "readlineb" THEN MAXLINE - 1 ELSE MAXLINE
      BY <1>1, <1>3, <1>5, <1>6, <1>8 DEF Buffered
    <2>3. \A x \in Ends : usr'[x] # <<>> => Reading(x)'
      BY <1>1, <1>3, <1>6 DEF Buffered, Reading
    <2> QED
      BY <1>1, <1>3, <2>1, <2>2, <2>3 DEF Buffered
  <1>11. \A x \in Ends : Pending(x)' = Pending(x)
    <2>1. Pending(e)' = Pending(e)
      <3>1. (usr[e] \o SubSeq(rio[e], 1, k)) \o SubSeq(rio[e], k + 1, Len(rio[e])) \o net[e] \o out[e]
               = Pending(e)
        BY <1>1, <1>5, MovedForward, Zenon
      <3>2. /\ usr'[e] = usr[e] \o SubSeq(rio[e], 1, k) /\ rio'[e] = SubSeq(rio[e], k + 1, Len(rio[e]))
            /\ net'[e] = net[e] /\ out'[e] = out[e]
        BY <1>3, <1>6
      <3> QED
        BY <3>1, <3>2, Zenon DEF Pending
    <2>2. ASSUME NEW x \in Ends, x # e
          PROVE  Pending(x)' = Pending(x)
      BY <1>3, <1>6, <2>2 DEF Pending
    <2> QED
      BY <2>1, <2>2
  <1>12. Streamed' /\ Turns'
    BY <1>3, <1>11, Moves
  <1> QED
    BY <1>9, <1>10, <1>12 DEF RioInv

(* The messages: what may be handed to rio_writen, and what that makes of  *)
(* the bytes still to come at an end that had nothing left to be written.  *)
LEMMA LineChars ==
  ASSUME NEW line \in Lines \cup {CutLine}
  PROVE  /\ line \in Seq(Chars) /\ Len(line) \in 1 .. MAXLINE - 1
         /\ \A k \in 1 .. Len(line) - 1 : line[k] # "end"
  <1>1. "text" \in Chars /\ "exit" \in Chars /\ "end" \in Chars
    BY DEF Chars
  <1>2. \A x \in Chars, y \in Chars : <<x, y>> \in Seq(Chars) /\ Len(<<x, y>>) = 2 /\ <<x, y>>[1] = x
    OBVIOUS
  <1>3. CASE line = <<"text", "end">> \/ line = <<"exit", "end">>
    <2>1. line \in Seq(Chars) /\ Len(line) = 2 /\ line[1] # "end"
      BY <1>1, <1>2, <1>3
    <2> QED
      BY <2>1
  <1>4. CASE line = <<"text">>
    <2>1. line \in Seq(Chars) /\ Len(line) = 1
      BY <1>1, <1>4
    <2> QED
      BY <2>1
  <1>5. CASE line = [k \in 1 .. MAXLINE - 1 |-> "text"]
    <2>1. MAXLINE - 1 \in Nat /\ MAXLINE - 1 >= 1
      OBVIOUS
    <2>2. line \in Seq(Chars) /\ Len(line) = MAXLINE - 1
      BY <1>1, <1>5, <2>1
    <2>3. \A k \in 1 .. MAXLINE - 1 : line[k] = "text"
      BY <1>5
    <2> QED
      BY <2>1, <2>2, <2>3
  <1> QED
    BY <1>3, <1>4, <1>5 DEF Lines, CutLine

LEMMA AnswerChars ==
  ASSUME NEW answer \in Answers
  PROVE  answer \in Seq(Chars) /\ Len(answer) = MAXLINE
  <1>1. PICK ends \in {{2}, {2, 4}} :
           answer = [k \in 1 .. MAXLINE |-> IF k = 1 THEN "text" ELSE IF k \in ends THEN "end" ELSE "fill"]
    BY DEF Answers
  <1>2. {"text", "fill", "end"} \subseteq Chars
    BY DEF Chars
  <1>3. answer \in [1 .. MAXLINE -> Chars]
    BY <1>1, <1>2
  <1> QED
    BY <1>3

LEMMA PlacedBytes ==
  ASSUME NEW e, given[e] \in Nat, NEW chars \in Seq(Chars)
  PROVE  /\ Placed(e, chars) \in Seq(Bytes) /\ Len(Placed(e, chars)) = Len(chars)
         /\ \A k \in 1 .. Len(chars) : /\ Placed(e, chars)[k].at = given[e] + k
                                       /\ Placed(e, chars)[k].ch = chars[k]
  <1>1. Len(chars) \in Nat /\ DOMAIN chars = 1 .. Len(chars) /\ \A k \in 1 .. Len(chars) : chars[k] \in Chars
    BY LenProperties
  <1>2. Placed(e, chars) = [k \in 1 .. Len(chars) |-> [at |-> given[e] + k, ch |-> chars[k]]]
    BY <1>1 DEF Placed
  <1>3. \A k \in 1 .. Len(chars) : [at |-> given[e] + k, ch |-> chars[k]] \in Bytes
    <2> TAKE k \in 1 .. Len(chars)
    <2>1. given[e] + k \in Nat \ {0} /\ chars[k] \in Chars
      BY <1>1
    <2> QED
      BY <2>1 DEF Bytes
  <1>4. Placed(e, chars) \in [1 .. Len(chars) -> Bytes]
    BY <1>2, <1>3
  <1>5. Placed(e, chars) \in Seq(Bytes) /\ Len(Placed(e, chars)) = Len(chars)
    BY <1>1, <1>4
  <1> QED
    BY <1>2, <1>5

LEMMA Handed ==
  ASSUME RioTypes, NEW e \in Ends, out[e] = <<>>, NEW chars \in Seq(Chars),
         \A k \in 1 .. Len(Pending(e)) : Pending(e)[k].at = got[e] + k,
         got[e] + Len(Pending(e)) = given[e]
  PROVE  LET after == usr[e] \o rio[e] \o net[e] \o Placed(e, chars)
         IN  /\ Len(after) = Len(Pending(e)) + Len(chars)
             /\ \A k \in 1 .. Len(after) : after[k].at = got[e] + k
             /\ \A k \in 1 .. Len(chars) : after[Len(Pending(e)) + k].ch = chars[k]
             /\ got[e] + Len(after) = given[e] + Len(chars)
  <1> DEFINE f == usr[e] \o rio[e] \o net[e]
             new == Placed(e, chars)
             after == f \o new
  <1>1. /\ usr[e] \in Seq(Bytes) /\ rio[e] \in Seq(Bytes) /\ net[e] \in Seq(Bytes)
        /\ out[e] \in Seq(Bytes)
    BY FourParts
  <1>2. /\ new \in Seq(Bytes) /\ Len(new) = Len(chars)
        /\ \A k \in 1 .. Len(chars) : new[k].at = given[e] + k /\ new[k].ch = chars[k]
    BY PlacedBytes DEF RioTypes
  <1> HIDE DEF new
  <1>3. /\ Len(after) = Len(f) + Len(new)
        /\ \A k \in 1 .. Len(f) : after[k] = f[k]
        /\ \A k \in 1 .. Len(new) : after[Len(f) + k] = new[k]
    <2>1. new \in Seq(Bytes)
      BY <1>2
    <2>2. f \in Seq(Bytes)
      BY ONLY <1>1, Parts
    <2> HIDE DEF f
    <2> QED
      BY ONLY <2>1, <2>2, Appended
  <1>4. Pending(e) = f /\ f \in Seq(Bytes)
    <2>1. f \in Seq(Bytes)
      BY ONLY <1>1, Parts
    <2> HIDE DEF f
    <2>2. f \o <<>> = f
      BY <2>1, ConcatEmptySeq
    <2> QED
      BY <2>1, <2>2, Zenon DEF Pending, f
  <1> HIDE DEF f, after
  <1>5. Len(f) \in Nat /\ Len(chars) \in Nat /\ got[e] \in Nat
    BY <1>4, LenProperties DEF RioTypes
  <1> DEFINE m == Len(f)
             n == Len(chars)
  <1>6. m \in Nat /\ n \in Nat /\ got[e] \in Nat /\ given[e] = got[e] + m /\ Len(after) = m + n
    BY <1>2, <1>3, <1>4, <1>5
  <1>7. \A k \in 1 .. m : after[k].at = got[e] + k
    BY <1>3, <1>4
  <1>8. \A k \in 1 .. n : after[m + k] = new[k]
    BY <1>2, <1>3
  <1>9. \A k \in 1 .. n : new[k].at = given[e] + k
    BY <1>2
  <1> HIDE DEF m, n
  <1>10. \A k \in 1 .. m + n : after[k].at = got[e] + k
    <2> TAKE k \in 1 .. m + n
    <2>1. CASE k <= m
      BY <1>6, <1>7, <2>1
    <2>2. CASE ~(k <= m)
      <3> DEFINE g == got[e]
      <3>0. k \in Int /\ k <= m + n /\ g \in Nat
        BY <1>6
      <3> HIDE DEF g
      <3>1. k - m \in 1 .. n /\ m + (k - m) = k /\ g + m + (k - m) = g + k
        BY <1>6, <2>2, <3>0
      <3>2. after[m + (k - m)] = new[k - m] /\ new[k - m].at = given[e] + (k - m)
        BY <1>8, <1>9, <3>1
      <3> QED
        BY <1>6, <3>1, <3>2 DEF g
    <2> QED
      BY <1>6, <2>1, <2>2
  <1>11. \A k \in 1 .. n : after[m + k].ch = chars[k]
    BY <1>2, <1>8 DEF n
  <1>12. got[e] + (m + n) = given[e] + n
    BY <1>6
  <1> QED
    BY <1>4, <1>6, <1>10, <1>11, <1>12, Zenon DEF after, f, new, m, n

(* What is still to come once a call has returned, and once the other end  *)
(* has thrown away what it had left to write.                              *)
LEMMA Taken ==
  ASSUME RioTypes, NEW e \in Ends,
         \A k \in 1 .. Len(Pending(e)) : Pending(e)[k].at = got[e] + k
  PROVE  LET rest == <<>> \o rio[e] \o net[e] \o out[e]
         IN  /\ Len(Pending(e)) = Len(usr[e]) + Len(rest)
             /\ Len(rest) \in Nat /\ Len(rest) >= Len(out[e])
             /\ rest = <<>> <=> Len(rest) = 0
             /\ \A k \in 1 .. Len(rest) : rest[k].at = got[e] + Len(usr[e]) + k
             /\ \A k \in 1 .. Len(usr[e]) : Pending(e)[k] = usr[e][k]
  <1> DEFINE rest == <<>> \o rio[e] \o net[e] \o out[e]
             m == Len(usr[e])
             n == Len(rest)
  <1>0. /\ usr[e] \in Seq(Bytes) /\ rio[e] \in Seq(Bytes) /\ net[e] \in Seq(Bytes)
        /\ out[e] \in Seq(Bytes)
    BY FourParts
  <1>1. m \in Nat /\ got[e] \in Nat /\ Len(out[e]) \in Nat
    BY FourParts DEF RioTypes
  <1>2. /\ rest \in Seq(Bytes) /\ Len(Pending(e)) = m + n
        /\ \A k \in 1 .. m : Pending(e)[k] = usr[e][k]
        /\ \A k \in 1 .. n : rest[k] = Pending(e)[m + k]
    <2>0. \A s \in Seq(Bytes), t \in Seq(Bytes), u \in Seq(Bytes) : (s \o t) \o u = s \o (t \o u)
      BY ONLY Regrouped
    <2> DEFINE a == usr[e]
               b == rio[e]
               c == net[e]
               d == out[e]
               x == b \o c
               r == x \o d
    <2>a. a \in Seq(Bytes)
      BY <1>0
    <2>b. b \in Seq(Bytes)
      BY <1>0
    <2>c. c \in Seq(Bytes)
      BY <1>0
    <2>d. d \in Seq(Bytes)
      BY <1>0
    <2> HIDE DEF a, b, c, d
    <2>1. <<>> \o b = b
      BY <2>b, ConcatEmptySeq
    <2>2. x \in Seq(Bytes)
      BY ONLY <2>b, <2>c, ConcatProperties
    <2>3. (a \o b) \o c = a \o (b \o c)
      BY <2>0, <2>a, <2>b, <2>c, Zenon
    <2> HIDE DEF x
    <2>4. (a \o x) \o d = a \o (x \o d)
      BY <2>0, <2>a, <2>d, <2>2, Zenon
    <2>5. r \in Seq(Bytes)
      BY ONLY <2>d, <2>2, ConcatProperties
    <2>6. Pending(e) = a \o r
      BY <2>3, <2>4, Zenon DEF a, b, c, d, x, Pending
    <2>7. rest = r
      BY <2>1, Zenon DEF b, c, d, x
    <2> HIDE DEF r
    <2>8. /\ Len(a \o r) = Len(a) + Len(r)
          /\ \A k \in 1 .. Len(a) : (a \o r)[k] = a[k]
          /\ \A k \in 1 .. Len(r) : (a \o r)[Len(a) + k] = r[k]
      BY ONLY <2>a, <2>5, Appended
    <2> QED
      BY <2>5, <2>6, <2>7, <2>8 DEF a
  <1>3. n \in Nat /\ (rest = <<>> <=> n = 0)
    BY <1>2, LenProperties, EmptySeq
  <1>4. n >= Len(out[e])
    <2>1. <<>> \in Seq(Bytes) /\ Len(<<>>) = 0
      BY EmptySeq
    <2>2. n = Len(<<>>) + Len(rio[e]) + Len(net[e]) + Len(out[e])
      BY ONLY <1>0, <2>1, Parts
    <2>3. Len(rio[e]) \in Nat /\ Len(net[e]) \in Nat
      BY FourParts
    <2>4. n = Len(rio[e]) + Len(net[e]) + Len(out[e])
      BY <2>1, <2>2, <2>3
    <2> DEFINE x == Len(rio[e])
               y == Len(net[e])
               z == Len(out[e])
    <2>5. n = x + y + z /\ x \in Nat /\ y \in Nat /\ z \in Nat
      BY <1>1, <2>3, <2>4
    <2> HIDE DEF n, x, y, z
    <2>6. n >= z
      BY ONLY <2>5
    <2> QED
      BY <2>6 DEF z
  <1>5. \A k \in 1 .. n : rest[k].at = got[e] + m + k
    <2> TAKE k \in 1 .. n
    <2> DEFINE g == got[e]
    <2> HIDE DEF m, n, rest, g
    <2>1. m + k \in 1 .. m + n /\ g + (m + k) = g + m + k
      BY <1>1, <1>3 DEF g
    <2> QED
      BY <1>2, <2>1 DEF g
  <1> QED
    BY <1>2, <1>3, <1>4, <1>5

LEMMA ThrownAway ==
  ASSUME RioTypes, NEW e \in Ends,
         \A k \in 1 .. Len(Pending(e)) : Pending(e)[k].at = got[e] + k
  PROVE  LET rest == usr[e] \o rio[e] \o net[e] \o <<>>
         IN  \A k \in 1 .. Len(rest) : rest[k].at = got[e] + k
  <1> DEFINE f == usr[e] \o rio[e] \o net[e]
  <1>1. /\ usr[e] \in Seq(Bytes) /\ rio[e] \in Seq(Bytes) /\ net[e] \in Seq(Bytes)
        /\ out[e] \in Seq(Bytes)
    BY FourParts
  <1>2. f \in Seq(Bytes) /\ Pending(e) = f \o out[e]
    BY ONLY <1>1, Parts DEF Pending
  <1> HIDE DEF f
  <1>3. f \o <<>> = f
    BY <1>2, ConcatEmptySeq
  <1>4. /\ Len(Pending(e)) = Len(f) + Len(out[e])
        /\ \A k \in 1 .. Len(f) : Pending(e)[k] = f[k]
    BY ONLY <1>1, <1>2, Appended
  <1>5. Len(f) \in Nat /\ Len(out[e]) \in Nat
    BY <1>1, <1>2, LenProperties
  <1>6. \A k \in 1 .. Len(f) : f[k].at = got[e] + k
    BY <1>4, <1>5
  <1> QED
    BY <1>3, <1>6, Zenon DEF f

(* An end that closes, or is killed.                                       *)
LEMMA CloseStep ==
  ASSUME RioInv, NEW e \in Ends, NEW how \in {"closed", "killed"}, Close(e, how),
         UNCHANGED <<reader, given, asked, cut, shown>>,
         got' \in [Ends -> Nat], \A x \in Ends : x # e => got'[x] = got[x]
  PROVE  RioInv'
  <1> DEFINE q == Peer(e)
  <1>0. q \in Ends /\ q # e /\ Peer(q) = e
    BY Peers
  <1>1. RioTypes /\ Buffered /\ Streamed
    BY DEF RioInv
  <1>2. /\ call' = [call EXCEPT ![e] = how] /\ net' = [net EXCEPT ![e] = <<>>]
        /\ rio' = [rio EXCEPT ![e] = <<>>] /\ usr' = [usr EXCEPT ![e] = <<>>]
        /\ out' = [out EXCEPT ![q] = <<>>]
    BY DEF Close
  <1>3. \A x \in Ends : /\ call'[x] = IF x = e THEN how ELSE call[x]
                        /\ net'[x] = IF x = e THEN <<>> ELSE net[x]
                        /\ rio'[x] = IF x = e THEN <<>> ELSE rio[x]
                        /\ usr'[x] = IF x = e THEN <<>> ELSE usr[x]
                        /\ out'[x] = IF x = q THEN <<>> ELSE out[x]
    BY <1>1, <1>2 DEF RioTypes
  <1>4. <<>> \in Seq(Bytes) /\ Len(<<>>) = 0
    BY EmptySeq
  <1>5. RioTypes'
    <2>1. /\ out' \in [Ends -> Seq(Bytes)] /\ net' \in [Ends -> Seq(Bytes)]
          /\ rio' \in [Ends -> Seq(Bytes)] /\ usr' \in [Ends -> Seq(Bytes)]
      BY <1>1, <1>2, <1>4 DEF RioTypes
    <2>2. /\ call' \in [Ends -> {"fgets", "writen", "readnb", "readlineb", "closed", "killed"}]
          /\ call'["client"] \in {"fgets", "writen", reader, "closed", "killed"}
          /\ call'["server"] \in {"writen", "readlineb", "closed", "killed"}
          /\ call'["client"] \in {"writen", "readnb", "readlineb"} => shown < asked
      BY <1>1, <1>2, <1>3, TwoEnds DEF RioTypes
    <2> QED
      BY <1>1, <2>1, <2>2 DEF RioTypes
  <1>6. Buffered'
    <2>1. \A x \in Ends : Len(rio'[x]) <= RIO_BUFSIZE
      <3> TAKE x \in Ends
      <3>1. rio'[x] = <<>> \/ rio'[x] = rio[x]
        BY <1>3
      <3>2. Len(rio[x]) <= RIO_BUFSIZE
        BY <1>1, Zenon DEF Buffered
      <3> QED
        BY <1>4, <3>1, <3>2
    <2>2. \A x \in Ends : Len(usr'[x]) <= IF call'[x] = "readlineb" THEN MAXLINE - 1 ELSE MAXLINE
      <3> TAKE x \in Ends
      <3>1. CASE x = e
        <4>1. Len(usr'[x]) = 0
          BY <1>3, <1>4, <3>1
        <4> QED
          BY <4>1
      <3>2. CASE x # e
        <4>1. usr'[x] = usr[x] /\ call'[x] = call[x]
          BY <1>3, <3>2
        <4>2. Len(usr[x]) <= IF call[x] = "readlineb" THEN MAXLINE - 1 ELSE MAXLINE
          BY <1>1, Zenon DEF Buffered
        <4> QED
          BY <4>1, <4>2
      <3> QED
        BY <3>1, <3>2
    <2>3. \A x \in Ends : usr'[x] # <<>> => Reading(x)'
      BY <1>1, <1>3 DEF Buffered, Reading
    <2>4. \A x \in Ends : out'[Peer(x)] # <<>> <=> call'[x] = "writen"
      <3> TAKE x \in Ends
      <3>1. CASE x = e
        <4>1. out'[q] = <<>> /\ call'[e] # "writen"
          BY <1>0, <1>3
        <4> QED
          BY <3>1, <4>1
      <3>2. CASE x = q
        <4>1. out'[e] = out[e] /\ call'[q] = call[q]
          BY <1>0, <1>3
        <4>2. out[e] # <<>> <=> call[q] = "writen"
          BY <1>0, <1>1 DEF Buffered
        <4> QED
          BY <1>0, <3>2, <4>1, <4>2
      <3> QED
        BY <3>1, <3>2, Peers
    <2> QED
      BY <2>1, <2>2, <2>3, <2>4 DEF Buffered
  <1>7. Gone(e)'
    BY <1>3 DEF Gone
  <1>8. Streamed'
    <2>1. ~Gone(q)' => \A k \in 1 .. Len(Pending(q)') : Pending(q)'[k].at = got'[q] + k
      <3> SUFFICES ASSUME ~Gone(q)'
                   PROVE  \A k \in 1 .. Len(Pending(q)') : Pending(q)'[k].at = got'[q] + k
        OBVIOUS
      <3>1. \A k \in 1 .. Len(Pending(q)) : Pending(q)[k].at = got[q] + k
        BY <1>0, <1>1, <1>3 DEF Gone, Streamed
      <3> DEFINE rest == usr[q] \o rio[q] \o net[q] \o <<>>
      <3>2. \A k \in 1 .. Len(rest) : rest[k].at = got[q] + k
        BY <1>0, <1>1, <3>1, ThrownAway
      <3>3. Pending(q)' = rest
        BY <1>0, <1>3 DEF Pending
      <3>4. got'[q] = got[q]
        BY <1>0
      <3> QED
        BY <3>2, <3>3, <3>4, Zenon
    <2> QED
      BY <1>0, <1>7, <2>1, Peers, TwoEnds DEF Streamed
  <1>9. Turns'
    BY <1>7, TwoEnds DEF Turns
  <1> QED
    BY <1>5, <1>6, <1>8, <1>9 DEF RioInv

----------------------------------------------------------------------------
(* The two processes *)

LEMMA AskStep ==
  ASSUME RioInv, Ask
  PROVE  RioInv'
  <1>1. RioTypes /\ Buffered /\ Streamed /\ Turns
    BY DEF RioInv
  <1>2. /\ call["client"] = "fgets" /\ asked < Orders /\ ~cut
        /\ call' = [call EXCEPT !["client"] = "writen"] /\ asked' = asked + 1
        /\ UNCHANGED <<reader, net, rio, usr, got, shown>>
    BY DEF Ask
  <1>3. PICK line \in Lines \cup {CutLine} : Give("server", line) /\ cut' = (line = CutLine)
    BY DEF Ask
  <1>4. /\ line \in Seq(Chars) /\ Len(line) \in 1 .. MAXLINE - 1 /\ Len(line) \in Nat
        /\ \A k \in 1 .. Len(line) - 1 : line[k] # "end"
    BY LineChars, LenProperties
  <1> DEFINE new == Placed("server", line)
  <1>5. /\ out' = [out EXCEPT !["server"] = new]
        /\ given' = [given EXCEPT !["server"] = @ + Len(line)]
    BY <1>3 DEF Give
  <1>6. new \in Seq(Bytes) /\ Len(new) = Len(line)
    BY <1>1, <1>4, PlacedBytes, TwoEnds DEF RioTypes
  <1> HIDE DEF new
  <1>7. /\ out'["server"] = new /\ out'["client"] = out["client"]
        /\ given'["server"] = given["server"] + Len(line) /\ given'["client"] = given["client"]
        /\ call'["client"] = "writen" /\ call'["server"] = call["server"]
    BY <1>1, <1>2, <1>5, TwoEnds DEF RioTypes
  <1>8. new # <<>> /\ out["server"] = <<>> /\ usr["client"] = <<>>
    <2>1. new # <<>>
      BY <1>4, <1>6, EmptySeq
    <2>2. out["server"] = <<>>
      BY <1>1, <1>2, Peers, TwoEnds DEF Buffered
    <2>3. usr["client"] = <<>>
      BY <1>1, <1>2, TwoEnds DEF Buffered, Reading
    <2> QED
      BY <2>1, <2>2, <2>3
  <1>9. RioTypes'
    <2>0. out \in [Ends -> Seq(Bytes)] /\ given \in [Ends -> Nat]
      BY <1>1 DEF RioTypes
    <2>1. given["server"] + Len(line) \in Nat
      BY <1>4, <2>0, TwoEnds
    <2>4. out' \in [Ends -> Seq(Bytes)] /\ given' \in [Ends -> Nat]
      BY <1>5, <1>6, <2>0, <2>1
    <2>2. /\ call' \in [Ends -> {"fgets", "writen", "readnb", "readlineb", "closed", "killed"}]
          /\ call'["client"] \in {"fgets", "writen", reader, "closed", "killed"}
          /\ call'["server"] \in {"writen", "readlineb", "closed", "killed"}
      BY <1>1, <1>2, <1>7, TwoEnds DEF RioTypes
    <2>3. /\ asked' \in 0 .. Orders /\ cut' \in BOOLEAN /\ shown' \in 0 .. asked' /\ shown' < asked'
      BY <1>1, <1>2, <1>3 DEF RioTypes
    <2> QED
      BY <1>1, <1>2, <2>2, <2>3, <2>4 DEF RioTypes
  <1>10. Buffered'
    <2>1. \A x \in Ends : out'[Peer(x)] # <<>> <=> call'[x] = "writen"
      BY <1>1, <1>7, <1>8, Peers, TwoEnds DEF Buffered
    <2>2. \A x \in Ends : Reading(x)' <=> Reading(x)
      BY <1>2, <1>7, TwoEnds DEF Reading
    <2>3. \A x \in Ends : call'[x] = "readlineb" <=> call[x] = "readlineb"
      BY <1>2, <1>7, TwoEnds
    <2> QED
      BY <1>1, <1>2, <2>1, <2>2, <2>3 DEF Buffered
  <1>11. Pending("client")' = Pending("client")
    BY <1>2, <1>7 DEF Pending
  <1>12. Gone("server")' <=> Gone("server")
    BY <1>7 DEF Gone
  <1>13. ~Gone("client") /\ ~Gone("client")'
    BY <1>2, <1>7 DEF Gone
  <1>14. ASSUME ~Gone("server")
         PROVE  /\ Len(Pending("server")') = Len(Pending("server")) + Len(line)
                /\ \A k \in 1 .. Len(Pending("server")') : Pending("server")'[k].at = got["server"] + k
                /\ \A k \in 1 .. Len(line) : Pending("server")'[Len(Pending("server")) + k].ch = line[k]
                /\ got["server"] + Len(Pending("server")') = given["server"] + Len(line)
    <2>1. /\ \A k \in 1 .. Len(Pending("server")) : Pending("server")[k].at = got["server"] + k
          /\ got["server"] + Len(Pending("server")) = given["server"]
      BY <1>1, <1>13, <1>14, TwoEnds DEF Streamed
    <2>2. Pending("server")' = usr["server"] \o rio["server"] \o net["server"] \o new
      BY <1>2, <1>7 DEF Pending
    <2> DEFINE after == usr["server"] \o rio["server"] \o net["server"] \o Placed("server", line)
    <2>3. /\ Len(after) = Len(Pending("server")) + Len(line)
          /\ \A k \in 1 .. Len(after) : after[k].at = got["server"] + k
          /\ \A k \in 1 .. Len(line) : after[Len(Pending("server")) + k].ch = line[k]
          /\ got["server"] + Len(after) = given["server"] + Len(line)
      BY ONLY <1>1, <1>4, <1>8, <2>1, Handed, TwoEnds
    <2>4. Pending("server")' = after
      BY <2>2 DEF new
    <2> HIDE DEF after
    <2> QED
      BY <2>3, <2>4
  <1>15. Streamed'
    <2>1. ASSUME NEW x \in Ends, ~Gone(x)'
          PROVE  \A k \in 1 .. Len(Pending(x)') : Pending(x)'[k].at = got'[x] + k
      <3>1. CASE x = "client"
        BY <1>1, <1>2, <1>11, <1>13, <3>1 DEF Streamed
      <3>2. CASE x = "server"
        BY <1>2, <1>12, <1>14, <2>1, <3>2
      <3> QED
        BY <3>1, <3>2, TwoEnds
    <2>2. ASSUME NEW x \in Ends, ~Gone("server")'
          PROVE  got'[x] + Len(Pending(x)') = given'[x]
      <3>1. CASE x = "client"
        BY <1>1, <1>2, <1>7, <1>11, <1>12, <1>13, <2>2, <3>1 DEF Streamed
      <3>2. CASE x = "server"
        BY <1>2, <1>7, <1>12, <1>14, <2>2, <3>2
      <3> QED
        BY <3>1, <3>2, TwoEnds
    <2> QED
      BY <2>1, <2>2 DEF Streamed
  <1>16. Turns'
    <2> SUFFICES ASSUME reader = "readnb", ~Gone("server")
                 PROVE  /\ call'["client"] \in {"writen", "readnb"} /\ call'["server"] = "readlineb"
                        /\ Pending("client")' = <<>> /\ OneLine(Pending("server"))'
                        /\ given'["client"] = (asked' - 1) * MAXLINE
      BY <1>2, <1>12 DEF Turns
    <2>1. /\ call["server"] = "readlineb" /\ Pending("client") = <<>> /\ Pending("server") = <<>>
          /\ given["client"] = asked * MAXLINE
      BY <1>1, <1>2, <1>13 DEF Turns
    <2>2. Len(Pending("server")) = 0
      BY <2>1, EmptySeq
    <2>3. Len(Pending("server")') = Len(line)
      BY <1>4, <1>14, <2>2
    <2>4. \A k \in 1 .. Len(line) : Pending("server")'[k].ch = line[k]
      BY <1>4, <1>14, <2>2
    <2>5. OneLine(Pending("server"))'
      BY <1>4, <2>3, <2>4 DEF OneLine
    <2>6. asked' - 1 = asked
      BY <1>1, <1>2 DEF RioTypes
    <2> QED
      BY <1>7, <1>11, <2>1, <2>5, <2>6
  <1> QED
    BY <1>9, <1>10, <1>15, <1>16 DEF RioInv

LEMMA ShowStep ==
  ASSUME RioInv, Show
  PROVE  RioInv'
  <1>1. RioTypes /\ Buffered /\ Streamed /\ Turns
    BY DEF RioInv
  <1>2. /\ Reading("client") /\ (Complete("client") \/ EndOfFile("client"))
        /\ got' = [got EXCEPT !["client"] = @ + Len(usr["client"])]
        /\ usr' = [usr EXCEPT !["client"] = <<>>]
        /\ call' = [call EXCEPT !["client"] = "fgets"] /\ shown' = shown + 1
        /\ UNCHANGED <<reader, out, net, rio, given, asked, cut>>
    BY DEF Show, Returns
  <1>3. /\ usr'["client"] = <<>> /\ usr'["server"] = usr["server"]
        /\ got'["client"] = got["client"] + Len(usr["client"]) /\ got'["server"] = got["server"]
        /\ call'["client"] = "fgets" /\ call'["server"] = call["server"]
    BY <1>1, <1>2, TwoEnds DEF RioTypes
  <1>4. Len(usr["client"]) \in Nat /\ got["client"] \in Nat /\ <<>> \in Seq(Bytes) /\ Len(<<>>) = 0
    BY <1>1, FourParts, EmptySeq, TwoEnds DEF RioTypes
  <1>5. RioTypes'
    <2>0. got["client"] + Len(usr["client"]) \in Nat
      BY <1>4
    <2>1. usr' \in [Ends -> Seq(Bytes)] /\ got' \in [Ends -> Nat]
      BY <1>1, <1>2, <1>4, <2>0 DEF RioTypes
    <2>2. /\ call' \in [Ends -> {"fgets", "writen", "readnb", "readlineb", "closed", "killed"}]
          /\ call'["client"] \in {"fgets", "writen", reader, "closed", "killed"}
          /\ call'["server"] \in {"writen", "readlineb", "closed", "killed"}
      BY <1>1, <1>2, <1>3, TwoEnds DEF RioTypes
    <2>3. shown' \in 0 .. asked
      BY <1>1, <1>2 DEF RioTypes, Reading
    <2> QED
      BY <1>1, <1>2, <1>3, <2>1, <2>2, <2>3 DEF RioTypes
  <1>6. Buffered'
    <2>1. \A x \in Ends : call'[x] = "writen" <=> call[x] = "writen"
      BY <1>2, <1>3, TwoEnds DEF Reading
    <2>2. \A x \in Ends : Len(usr'[x]) <= IF call'[x] = "readlineb" THEN MAXLINE - 1 ELSE MAXLINE
      <3>1. Len(usr'["client"]) <= IF call'["client"] = "readlineb" THEN MAXLINE - 1 ELSE MAXLINE
        BY <1>3, <1>4
      <3>2. Len(usr'["server"]) <= IF call'["server"] = "readlineb" THEN MAXLINE - 1 ELSE MAXLINE
        BY <1>1, <1>3, TwoEnds DEF Buffered
      <3> QED
        BY <3>1, <3>2, TwoEnds
    <2>3. \A x \in Ends : usr'[x] # <<>> => Reading(x)'
      BY <1>1, <1>3, TwoEnds DEF Buffered, Reading
    <2> QED
      BY <1>1, <1>2, <2>1, <2>2, <2>3 DEF Buffered
  <1>7. Pending("server")' = Pending("server")
    BY <1>2, <1>3 DEF Pending
  <1>8. Gone("server")' <=> Gone("server")
    BY <1>3 DEF Gone
  <1>9. ~Gone("client") /\ ~Gone("client")'
    BY <1>2, <1>3 DEF Gone, Reading
  <1> DEFINE m == Len(usr["client"])
             left == Len(Pending("client")')
  <1>10. /\ Len(Pending("client")) = m + left /\ left \in Nat /\ left >= Len(out["client"])
         /\ Pending("client")' = <<>> <=> left = 0
         /\ \A k \in 1 .. left : Pending("client")'[k].at = got["client"] + m + k
    <2> DEFINE rest == <<>> \o rio["client"] \o net["client"] \o out["client"]
    <2>1. \A k \in 1 .. Len(Pending("client")) : Pending("client")[k].at = got["client"] + k
      BY <1>1, <1>9, TwoEnds DEF Streamed
    <2>2. /\ Len(Pending("client")) = m + Len(rest) /\ Len(rest) \in Nat /\ Len(rest) >= Len(out["client"])
          /\ rest = <<>> <=> Len(rest) = 0
          /\ \A k \in 1 .. Len(rest) : rest[k].at = got["client"] + m + k
      BY ONLY <1>1, <2>1, Taken, TwoEnds
    <2>3. Pending("client")' = rest
      BY <1>2, <1>3 DEF Pending
    <2> HIDE DEF rest
    <2> QED
      BY <2>2, <2>3
  <1>11. Streamed'
    <2>1. ASSUME NEW x \in Ends, ~Gone(x)'
          PROVE  \A k \in 1 .. Len(Pending(x)') : Pending(x)'[k].at = got'[x] + k
      <3>1. CASE x = "server"
        BY <1>1, <1>3, <1>7, <1>8, <2>1, <3>1, TwoEnds DEF Streamed
      <3>2. CASE x = "client"
        BY <1>3, <1>10, <3>2
      <3> QED
        BY <3>1, <3>2, TwoEnds
    <2>2. ASSUME NEW x \in Ends, ~Gone("server")'
          PROVE  got'[x] + Len(Pending(x)') = given'[x]
      <3>0. got[x] + Len(Pending(x)) = given[x]
        BY <1>1, <1>8, <1>9, <2>2 DEF Streamed
      <3>1. CASE x = "server"
        BY <1>2, <1>3, <1>7, <3>0, <3>1
      <3>2. CASE x = "client"
        <4> DEFINE g == got["client"]
        <4>1. g + (m + left) = given["client"] /\ g \in Nat /\ m \in Nat /\ left \in Nat
          BY <1>4, <1>10, <3>0, <3>2
        <4>2. got'[x] = g + m
          BY <1>3, <3>2
        <4> HIDE DEF g, m, left
        <4>3. g + m + left = given["client"]
          BY <4>1
        <4> QED
          BY <1>2, <3>2, <4>2, <4>3 DEF left
      <3> QED
        BY <3>1, <3>2, TwoEnds
    <2> QED
      BY <2>1, <2>2 DEF Streamed
  <1>12. Turns'
    <2> SUFFICES ASSUME reader = "readnb", ~Gone("server")
                 PROVE  /\ call'["client"] = "fgets" /\ call'["server"] = "readlineb"
                        /\ Pending("client")' = <<>> /\ Pending("server")' = <<>>
                        /\ given'["client"] = asked' * MAXLINE
      BY <1>2, <1>8 DEF Turns
    <2>1. call["client"] = "readnb"
      BY <1>1, <1>2 DEF Reading, RioTypes
    <2>2. m = MAXLINE
      BY <1>2, <2>1, Peers DEF Complete, EndOfFile
    <2>3. Pending("client") # <<>>
      <3>1. Pending("client") = <<>> => m + left = 0
        BY <1>10, <1>4
      <3> HIDE DEF m, left
      <3>2. m + left # 0
        BY <1>10, <2>2
      <3> QED
        BY <3>1, <3>2
    <2>4. /\ Len(Pending("client")) = MAXLINE /\ Pending("server") = <<>>
          /\ given["client"] = asked * MAXLINE
      BY <1>1, <1>2, <1>9, <2>1, <2>3 DEF Turns
    <2>5. left = 0 /\ Len(out["client"]) \in Nat
      <3>1. Len(out["client"]) \in Nat
        BY <1>1, FourParts, TwoEnds
      <3> HIDE DEF m, left
      <3> QED
        BY <1>10, <2>2, <2>4, <3>1
    <2>6. Pending("client")' = <<>> /\ Len(out["client"]) = 0
      BY <1>10, <2>5
    <2>7. out["client"] = <<>>
      BY <1>1, <2>6, FourParts, TwoEnds
    <2>8. call["server"] # "writen"
      BY <1>1, <2>7, Peers, TwoEnds DEF Buffered
    <2>9. call["server"] = "readlineb"
      BY <1>1, <2>8 DEF RioTypes, Gone
    <2> QED
      BY <1>2, <1>3, <1>7, <2>4, <2>6, <2>9
  <1> QED
    BY <1>5, <1>6, <1>11, <1>12 DEF RioInv

LEMMA LeaveStep ==
  ASSUME RioInv, Leave \/ Kill
  PROVE  RioInv'
  <1>1. PICK how \in {"closed", "killed"} : Close("client", how)
    BY DEF Leave, Kill
  <1>2. UNCHANGED <<reader, given, got, asked, cut, shown>>
    BY DEF Leave, Kill
  <1>3. got' \in [Ends -> Nat]
    BY <1>2 DEF RioInv, RioTypes
  <1> QED
    BY <1>1, <1>2, <1>3, CloseStep, TwoEnds

LEMMA FinishStep ==
  ASSUME RioInv, Finish
  PROVE  RioInv'
  <1>1. /\ got' = [got EXCEPT !["server"] = @ + Len(usr["server"])]
        /\ Close("server", "closed") /\ UNCHANGED <<reader, given, asked, cut, shown>>
    BY DEF Finish
  <1>2. got \in [Ends -> Nat] /\ Len(usr["server"]) \in Nat
    BY FourParts, TwoEnds DEF RioInv, RioTypes
  <1>3. got["server"] + Len(usr["server"]) \in Nat
    BY <1>2, TwoEnds
  <1>4. got' \in [Ends -> Nat] /\ \A x \in Ends : x # "server" => got'[x] = got[x]
    BY <1>1, <1>2, <1>3
  <1> QED
    BY <1>1, <1>4, CloseStep, TwoEnds

LEMMA ServeStep ==
  ASSUME RioInv, Serve
  PROVE  RioInv'
  <1>1. RioTypes /\ Buffered /\ Streamed /\ Turns
    BY DEF RioInv
  <1>2. /\ call["server"] = "readlineb" /\ (Complete("server") \/ EndOfFile("server"))
        /\ got' = [got EXCEPT !["server"] = @ + Len(usr["server"])]
        /\ usr' = [usr EXCEPT !["server"] = <<>>] /\ usr["server"] # <<>>
        /\ call' = [call EXCEPT !["server"] = "writen"]
        /\ UNCHANGED <<reader, net, rio, asked, cut, shown>>
    BY DEF Serve, Returns
  <1>3. PICK answer \in Answers : Give("client", answer)
    BY DEF Serve
  <1>4. answer \in Seq(Chars) /\ Len(answer) = MAXLINE
    BY AnswerChars
  <1> DEFINE new == Placed("client", answer)
  <1>5. /\ out' = [out EXCEPT !["client"] = new]
        /\ given' = [given EXCEPT !["client"] = @ + MAXLINE]
    BY <1>3, <1>4 DEF Give
  <1>6. new \in Seq(Bytes) /\ Len(new) = MAXLINE
    BY <1>1, <1>4, PlacedBytes, TwoEnds DEF RioTypes
  <1> HIDE DEF new
  <1>7. /\ out'["client"] = new /\ out'["server"] = out["server"]
        /\ given'["client"] = given["client"] + MAXLINE /\ given'["server"] = given["server"]
        /\ usr'["server"] = <<>> /\ usr'["client"] = usr["client"]
        /\ got'["server"] = got["server"] + Len(usr["server"]) /\ got'["client"] = got["client"]
        /\ call'["server"] = "writen" /\ call'["client"] = call["client"]
    BY <1>1, <1>2, <1>5, TwoEnds DEF RioTypes
  <1>8. /\ Len(usr["server"]) \in Nat /\ got["server"] \in Nat /\ <<>> \in Seq(Bytes)
        /\ Len(<<>>) = 0 /\ Len(usr["server"]) # 0
    BY <1>1, <1>2, FourParts, EmptySeq, TwoEnds DEF RioTypes
  <1>9. new # <<>> /\ out["client"] = <<>>
    <2>1. new # <<>>
      BY <1>6, EmptySeq
    <2>2. out["client"] = <<>>
      BY <1>1, <1>2, Peers, TwoEnds DEF Buffered
    <2> QED
      BY <2>1, <2>2
  <1>10. RioTypes'
    <2>0. got["server"] + Len(usr["server"]) \in Nat
      BY <1>8
    <2>3. /\ out \in [Ends -> Seq(Bytes)] /\ given \in [Ends -> Nat]
          /\ usr \in [Ends -> Seq(Bytes)] /\ got \in [Ends -> Nat]
      BY <1>1 DEF RioTypes
    <2>4. given["client"] + MAXLINE \in Nat
      BY <2>3, TwoEnds
    <2>5. out' \in [Ends -> Seq(Bytes)] /\ given' \in [Ends -> Nat]
      BY <1>5, <1>6, <2>3, <2>4
    <2>6. usr' \in [Ends -> Seq(Bytes)] /\ got' \in [Ends -> Nat]
      BY <1>2, <1>8, <2>0, <2>3
    <2>1. /\ out' \in [Ends -> Seq(Bytes)] /\ given' \in [Ends -> Nat]
          /\ usr' \in [Ends -> Seq(Bytes)] /\ got' \in [Ends -> Nat]
      BY <2>5, <2>6
    <2>2. /\ call' \in [Ends -> {"fgets", "writen", "readnb", "readlineb", "closed", "killed"}]
          /\ call'["client"] \in {"fgets", "writen", reader, "closed", "killed"}
          /\ call'["server"] \in {"writen", "readlineb", "closed", "killed"}
      BY <1>1, <1>2, <1>7, TwoEnds DEF RioTypes
    <2> QED
      BY <1>1, <1>2, <1>7, <2>1, <2>2 DEF RioTypes
  <1>11. Buffered'
    <2>1. \A x \in Ends : out'[Peer(x)] # <<>> <=> call'[x] = "writen"
      BY <1>1, <1>7, <1>9, Peers, TwoEnds DEF Buffered
    <2>2. \A x \in Ends : Len(usr'[x]) <= IF call'[x] = "readlineb" THEN MAXLINE - 1 ELSE MAXLINE
      <3>1. Len(usr'["server"]) <= IF call'["server"] = "readlineb" THEN MAXLINE - 1 ELSE MAXLINE
        BY <1>7, <1>8
      <3>2. Len(usr'["client"]) <= IF call'["client"] = "readlineb" THEN MAXLINE - 1 ELSE MAXLINE
        BY <1>1, <1>7, TwoEnds DEF Buffered
      <3> QED
        BY <3>1, <3>2, TwoEnds
    <2>3. \A x \in Ends : usr'[x] # <<>> => Reading(x)'
      BY <1>1, <1>7, TwoEnds DEF Buffered, Reading
    <2> QED
      BY <1>1, <1>2, <2>1, <2>2, <2>3 DEF Buffered
  <1>12. Gone("client")' <=> Gone("client")
    BY <1>7 DEF Gone
  <1>13. ~Gone("server") /\ ~Gone("server")'
    BY <1>2, <1>7 DEF Gone
  <1>14. ASSUME ~Gone("client")
         PROVE  /\ Len(Pending("client")') = Len(Pending("client")) + MAXLINE
                /\ \A k \in 1 .. Len(Pending("client")') : Pending("client")'[k].at = got["client"] + k
                /\ got["client"] + Len(Pending("client")') = given["client"] + MAXLINE
    <2>1. /\ \A k \in 1 .. Len(Pending("client")) : Pending("client")[k].at = got["client"] + k
          /\ got["client"] + Len(Pending("client")) = given["client"]
      BY <1>1, <1>13, <1>14, TwoEnds DEF Streamed
    <2>2. Pending("client")' = usr["client"] \o rio["client"] \o net["client"] \o new
      BY <1>2, <1>7 DEF Pending
    <2> DEFINE after == usr["client"] \o rio["client"] \o net["client"] \o Placed("client", answer)
    <2>3. /\ Len(after) = Len(Pending("client")) + Len(answer)
          /\ \A k \in 1 .. Len(after) : after[k].at = got["client"] + k
          /\ got["client"] + Len(after) = given["client"] + Len(answer)
      BY ONLY <1>1, <1>4, <1>9, <2>1, Handed, TwoEnds
    <2>4. Pending("client")' = after
      BY <2>2 DEF new
    <2> HIDE DEF after
    <2> QED
      BY <1>4, <2>3, <2>4
  <1> DEFINE m == Len(usr["server"])
             left == Len(Pending("server")')
  <1>15. /\ Len(Pending("server")) = m + left /\ left \in Nat /\ left >= Len(out["server"])
         /\ Pending("server")' = <<>> <=> left = 0
         /\ \A k \in 1 .. left : Pending("server")'[k].at = got["server"] + m + k
         /\ \A k \in 1 .. m : Pending("server")[k] = usr["server"][k]
    <2> DEFINE rest == <<>> \o rio["server"] \o net["server"] \o out["server"]
    <2>1. \A k \in 1 .. Len(Pending("server")) : Pending("server")[k].at = got["server"] + k
      BY <1>1, <1>13, TwoEnds DEF Streamed
    <2>2. /\ Len(Pending("server")) = m + Len(rest) /\ Len(rest) \in Nat /\ Len(rest) >= Len(out["server"])
          /\ rest = <<>> <=> Len(rest) = 0
          /\ \A k \in 1 .. Len(rest) : rest[k].at = got["server"] + m + k
          /\ \A k \in 1 .. m : Pending("server")[k] = usr["server"][k]
      BY ONLY <1>1, <2>1, Taken, TwoEnds
    <2>3. Pending("server")' = rest
      BY <1>2, <1>7 DEF Pending
    <2> HIDE DEF rest
    <2> QED
      BY <2>2, <2>3
  <1>16. Streamed'
    <2>1. ASSUME NEW x \in Ends, ~Gone(x)'
          PROVE  \A k \in 1 .. Len(Pending(x)') : Pending(x)'[k].at = got'[x] + k
      <3>1. CASE x = "client"
        BY <1>7, <1>12, <1>14, <2>1, <3>1
      <3>2. CASE x = "server"
        BY <1>7, <1>15, <3>2
      <3> QED
        BY <3>1, <3>2, TwoEnds
    <2>2. ASSUME NEW x \in Ends, ~Gone("client")'
          PROVE  got'[x] + Len(Pending(x)') = given'[x]
      <3>1. CASE x = "client"
        BY <1>7, <1>12, <1>14, <2>2, <3>1
      <3>2. CASE x = "server"
        <4> DEFINE g == got["server"]
        <4>0. got["server"] + Len(Pending("server")) = given["server"]
          BY <1>1, <1>12, <1>13, <2>2, TwoEnds DEF Streamed
        <4>1. g + (m + left) = given["server"] /\ g \in Nat /\ m \in Nat /\ left \in Nat
          BY <1>8, <1>15, <4>0
        <4>2. got'[x] = g + m
          BY <1>7, <3>2
        <4> HIDE DEF g, m, left
        <4>3. g + m + left = given["server"]
          BY <4>1
        <4> QED
          BY <1>7, <3>2, <4>2, <4>3 DEF left
      <3> QED
        BY <3>1, <3>2, TwoEnds
    <2> QED
      BY <2>1, <2>2 DEF Streamed
  <1>17. Turns'
    <2> SUFFICES ASSUME reader = "readnb", ~Gone("client")
                 PROVE  /\ call'["client"] = "readnb"
                        /\ Len(Pending("client")') = MAXLINE /\ Pending("server")' = <<>>
                        /\ given'["client"] = asked' * MAXLINE
      BY <1>2, <1>12 DEF Turns
    <2>1. Len(Pending("server")) # 0
      <3> HIDE DEF m, left
      <3>1. m \in Nat /\ m # 0
        BY <1>8 DEF m
      <3> QED
        BY <1>15, <3>1
    <2>2. Pending("server") # <<>>
      BY <2>1, EmptySeq
    <2>3. /\ call["client"] \in {"writen", "readnb"} /\ Pending("client") = <<>>
          /\ OneLine(Pending("server")) /\ given["client"] = (asked - 1) * MAXLINE
      BY <1>1, <1>13, <2>2 DEF Turns
    <2>4. Complete("server")
      BY <1>2, Peers DEF EndOfFile
    <2>5. m = MAXLINE - 1 \/ usr["server"][m].ch = "end"
      BY <1>2, <2>4 DEF Complete
    <2>6. left = 0
      <3>1. m + left \in 1 .. MAXLINE - 1 /\ \A k \in 1 .. m + left - 1 : Pending("server")[k].ch # "end"
        BY <1>15, <2>3 DEF OneLine
      <3>2. m \in Nat /\ m # 0 /\ left \in Nat
        BY <1>8, <1>15
      <3>3. CASE m = MAXLINE - 1
        <4> HIDE DEF m, left
        <4> QED
          BY <3>1, <3>2, <3>3
      <3>4. CASE usr["server"][m].ch = "end"
        <4>1. m \in 1 .. m
          BY <3>2
        <4>2. Pending("server")[m].ch = "end"
          BY <1>15, <3>4, <4>1
        <4> HIDE DEF m, left
        <4>3. m \notin 1 .. m + left - 1
          BY <3>1, <4>2
        <4> QED
          BY <3>2, <4>3
      <3> QED
        BY <2>5, <3>3, <3>4
    <2>7. Pending("server")' = <<>> /\ Len(out["server"]) = 0
      <3>1. Len(out["server"]) \in Nat
        BY <1>1, FourParts, TwoEnds
      <3> QED
        BY <1>15, <2>6, <3>1
    <2>8. out["server"] = <<>>
      BY <1>1, <2>7, FourParts, TwoEnds
    <2>9. call["client"] = "readnb"
      BY <1>1, <2>3, <2>8, Peers, TwoEnds DEF Buffered
    <2>10. Len(Pending("client")') = MAXLINE
      <3>1. Len(Pending("client")) = 0
        BY <2>3, EmptySeq
      <3> QED
        BY <1>14, <3>1
    <2>11. given'["client"] = asked' * MAXLINE
      <3>1. (asked - 1) * MAXLINE + MAXLINE = asked * MAXLINE
        <4>1. asked \in Int /\ MAXLINE \in Int
          BY <1>1 DEF RioTypes
        <4>2. (asked - 1) * MAXLINE = asked * MAXLINE - MAXLINE /\ asked * MAXLINE \in Int
          BY ONLY <4>1
        <4> QED
          BY ONLY <4>1, <4>2
      <3> QED
        BY <1>2, <1>7, <2>3, <3>1
    <2> QED
      BY <1>7, <2>7, <2>9, <2>10, <2>11
  <1> QED
    BY <1>10, <1>11, <1>16, <1>17 DEF RioInv

LEMMA RioStays ==
  ASSUME RioInv, UNCHANGED rioVars
  PROVE  RioInv'
  <1>1. UNCHANGED <<reader, call, out, net, rio, usr, given, got, asked, cut, shown>>
    BY DEF rioVars
  <1>2. RioTypes' /\ Buffered'
    BY <1>1 DEF RioInv, RioTypes, Buffered, Reading
  <1>3. \A x \in Ends : Pending(x)' = Pending(x)
    BY <1>1 DEF Pending
  <1>4. Streamed' /\ Turns'
    BY <1>1, <1>3, Moves
  <1> QED
    BY <1>2, <1>4 DEF RioInv

LEMMA InitRioInv ==
  ASSUME Init
  PROVE  RioInv
  <1>1. /\ reader \in {"readnb", "readlineb"}
        /\ call = [e \in Ends |-> IF e = "client" THEN "fgets" ELSE "readlineb"]
        /\ out = [e \in Ends |-> <<>>] /\ net = [e \in Ends |-> <<>>]
        /\ rio = [e \in Ends |-> <<>>] /\ usr = [e \in Ends |-> <<>>]
        /\ given = [e \in Ends |-> 0] /\ got = [e \in Ends |-> 0]
        /\ asked = 0 /\ cut = FALSE /\ shown = 0
    BY DEF Init
  <1>2. <<>> \in Seq(Bytes) /\ Len(<<>>) = 0
    BY EmptySeq
  <1>3. RioTypes
    <2>1. /\ out \in [Ends -> Seq(Bytes)] /\ net \in [Ends -> Seq(Bytes)]
          /\ rio \in [Ends -> Seq(Bytes)] /\ usr \in [Ends -> Seq(Bytes)]
      BY <1>1, <1>2
    <2>2. /\ call \in [Ends -> {"fgets", "writen", "readnb", "readlineb", "closed", "killed"}]
          /\ call["client"] = "fgets" /\ call["server"] = "readlineb"
      BY <1>1, TwoEnds
    <2>3. given \in [Ends -> Nat] /\ got \in [Ends -> Nat]
      BY <1>1
    <2>4. asked \in 0 .. Orders /\ shown \in 0 .. asked
      BY <1>1
    <2> QED
      BY <1>1, <2>1, <2>2, <2>3, <2>4 DEF RioTypes
  <1>4. Buffered
    BY <1>1, <1>2, Peers DEF Buffered
  <1>5. \A e \in Ends : Len(Pending(e)) = 0 /\ Pending(e) = <<>>
    <2> TAKE e \in Ends
    <2>1. Len(usr[e]) = 0 /\ Len(rio[e]) = 0 /\ Len(net[e]) = 0 /\ Len(out[e]) = 0
      BY <1>1, <1>2
    <2>2. Len(Pending(e)) = 0
      <3>1. Len(Pending(e)) = Len(usr[e]) + Len(rio[e]) + Len(net[e]) + Len(out[e])
        BY <1>3, FourParts
      <3> HIDE DEF Pending
      <3> QED
        BY ONLY <2>1, <3>1
    <2> QED
      BY <1>3, <2>2, FourParts
  <1>6. Streamed
    BY <1>1, <1>5 DEF Streamed
  <1>7. Turns
    BY <1>1, <1>5, TwoEnds DEF Turns
  <1> QED
    BY <1>3, <1>4, <1>6, <1>7 DEF RioInv

----------------------------------------------------------------------------
(* Every step keeps the invariant *)

LEMMA EndStep ==
  ASSUME RioInv, NEW e \in Ends, End(e)
  PROVE  RioInv'
  BY WriteStep, WriteGoneStep, RefillStep, CopyStep DEF End

LEMMA IInvStep ==
  ASSUME IInv, [Next]_vars
  PROVE  IInv'
  <1>1. SockInv /\ RioInv
    BY DEF IInv
  <1>2. CASE ClientStep
    <2>1. UNCHANGED sockVars /\ (End("client") \/ Show)
      BY <1>2 DEF ClientStep, Connected
    <2> QED
      BY <1>1, <2>1, EndStep, ShowStep, SockStays, TwoEnds DEF IInv
  <1>3. CASE ServerStep
    <2>1. UNCHANGED sockVars /\ (End("server") \/ Serve \/ Finish)
      BY <1>3 DEF ServerStep, Connected
    <2> QED
      BY <1>1, <2>1, EndStep, ServeStep, FinishStep, SockStays, TwoEnds DEF IInv
  <1>4. CASE UserStep
    <2>1. UNCHANGED sockVars /\ (Ask \/ Leave \/ Kill)
      BY <1>4 DEF UserStep, Connected
    <2> QED
      BY <1>1, <2>1, AskStep, LeaveStep, SockStays DEF IInv
  <1>5. CASE SetUp /\ UNCHANGED rioVars
    BY <1>1, <1>5, SetUpStep, RioStays DEF IInv
  <1>6. CASE UNCHANGED vars
    BY <1>1, <1>6, SockStays, RioStays DEF IInv, vars
  <1> QED
    BY <1>2, <1>3, <1>4, <1>5, <1>6 DEF Next

----------------------------------------------------------------------------
(* The theorems *)

(* The inductive invariant holds.                                          *)
THEOREM IInvHolds == Spec => []IInv
  <1>1. Init => IInv
    BY InitSockInv, InitRioInv DEF IInv
  <1>2. IInv /\ [Next]_vars => IInv'
    BY IInvStep
  <1> QED
    BY <1>1, <1>2, PTL DEF Spec

(* No call writes beyond its buffer, of any size, however the kernel splits*)
(* what is read and written (csapp.c: rio_read, rio_readnb, rio_readlineb).*)
THEOREM TypeCorrect == Spec => []TypeOK
  <1>1. IInv => TypeOK
    BY DEF IInv, RioInv, RioTypes, Buffered, TypeOK
  <1> QED
    BY <1>1, IInvHolds, PTL

(* Whatever the buffers, the room in flight and the number of lines, short *)
(* reads and writes lose, double and reorder no byte, and a client that    *)
(* reads whole answers (task_1/stockclient.c) asks with nothing left over. *)
THEOREM StreamIsKept == Spec => []StreamKept
  <1>1. ASSUME IInv
        PROVE  StreamKept
    <2>1. RioTypes /\ Streamed /\ Turns
      BY <1>1 DEF IInv, RioInv
    <2>2. ASSUME NEW e \in Ends, ~Gone(e)
          PROVE  \A k \in DOMAIN Pending(e) : Pending(e)[k].at = got[e] + k
      <3>1. DOMAIN Pending(e) = 1 .. Len(Pending(e))
        BY <2>1, FourParts, LenProperties
      <3> QED
        BY <2>1, <2>2, <3>1 DEF Streamed
    <2>3. ASSUME reader = "readnb", call["client"] = "fgets", ~Gone("server")
          PROVE  /\ Pending("client") = <<>> /\ Pending("server") = <<>>
                 /\ got["client"] = asked * MAXLINE
      <3>1. ~Gone("client")
        BY <2>3 DEF Gone
      <3>2. /\ Pending("client") = <<>> /\ Pending("server") = <<>>
            /\ given["client"] = asked * MAXLINE
        BY <2>1, <2>3, <3>1 DEF Turns
      <3>3. got["client"] + Len(Pending("client")) = given["client"] /\ got["client"] \in Nat
        BY <2>1, <2>3, <3>1, TwoEnds DEF Streamed, RioTypes
      <3>4. Len(Pending("client")) = 0
        BY <3>2, EmptySeq
      <3> QED
        BY <3>2, <3>3, <3>4
    <2> QED
      BY <2>1, <2>2, <2>3 DEF StreamKept, Streamed
  <1> QED
    BY <1>1, IInvHolds, PTL

(* Whatever the addresses and wherever a socket, bind or listen fails, no  *)
(* socket is leaked, and a client that had a way to the server got it      *)
(* (csapp.c: open_clientfd, open_listenfd).                                *)
THEOREM SetUpIsSound == Spec => []SetUpSound
  <1>1. IInv => SetUpSound
    BY DEF IInv, SockInv
  <1> QED
    BY <1>1, IInvHolds, PTL

===============================================================================
