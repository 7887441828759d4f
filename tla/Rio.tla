---------------------------------- MODULE Rio ----------------------------------
(***************************************************************************)
(* The Rio package of csapp.c over one connection of the stock server: a   *)
(* client (task_1/stockclient.c, which reads answers with Rio_readnb, or   *)
(* task_2/stockclient.c, which reads them with Rio_readlineb) and the loop *)
(* of echo_cnt (task_2/stockserver.c).                                     *)
(*                                                                         *)
(* A step is one read or write system call, or the copying that follows.   *)
(* Sockets are external: a write takes some of the bytes, as many as there *)
(* is room for; a read returns some of those that came. A call that fails  *)
(* with EINTR is made again and changes nothing. Any other error ends the  *)
(* process: here, a write to an end that was closed (SIGPIPE).             *)
(*                                                                         *)
(* Module Sockets makes the connection. The client may write as soon as    *)
(* open_clientfd has returned, before the server accepts the connection.   *)
(*                                                                         *)
(* Everything is indexed by the end that RECEIVES the bytes.               *)
(***************************************************************************)
EXTENDS Sockets

CONSTANTS MAXLINE,     \* size of usrbuf at both ends
          RIO_BUFSIZE, \* size of rio_buf
          Room,        \* bound of the model: bytes in flight to one end
          Orders       \* bound of the model: lines a client sends

Chars == {"text", "exit", "end", "fill"}

ASSUME RioAssumption ==
    /\ MAXLINE \in Nat /\ MAXLINE >= 4
    /\ RIO_BUFSIZE \in Nat \ {0}
    /\ Room \in Nat \ {0}
    /\ Orders \in Nat

VARIABLES
    reader, \* how this client reads its answers: readnb or readlineb
    call,   \* call[e]: fgets, writen, readnb, readlineb, closed or killed
    out,    \* out[e]: what rio_writen has left to write to e
    net,    \* net[e]: bytes on their way to e
    rio,    \* rio[e]: unread bytes of e's rio_buf
    usr,    \* usr[e]: usrbuf of e's present call
    given,  \* given[e]: bytes ever handed to rio_writen for e
    got,    \* got[e]: bytes that e's calls have returned
    asked,  \* lines the client has begun to send
    cut,    \* the last of them was cut off
    shown   \* answers it has printed

rioVars == <<reader, call, out, net, rio, usr, given, got, asked, cut, shown>>
vars == <<sockVars, rioVars>>

Peer(e) == IF e = "client" THEN "server" ELSE "client"
Gone(e) == call[e] \in {"closed", "killed"}
Least(a, b) == IF a < b THEN a ELSE b

(* A byte carries its place in the stream. Bytes of a message for e.       *)
Placed(e, chars) == [k \in DOMAIN chars |-> [at |-> given[e] + k, ch |-> chars[k]]]

(* What Fgets may return: a line, a line that fills the buffer, or a last  *)
(* line that the end of the input cut off.                                 *)
Lines == {<<"text", "end">>, <<"exit", "end">>, [k \in 1 .. MAXLINE - 1 |-> "text"]}
CutLine == <<"text">>

(* An answer is MAXLINE bytes: one line of text, or more, and whatever the *)
(* rest of ret_buf holds.                                                  *)
Answers == {[k \in 1 .. MAXLINE |-> IF k = 1 THEN "text" ELSE IF k \in ends THEN "end" ELSE "fill"]
               : ends \in {{2}, {2, 4}}}

(* What the two loops start with once there is a connection.               *)
Init == /\ SocketsInit
        /\ reader \in {"readnb", "readlineb"}
        /\ call = [e \in Ends |-> IF e = "client" THEN "fgets" ELSE "readlineb"]
        /\ out = [e \in Ends |-> <<>>]
        /\ net = [e \in Ends |-> <<>>]
        /\ rio = [e \in Ends |-> <<>>]
        /\ usr = [e \in Ends |-> <<>>]
        /\ given = [e \in Ends |-> 0]
        /\ got = [e \in Ends |-> 0]
        /\ asked = 0
        /\ cut = FALSE
        /\ shown = 0

----------------------------------------------------------------------------
(* rio_writen *)

Sent(e, k) == /\ out' = [out EXCEPT ![Peer(e)] = SubSeq(@, k + 1, Len(@))]
              /\ call' = [call EXCEPT ![e] = IF k < Len(out[Peer(e)]) THEN "writen"
                                             ELSE IF e = "client" THEN reader ELSE "readlineb"]

(* write takes k bytes.                                                    *)
Write(e) == /\ call[e] = "writen"
            /\ ~Gone(Peer(e))
            /\ \E k \in 1 .. Least(Len(out[Peer(e)]), Room - Len(net[Peer(e)])) :
                 /\ Sent(e, k)
                 /\ net' = [net EXCEPT ![Peer(e)] = @ \o SubSeq(out[Peer(e)], 1, k)]
            /\ UNCHANGED <<reader, rio, usr, given, got, asked, cut, shown>>

(* The other end is closed: the bytes are taken and thrown away, or the    *)
(* process is killed.                                                      *)
WriteGone(e) == /\ call[e] = "writen"
                /\ Gone(Peer(e))
                /\ \/ Sent(e, Len(out[Peer(e)]))
                   \/ /\ call' = [call EXCEPT ![e] = "killed"]
                      /\ out' = [out EXCEPT ![Peer(e)] = <<>>]
                /\ UNCHANGED <<reader, net, rio, usr, given, got, asked, cut, shown>>

----------------------------------------------------------------------------
(* rio_readnb and rio_readlineb *)

Reading(e) == call[e] \in {"readnb", "readlineb"}

(* Mutation: a full buffer does not end a line.                            *)
CompleteAtNewline(e) == usr[e] # <<>> /\ IF call[e] = "readnb" THEN Len(usr[e]) = MAXLINE
                                         ELSE usr[e][Len(usr[e])].ch = "end"

(* The call has all it wants: MAXLINE bytes, or a newline, or a full line. *)
Complete(e) == \/ call[e] = "readnb" /\ Len(usr[e]) = MAXLINE
               \/ call[e] = "readlineb" /\ Len(usr[e]) = MAXLINE - 1
               \/ call[e] = "readlineb" /\ usr[e] # <<>> /\ usr[e][Len(usr[e])].ch = "end"

(* rio_read: rio_cnt is 0, read brings up to RIO_BUFSIZE bytes.            *)
Refill(e) == /\ Reading(e)
             /\ ~Complete(e)
             /\ rio[e] = <<>>
             /\ \E k \in 1 .. Least(Len(net[e]), RIO_BUFSIZE) :
                  /\ rio' = [rio EXCEPT ![e] = SubSeq(net[e], 1, k)]
                  /\ net' = [net EXCEPT ![e] = SubSeq(@, k + 1, Len(@))]
             /\ UNCHANGED <<reader, call, out, usr, given, got, asked, cut, shown>>

(* Mutation: nleft is not brought down between the pieces.                 *)
CopyWhole(e) == /\ Reading(e)
                /\ ~Complete(e)
                /\ rio[e] # <<>>
                /\ usr' = [usr EXCEPT ![e] = @ \o SubSeq(rio[e], 1, Least(Len(rio[e]), MAXLINE))]
                /\ rio' = [rio EXCEPT ![e] = SubSeq(@, Least(Len(@), MAXLINE) + 1, Len(@))]
                /\ UNCHANGED <<reader, call, out, net, given, got, asked, cut, shown>>

(* Mutation: what is left of the buffer after a line is dropped.           *)
CopyDropping(e) == /\ Reading(e)
                   /\ ~Complete(e)
                   /\ rio[e] # <<>>
                   /\ usr' = [usr EXCEPT ![e] = Append(@, Head(rio[e]))]
                   /\ rio' = [rio EXCEPT ![e] = IF Head(@).ch = "end" THEN <<>> ELSE Tail(@)]
                   /\ UNCHANGED <<reader, call, out, net, given, got, asked, cut, shown>>

(* How many bytes the call takes from rio_buf: rio_readnb what it still    *)
(* wants at once, rio_readlineb one by one.                                *)
Wanted(e) == IF call[e] = "readnb" THEN Least(Len(rio[e]), MAXLINE - Len(usr[e])) ELSE 1

Copy(e) == /\ Reading(e)
           /\ ~Complete(e)
           /\ rio[e] # <<>>
           /\ usr' = [usr EXCEPT ![e] = @ \o SubSeq(rio[e], 1, Wanted(e))]
           /\ rio' = [rio EXCEPT ![e] = SubSeq(@, Wanted(e) + 1, Len(@))]
           /\ UNCHANGED <<reader, call, out, net, given, got, asked, cut, shown>>

(* read returns 0.                                                         *)
EndOfFile(e) == /\ Reading(e)
                /\ rio[e] = <<>>
                /\ net[e] = <<>>
                /\ Gone(Peer(e))

(* The call returns usr[e], which is empty at the end of the stream.       *)
Returns(e) == /\ Complete(e) \/ EndOfFile(e)
              /\ got' = [got EXCEPT ![e] = @ + Len(usr[e])]
              /\ usr' = [usr EXCEPT ![e] = <<>>]

----------------------------------------------------------------------------
(* The two processes *)

Give(e, chars) == /\ out' = [out EXCEPT ![e] = Placed(e, chars)]
                  /\ given' = [given EXCEPT ![e] = @ + Len(chars)]

(* Close, or the end of the process: what came for it is thrown away.      *)
Close(e, how) == /\ call' = [call EXCEPT ![e] = how]
                 /\ net' = [net EXCEPT ![e] = <<>>]
                 /\ rio' = [rio EXCEPT ![e] = <<>>]
                 /\ usr' = [usr EXCEPT ![e] = <<>>]
                 /\ out' = [out EXCEPT ![Peer(e)] = <<>>]

(* Fgets returns a line; Rio_writen is called.                             *)
Ask == /\ call["client"] = "fgets"
       /\ asked < Orders
       /\ ~cut
       /\ \E line \in Lines \cup {CutLine} :
            /\ Give("server", line)
            /\ cut' = (line = CutLine)
       /\ call' = [call EXCEPT !["client"] = "writen"]
       /\ asked' = asked + 1
       /\ UNCHANGED <<reader, net, rio, usr, got, shown>>

(* The answer, or the old content of buf, is printed.                      *)
Show == /\ Reading("client")
        /\ Returns("client")
        /\ shown' = shown + 1
        /\ call' = [call EXCEPT !["client"] = "fgets"]
        /\ UNCHANGED <<reader, out, net, rio, given, asked, cut>>

(* End of the input.                                                       *)
Leave == /\ call["client"] = "fgets"
         /\ Close("client", "closed")
         /\ UNCHANGED <<reader, given, got, asked, cut, shown>>

(* The user ends the client at any moment.                                 *)
Kill == /\ ~Gone("client")
        /\ Close("client", "killed")
        /\ UNCHANGED <<reader, given, got, asked, cut, shown>>

(* The line is exit.                                                       *)
IsExit == \E k \in DOMAIN usr["server"] : usr["server"][k].ch = "exit"

(* A line other than exit: it is carried out and answered.                 *)
Serve == /\ call["server"] = "readlineb"
         /\ Returns("server")
         /\ usr["server"] # <<>>
         /\ ~IsExit
         /\ \E answer \in Answers : Give("client", answer)
         /\ call' = [call EXCEPT !["server"] = "writen"]
         /\ UNCHANGED <<reader, net, rio, asked, cut, shown>>

(* exit, or the end of the stream: echo_cnt returns and thread closes.     *)
Finish == /\ call["server"] = "readlineb"
          /\ Complete("server") \/ EndOfFile("server")
          /\ usr["server"] = <<>> \/ IsExit
          /\ got' = [got EXCEPT !["server"] = @ + Len(usr["server"])]
          /\ Close("server", "closed")
          /\ UNCHANGED <<reader, given, asked, cut, shown>>

End(e) == Write(e) \/ WriteGone(e) \/ Refill(e) \/ Copy(e)

Connected(e) == UNCHANGED sockVars /\ stage[e] = IF e = "client" THEN "ready" ELSE "accepted"

ClientStep == Connected("client") /\ (End("client") \/ Show)
ServerStep == Connected("server") /\ (End("server") \/ Serve \/ Finish)
UserStep   == Connected("client") /\ (Ask \/ Leave \/ Kill)

Next == ClientStep \/ ServerStep \/ UserStep \/ (SetUp /\ UNCHANGED rioVars)

(* Neither process stops on its own; the user may.                         *)
Spec == /\ Init /\ [][Next]_vars
        /\ WF_vars(ClientStep) /\ WF_vars(ServerStep) /\ WF_vars(Accept /\ UNCHANGED rioVars)

----------------------------------------------------------------------------
(* Properties *)

Bytes == [at : Nat \ {0}, ch : Chars]

(* Types; no call writes beyond the MAXLINE bytes of its usrbuf, with room *)
(* for the closing 0 of a line.                                            *)
TypeOK == /\ reader \in {"readnb", "readlineb"}
          /\ call \in [Ends -> {"fgets", "writen", "readnb", "readlineb", "closed", "killed"}]
          /\ \A e \in Ends :
               /\ out[e] \in Seq(Bytes) /\ net[e] \in Seq(Bytes)
               /\ rio[e] \in Seq(Bytes) /\ Len(rio[e]) <= RIO_BUFSIZE
               /\ usr[e] \in Seq(Bytes)
               /\ Len(usr[e]) <= IF call[e] = "readlineb" THEN MAXLINE - 1 ELSE MAXLINE
          /\ given \in [Ends -> Nat] /\ got \in [Ends -> Nat]
          /\ asked \in 0 .. Orders /\ cut \in BOOLEAN /\ shown \in 0 .. asked

(* What e has not got yet, nearest first.                                  *)
Pending(e) == usr[e] \o rio[e] \o net[e] \o out[e]

(* Rio over short reads and writes is a stream: what an open end has not   *)
(* got yet is exactly what it was given beyond what it got, in order. And  *)
(* when every answer is read whole (task_1), nothing is left of it, or of  *)
(* the line it answers, when the client asks for its next line.            *)
StreamKept ==
    /\ \A e \in Ends : ~Gone(e) =>
         \A k \in DOMAIN Pending(e) : Pending(e)[k].at = got[e] + k
    /\ \A e \in Ends : ~Gone("client") /\ ~Gone("server") =>
         got[e] + Len(Pending(e)) = given[e]
    /\ reader = "readnb" /\ call["client"] = "fgets" /\ ~Gone("server") =>
         /\ Pending("client") = <<>> /\ Pending("server") = <<>>
         /\ got["client"] = asked * MAXLINE

(* A line ended by a newline, or as long as Fgets returns, is answered:    *)
(* whichever way it reads, the client is not left waiting. (A cut-off last *)
(* line is not answered: each side then waits for the other until the      *)
(* client is killed.) Nor is the server, once its client has gone.         *)
AnswersArrive ==
    /\ \A k \in 1 .. Orders : (asked = k /\ ~cut) ~> (shown = k \/ Gone("client"))
    /\ Gone("client") ~> Gone("server")
===============================================================================
