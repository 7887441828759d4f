-------------------------------- MODULE Sockets --------------------------------
(***************************************************************************)
(* How a client and the stock server find each other: open_clientfd and    *)
(* open_listenfd of csapp.c, which walk a list of addresses until one      *)
(* works, and Accept. A step is one system call with what follows it.      *)
(*                                                                         *)
(* The kernel is external: any socket, bind or listen may fail, and a      *)
(* connect succeeds exactly when the server listens where it reaches it,   *)
(* even before the server accepts. accept, setsockopt and close succeed.   *)
(***************************************************************************)
EXTENDS Integers, Sequences, FiniteSets, FiniteSetsExt

CONSTANTS Addresses, \* Addresses[e]: what Getaddrinfo returns at end e
          Serves     \* Serves[a]: addresses that reach a socket bound to a

Ends == {"client", "server"}

ASSUME SocketsAssumption == Addresses \in [Ends -> Seq(DOMAIN Serves)]

VARIABLES
    stage,     \* stage[e]: start; walk (p is the next address), use (fd is its socket),
               \* listen; ready (open_clientfd or open_listenfd returned), failed; accepted
    p,         \* p[e]: index of the address
    fd,        \* fd[e]: clientfd, listenfd
    open,      \* open[e]: descriptors of e
    bound,     \* the address listenfd is bound to, or none
    listening, \* it is a listening socket
    excused    \* history: the client has a reason to fail

sockVars == <<stage, p, fd, open, bound, listening, excused>>

SocketsInit == /\ stage = [e \in Ends |-> "start"]
               /\ p = [e \in Ends |-> 1]
               /\ fd = [e \in Ends |-> 0]
               /\ open = [e \in Ends |-> {}]
               /\ bound = "none"
               /\ listening = FALSE
               /\ excused = FALSE

(* 0, 1 and 2 are in use; the kernel gives the least descriptor that is    *)
(* free.                                                                   *)
NewFd(e) == Min((3 .. 5) \ open[e])
Address(e) == Addresses[e][p[e]]
Reached(a) == listening /\ a \in Serves[bound]

Go(e, to) == stage' = [stage EXCEPT ![e] = to]

(* The locals are gone once the function has returned.                     *)
Returned(e, to) == Go(e, to) /\ p' = [p EXCEPT ![e] = 1]

----------------------------------------------------------------------------
(* Both functions *)

(* Without an address gai_error ends the process.                          *)
Getaddrinfo(e) == /\ stage[e] = "start"
                  /\ Go(e, "walk") \/ Go(e, "failed")
                  /\ excused' = IF e = "client"
                                THEN \/ stage'[e] = "failed"
                                     \/ \A k \in DOMAIN Addresses[e] : ~Reached(Addresses[e][k])
                                ELSE excused
                  /\ UNCHANGED <<p, fd, open, bound, listening>>

Socket(e) == /\ stage[e] = "walk"
             /\ p[e] <= Len(Addresses[e])
             /\ \/ /\ fd' = [fd EXCEPT ![e] = NewFd(e)]
                   /\ open' = [open EXCEPT ![e] = @ \cup {NewFd(e)}]
                   /\ Go(e, "use")
                   /\ UNCHANGED <<p, excused>>
                \/ /\ p' = [p EXCEPT ![e] = @ + 1]
                   /\ excused' = (excused \/ (e = "client" /\ Reached(Address(e))))
                   /\ UNCHANGED <<stage, fd, open>>
             /\ UNCHANGED <<bound, listening>>

(* -1 is returned and unix_error ends the process.                         *)
WalkEnds(e) == /\ stage[e] = "walk"
               /\ p[e] > Len(Addresses[e])
               /\ Returned(e, "failed")
               /\ UNCHANGED <<fd, open, bound, listening, excused>>

(* Mutation: the socket that did not work stays open.                      *)
TryNext_leaking(e) == /\ p' = [p EXCEPT ![e] = @ + 1]
                      /\ Go(e, "walk")
                      /\ UNCHANGED <<fd, open>>

TryNext(e) == /\ open' = [open EXCEPT ![e] = @ \ {fd[e]}]
              /\ fd' = [fd EXCEPT ![e] = 0]
              /\ p' = [p EXCEPT ![e] = @ + 1]
              /\ Go(e, "walk")

----------------------------------------------------------------------------
(* open_clientfd *)

Connect == /\ stage["client"] = "use"
           /\ IF Reached(Address("client"))
              THEN Returned("client", "ready") /\ excused' = FALSE /\ UNCHANGED <<fd, open>>
              ELSE TryNext("client") /\ UNCHANGED excused
           /\ UNCHANGED <<bound, listening>>

----------------------------------------------------------------------------
(* open_listenfd, and Accept in main *)

Bind == /\ stage["server"] = "use"
        /\ \/ /\ bound' = Address("server")
              /\ Returned("server", "listen")
              /\ UNCHANGED <<fd, open>>
           \/ /\ TryNext("server")
              /\ UNCHANGED bound
        /\ UNCHANGED <<listening, excused>>

Listen == /\ stage["server"] = "listen"
          /\ \/ /\ listening' = TRUE
                /\ Go("server", "ready")
                /\ UNCHANGED <<fd, open, bound>>
             \/ /\ open' = [open EXCEPT !["server"] = @ \ {fd["server"]}]
                /\ fd' = [fd EXCEPT !["server"] = 0]
                /\ bound' = "none"
                /\ Go("server", "failed")
                /\ UNCHANGED listening
          /\ UNCHANGED <<p, excused>>

Accept == /\ stage["server"] = "ready"
          /\ stage["client"] = "ready"
          /\ open' = [open EXCEPT !["server"] = @ \cup {NewFd("server")}]
          /\ Go("server", "accepted")
          /\ UNCHANGED <<p, fd, bound, listening, excused>>

----------------------------------------------------------------------------

OpenSocket(e) == Getaddrinfo(e) \/ Socket(e) \/ WalkEnds(e)
open_clientfd == OpenSocket("client") \/ Connect
open_listenfd == OpenSocket("server") \/ Bind \/ Listen
SetUp == open_clientfd \/ open_listenfd \/ Accept

----------------------------------------------------------------------------
(* Properties *)

(* However far the walks got, each process holds exactly the socket it is  *)
(* working on, and none when it fails ("Connect failed, try another",      *)
(* csapp.c:950); and a client that came when the server could be reached,  *)
(* and got a socket for that address, is connected, whatever addresses     *)
(* failed before.                                                          *)
SetUpSound ==
    /\ \A e \in Ends :
         /\ stage[e] \in {"start", "walk", "failed"} => open[e] = {}
         /\ stage[e] \in {"use", "listen", "ready"} => open[e] = {fd[e]}
    /\ stage["server"] = "accepted" => Cardinality(open["server"]) = 2
    /\ stage["client"] = "failed" => excused
===============================================================================
