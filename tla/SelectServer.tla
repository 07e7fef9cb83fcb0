----------------------------- MODULE SelectServer -----------------------------
(***************************************************************************)
(* src/LINUX_Programing/Network_socket_select_add/server.c: one thread     *)
(* that echoes what its connections send.  It asks select() which sockets  *)
(* have something to read, accepts one connection if there is one, and     *)
(* then looks at every place of its table.                                 *)
(*                                                                         *)
(* Clients connect, send, leave, or break off (their socket is reset),     *)
(* accepted or not.  They act between any two steps of the server.  A      *)
(* piece of data is a text or holds a zero byte, at which strlen() cuts    *)
(* the echo.                                                               *)
(***************************************************************************)
EXTENDS Integers, Sequences, FiniteSets

CONSTANTS
  MAX_CLIENTS,    \* bound: connections in the life of the server
  Listener, NoSocket,   \* master_socket, and 0
  max_clients,
  MAX_SENDS       \* bound on the pieces of all clients

ASSUME SelectAssumption ==
  /\ MAX_CLIENTS \in Nat /\ max_clients \in Nat \ {0} /\ MAX_SENDS \in Nat
  /\ Listener \notin Int /\ NoSocket \notin Int /\ Listener # NoSocket   \* clients are numbers

VARIABLES
  client_state,     \* "away", "here", "left" or "reset"
  unread,           \* pieces the server has not read, and what ends them
  sent, echoed,     \* history: pieces each client sent, and got back
  accepted,         \* how many were accepted; the others wait in the queue of listen()
  client_socket,    \* the table: a client for its socket, or NoSocket
  open_sockets,     \* clients whose socket the server has not closed
  readfds,          \* what select() left in it
  turned_away,      \* history: connections accepted with a full table
  server_at,        \* "select", "accept", "serve" or "ended"
  place             \* of the table: i of the loop that serves

selVars == <<client_state, unread, sent, echoed, accepted, client_socket, open_sockets,
             readfds, turned_away, server_at, place>>
tableVars == <<accepted, client_socket, open_sockets, turned_away>>
loopVars == <<readfds, server_at, place>>

\* The clients, numbered in the order in which they connect.
Clients == 1 .. MAX_CLIENTS

Places == 0 .. max_clients - 1

SelInit ==
  /\ client_state = [c \in Clients |-> "away"]
  /\ unread = [c \in Clients |-> <<>>] /\ sent = unread /\ echoed = unread
  /\ accepted = 0
  /\ client_socket = [i \in Places |-> NoSocket]
  /\ open_sockets = {} /\ readfds = {} /\ turned_away = {}
  /\ server_at = "select" /\ place = 0

-----------------------------------------------------------------------------
\* The clients.
Connect(c) ==
  /\ client_state[c] = "away" /\ server_at # "ended"
  /\ \A d \in 1 .. c - 1 : client_state[d] # "away"
  /\ client_state' = [client_state EXCEPT ![c] = "here"]
  /\ UNCHANGED <<unread, sent, echoed, tableVars, loopVars>>

Send(c) ==
  /\ client_state[c] = "here"
  /\ Cardinality(UNION {{d} \X DOMAIN sent[d] : d \in Clients}) < MAX_SENDS
  /\ \E has \in {"text", "zero"} :
       LET piece == [from |-> c, number |-> Len(sent[c]) + 1, has |-> has] IN
       /\ sent' = [sent EXCEPT ![c] = Append(@, piece)]
       /\ unread' = [unread EXCEPT ![c] = Append(@, piece)]
  /\ UNCHANGED <<client_state, echoed, tableVars, loopVars>>

Leave(c) ==
  /\ client_state[c] = "here"
  /\ client_state' = [client_state EXCEPT ![c] = "left"]
  /\ UNCHANGED <<unread, sent, echoed, tableVars, loopVars>>

\* What the next read of a connection that is reset finds.
Failure(c) == [from |-> c, number |-> 0, has |-> "error"]

\* What it had sent is gone, and the next read fails.  A client that has left
\* resets the connection if it gets something.
BreakOff(c) ==
  /\ client_state[c] \in {"here", "left"}
  /\ client_state' = [client_state EXCEPT ![c] = "reset"]
  /\ unread' = [unread EXCEPT ![c] = <<Failure(c)>>]
  /\ UNCHANGED <<sent, echoed, tableVars, loopVars>>

-----------------------------------------------------------------------------
\* FD_SET() for the listening socket and the table.
Watched == {Listener} \cup ({client_socket[i] : i \in Places} \ {NoSocket})

Waiting(c) == c \in Clients /\ c = accepted + 1 /\ client_state[c] # "away"

Readable(x) ==
  IF x = Listener THEN \E c \in Clients : Waiting(c)
  ELSE unread[x] # <<>> \/ client_state[x] \in {"left", "reset"}

\* The loop over the table, from place i on: it stops at the places that are set,
\* and after them the set is made anew.
ServeFrom(i, table, set) ==
  LET ready == {j \in Places : i <= j /\ table[j] \in set} IN
  \/ /\ ready # {}
     /\ server_at' = "serve" /\ readfds' = set
     /\ place' = CHOOSE j \in ready : \A k \in ready : j <= k
  \/ /\ ready = {}
     /\ server_at' = "select" /\ readfds' = {} /\ place' = 0

\* What select() leaves: the sockets with something to read, or, when it fails,
\* the set as it was given; the error is printed and the set is used.
SelectLeaves(set) ==
  /\ server_at = "select"
  /\ \/ Listener \in set /\ readfds' = set /\ server_at' = "accept" /\ UNCHANGED place
     \/ Listener \notin set /\ ServeFrom(0, client_socket, set)
  /\ UNCHANGED <<client_state, unread, sent, echoed, tableVars>>

Select == \E x \in Watched : Readable(x) /\ SelectLeaves({y \in Watched : Readable(y)})

SelectFails == SelectLeaves(Watched)

FreePlaces == {i \in Places : client_socket[i] = NoSocket}
FirstFree == CHOOSE i \in FreePlaces : \A j \in FreePlaces : i <= j

\* Mutant of Seat: the loop goes on after the first free place.
MutSeat(c) ==
  /\ client_socket' = [i \in Places |-> IF i \in FreePlaces THEN c ELSE client_socket[i]]
  /\ turned_away' = IF FreePlaces = {} THEN turned_away \cup {c} ELSE turned_away

\* The first free place; a connection for which there is none stays open.
Seat(c) ==
  \/ /\ FreePlaces # {}
     /\ client_socket' = [client_socket EXCEPT ![FirstFree] = c]
     /\ UNCHANGED turned_away
  \/ /\ FreePlaces = {}
     /\ turned_away' = turned_away \cup {c}
     /\ UNCHANGED client_socket

\* accept(), which waits for somebody, and the greeting, which may use up the
\* error of a connection that is reset.
AcceptOne ==
  /\ server_at = "accept"
  /\ \E c \in Clients :
       /\ Waiting(c)
       /\ accepted' = c
       /\ open_sockets' = open_sockets \cup {c}
       /\ Seat(c)
       /\ \/ UNCHANGED unread
          \/ client_state[c] = "reset" /\ unread' = [unread EXCEPT ![c] = <<>>]
  /\ ServeFrom(0, client_socket', readfds)
  /\ UNCHANGED <<client_state, sent, echoed>>

\* accept() fails and the server exits, or the greeting ends it with SIGPIPE.
AcceptEnds ==
  /\ server_at = "accept"
  /\ server_at' = "ended"
  /\ UNCHANGED <<client_state, unread, sent, echoed, tableVars, readfds, place>>

NextPlace == ServeFrom(place + 1, client_socket', readfds)

SigPipe == server_at' = "ended" /\ UNCHANGED <<place, readfds>>

\* The client whose socket is at the place that is served.
Served == client_socket[place]

\* read() gives 0 when nothing is left of somebody who has gone, and waits if
\* nobody has: a set that select() did not change tells nothing.
CloseOne ==
  /\ server_at = "serve"
  /\ unread[Served] = <<>> /\ client_state[Served] # "here"
  /\ open_sockets' = open_sockets \ {Served}
  /\ client_socket' = [client_socket EXCEPT ![place] = NoSocket]
  /\ NextPlace
  /\ UNCHANGED <<client_state, unread, sent, echoed, accepted, turned_away>>

\* The part of a reading that strlen() measures.
UpToZero(pieces) ==
  LET zeros == {k \in 1 .. Len(pieces) : pieces[k].has = "zero"}
  IN  SubSeq(pieces, 1, IF zeros = {} THEN Len(pieces)
                        ELSE CHOOSE k \in zeros : \A z \in zeros : k <= z)

\* One read() may give several pieces, and leave some.  The answer to somebody
\* who has gone may end the server with SIGPIPE.
Echo ==
  /\ server_at = "serve"
  /\ unread[Served] \notin {<<>>, <<Failure(Served)>>}
  /\ \E n \in 1 .. Len(unread[Served]) :
       LET pieces == SubSeq(unread[Served], 1, n) IN
       /\ unread' = [unread EXCEPT ![Served] = SubSeq(@, n + 1, Len(@))]
       /\ echoed' = [echoed EXCEPT ![Served] = @ \o UpToZero(pieces)]
  /\ UNCHANGED <<client_state, sent, tableVars>>
  /\ NextPlace \/ (client_state[Served] # "here" /\ SigPipe)

\* read() failed: buffer[-1] is set, and what the buffer holds goes to a socket
\* that is reset.
EchoError ==
  /\ server_at = "serve"
  /\ unread[Served] = <<Failure(Served)>>
  /\ unread' = [unread EXCEPT ![Served] = <<>>]
  /\ UNCHANGED <<client_state, sent, echoed, tableVars>>
  /\ NextPlace \/ SigPipe

SelNext ==
  \/ \E c \in Clients : Connect(c) \/ Send(c) \/ Leave(c) \/ BreakOff(c)
  \/ Select \/ SelectFails \/ AcceptOne \/ AcceptEnds
  \/ CloseOne \/ Echo \/ EchoError

SelSpec == SelInit /\ [][SelNext]_selVars

-----------------------------------------------------------------------------
\* A socket the server has open is in one place of the table and no more, and in
\* none only if the table was full when it was accepted.
OnePlaceUnlessFull ==
  \A c \in Clients :
    Cardinality({i \in Places : client_socket[i] = c})
      = IF c \in open_sockets \ turned_away THEN 1 ELSE 0

\* What a client sends comes back in order and without a gap, if no zero byte is
\* sent and it does not break off: nothing is echoed twice, to somebody else, or
\* forgotten in a socket that is closed.
EchoIsExact ==
  \A c \in Clients :
    client_state[c] # "reset" /\ (\A k \in 1 .. Len(sent[c]) : sent[c][k].has = "text")
      => echoed[c] \o unread[c] = sent[c]

\* Both: a socket is served from one place, exactly, until it is closed.
ServesExactly == OnePlaceUnlessFull /\ EchoIsExact

=============================================================================
