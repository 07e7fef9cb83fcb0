------------------------------ MODULE ChatServer ------------------------------
(***************************************************************************)
(* src/Code/server.c: main() accepts a fixed number of connections and     *)
(* starts a thread for each, to which it passes the address of the one     *)
(* variable that holds the descriptor accepted last.  The thread reads it  *)
(* when it runs.                                                           *)
(*                                                                         *)
(* Descriptors are reused, lowest first, for connections and for the files *)
(* of the services.  A thread whose client leaves at the first question    *)
(* closes its descriptor and goes on with the same number, and with an     *)
(* input that was never set.  A service is a conversation that goes on     *)
(* until the client has finished it; what is written in it is the subject  *)
(* of module CFile.                                                        *)
(***************************************************************************)
EXTENDS Integers, FiniteSets

CONSTANTS
  MAX_ACCEPTS,   \* 10 in the source
  MAX_FDS,       \* descriptors the process may have beside those it starts with
  NoFd,          \* -1
  Nobody, File

ASSUME ChatAssumption ==
  /\ MAX_ACCEPTS \in Nat /\ MAX_FDS \in Nat
  /\ NoFd \notin Int /\ Nobody \notin Int /\ File \notin Int /\ File # Nobody

\* The turns of main()'s loop: each accepts a client, whose thread it starts.
Peers == 1 .. MAX_ACCEPTS
Fds == 1 .. MAX_FDS

VARIABLES
  peer,              \* "away", "open", "left", or "failed": accept() gave none
  descriptors,       \* what each descriptor is: a client's connection, a File, or Nobody's
  client_socketfd,   \* main()'s variable
  main_at,           \* "accept", "create", "return" or "ended": the process is gone
  thread_at, thread_fd,
  thread_file,       \* the descriptor of the FILE of a service, or NoFd
  overtaken,         \* history: threads whose variable changed before they read it
  closed_twice,      \* history: threads that went on after their first close()
  dealt_with         \* history: which thread has read, written or closed whose connection

mainVars == <<peer, client_socketfd, main_at, overtaken>>
chatVars == <<mainVars, descriptors, thread_at, thread_fd, thread_file, closed_twice, dealt_with>>

ChatInit ==
  /\ peer = [p \in Peers |-> "away"]
  /\ descriptors = [f \in Fds |-> Nobody]
  /\ client_socketfd = NoFd
  /\ main_at = "accept"
  /\ thread_at = [t \in Peers |-> "none"]
  /\ thread_fd = [t \in Peers |-> NoFd] /\ thread_file = thread_fd
  /\ overtaken = {} /\ closed_twice = {} /\ dealt_with = {}

-----------------------------------------------------------------------------
\* A client leaves, or the next one connects.
Hangup(p) ==
  /\ main_at # "ended"
  /\ peer[p] = "open"
  /\ peer' = [peer EXCEPT ![p] = "left"]
  /\ UNCHANGED <<descriptors, client_socketfd, main_at, thread_at, thread_fd, thread_file,
                 overtaken, closed_twice, dealt_with>>

Accepted == Cardinality({p \in Peers : peer[p] # "away"})

FreeFds == {f \in Fds : descriptors[f] = Nobody}
LowestFree == CHOOSE f \in FreeFds : \A g \in FreeFds : f <= g

\* A new descriptor for x, if there is one.
TakeFd(x) == FreeFds # {} /\ descriptors' = [descriptors EXCEPT ![LowestFree] = x]

\* client_socketfd= accept(...), of which the result is not looked at: it may be -1.
Accept ==
  LET p == Accepted + 1 IN
  /\ main_at = "accept"
  /\ p \in Peers
  /\ \/ peer' = [peer EXCEPT ![p] = "open"] /\ TakeFd(p) /\ client_socketfd' = LowestFree
     \/ peer' = [peer EXCEPT ![p] = "failed"] /\ client_socketfd' = NoFd /\ UNCHANGED descriptors
  /\ overtaken' = overtaken \cup {t \in Peers : thread_at[t] = "start"}
  /\ main_at' = "create"
  /\ UNCHANGED <<thread_at, thread_fd, thread_file, closed_twice, dealt_with>>

\* Mutant of Create: main() closes what it has handed over.
MutCreate ==
  /\ main_at = "create"
  /\ thread_at' = [thread_at EXCEPT ![Accepted] = "start"]
  /\ descriptors' = [f \in Fds |-> IF f = client_socketfd THEN Nobody ELSE descriptors[f]]
  /\ main_at' = IF Accepted = MAX_ACCEPTS THEN "return" ELSE "accept"
  /\ UNCHANGED <<peer, client_socketfd, thread_fd, thread_file, overtaken, closed_twice, dealt_with>>

\* pthread_create()
Create ==
  /\ main_at = "create"
  /\ thread_at' = [thread_at EXCEPT ![Accepted] = "start"]
  /\ main_at' = IF Accepted = MAX_ACCEPTS THEN "return" ELSE "accept"
  /\ UNCHANGED <<peer, descriptors, client_socketfd, thread_fd, thread_file,
                 overtaken, closed_twice, dealt_with>>

-----------------------------------------------------------------------------
ThreadGoes(t, from, to) ==
  /\ main_at # "ended"
  /\ thread_at[t] = from
  /\ thread_at' = [thread_at EXCEPT ![t] = to]

\* int client_socketfd= *(int*)client_desc;
Start(t) ==
  /\ ThreadGoes(t, "start", "question")
  /\ thread_fd' = [thread_fd EXCEPT ![t] = client_socketfd]
  /\ UNCHANGED <<mainVars, descriptors, thread_file, closed_twice, dealt_with>>

\* The client behind a descriptor now, and the record that a thread deals with it.
ClientOf(fd) == IF fd \in Fds /\ descriptors[fd] \in Peers THEN descriptors[fd] ELSE Nobody
Deal(t, fd) ==
  dealt_with' = IF ClientOf(fd) = Nobody THEN dealt_with ELSE dealt_with \cup {<<t, ClientOf(fd)>>}

Closed(fd) == [f \in Fds |-> IF f = fd THEN Nobody ELSE descriptors[f]]

Partner(t) == ClientOf(thread_fd[t])
Present(t) == Partner(t) # Nobody /\ peer[Partner(t)] = "open"
Gone(t) == Partner(t) # Nobody /\ peer[Partner(t)] = "left"

\* The question and its answer; a number from 1 to 3 leads to a service.
Answer(t) ==
  /\ \E to \in {"again", "service"} : ThreadGoes(t, "question", to)
  /\ ~Gone(t)
  /\ Deal(t, thread_fd[t])
  /\ UNCHANGED <<mainVars, descriptors, thread_fd, thread_file, closed_twice>>

\* read() gave 0: close(), and the same switch with whatever input holds.
NoAnswer(t) ==
  /\ \E to \in {"again", "service"} : ThreadGoes(t, "question", to)
  /\ Gone(t)
  /\ Deal(t, thread_fd[t])
  /\ descriptors' = Closed(thread_fd[t])
  /\ closed_twice' = closed_twice \cup {t}
  /\ UNCHANGED <<mainVars, thread_fd, thread_file>>

\* "Provide valid input", until it is: for ever if nobody answers.
Again(t) ==
  /\ \/ ThreadGoes(t, "again", "service") /\ Present(t)
     \/ ThreadGoes(t, "again", "again")
  /\ Deal(t, thread_fd[t])
  /\ UNCHANGED <<mainVars, descriptors, thread_fd, thread_file, closed_twice>>

\* The service opens its file; without a descriptor it returns.
OpenFile(t) ==
  /\ thread_file[t] = NoFd
  /\ \/ /\ ThreadGoes(t, "service", "service") /\ TakeFd(File)
        /\ thread_file' = [thread_file EXCEPT ![t] = LowestFree]
     \/ ThreadGoes(t, "service", "close") /\ FreeFds = {} /\ UNCHANGED <<descriptors, thread_file>>
  /\ UNCHANGED <<mainVars, thread_fd, closed_twice, dealt_with>>

\* check_string() opens the list of libraries and never closes it.
LeakFile(t) ==
  /\ ThreadGoes(t, "service", "service") /\ thread_file[t] # NoFd
  /\ TakeFd(File)
  /\ UNCHANGED <<mainVars, thread_fd, thread_file, closed_twice, dealt_with>>

\* fclose() writes what is left and closes whatever has the number by now.
CloseFile(t) ==
  /\ ThreadGoes(t, "service", "service") /\ thread_file[t] # NoFd
  /\ Deal(t, thread_file[t])
  /\ descriptors' = Closed(thread_file[t])
  /\ thread_file' = [thread_file EXCEPT ![t] = NoFd]
  /\ UNCHANGED <<mainVars, thread_fd, closed_twice>>

\* One exchange of a service, or its end.
Serve(t) ==
  /\ \/ ThreadGoes(t, "service", "service")
     \/ ThreadGoes(t, "service", "close") /\ thread_file[t] = NoFd
  /\ Deal(t, thread_fd[t])
  /\ UNCHANGED <<mainVars, descriptors, thread_fd, thread_file, closed_twice>>

\* The last close() closes whatever has the number by now.
Close(t) ==
  /\ ThreadGoes(t, "close", "done")
  /\ Deal(t, thread_fd[t])
  /\ descriptors' = Closed(thread_fd[t])
  /\ UNCHANGED <<mainVars, thread_fd, thread_file, closed_twice>>

-----------------------------------------------------------------------------
\* main() returns, or a thread writes again to a client that has gone, and gets
\* SIGPIPE: the process ends with all its threads.
ProcessEnds ==
  /\ \/ main_at = "return"
     \/ main_at # "ended" /\ \E t \in Peers : thread_at[t] \in {"again", "service"} /\ Gone(t)
  /\ main_at' = "ended"
  /\ UNCHANGED <<peer, descriptors, client_socketfd, thread_at, thread_fd, thread_file,
                 overtaken, closed_twice, dealt_with>>

thread_funct(t) ==
  \/ Start(t) \/ Answer(t) \/ NoAnswer(t) \/ Again(t) \/ Close(t)
  \/ OpenFile(t) \/ LeakFile(t) \/ CloseFile(t) \/ Serve(t)

ChatNext == Accept \/ Create \/ ProcessEnds \/ \E p \in Peers : Hangup(p) \/ thread_funct(p)

ChatSpec == ChatInit /\ [][ChatNext]_chatVars

-----------------------------------------------------------------------------
\* If no thread was overtaken before it read the variable, and none went on after
\* its first close(), every thread deals with its own client only, and a client
\* whose connection is open has a thread that has it and is not done, whatever
\* files the services open, close or leave open and whichever accept() fails.
OwnClientUnlessOvertaken ==
  overtaken = {} /\ closed_twice = {} =>
    /\ \A deal \in dealt_with : deal[1] = deal[2]
    /\ \A f \in Fds :
         ClientOf(f) # Nobody /\ main_at # "ended" =>
           \/ main_at = "create" /\ client_socketfd = f
           \/ LET t == ClientOf(f) IN
              thread_at[t] = "start" \/ (thread_at[t] # "done" /\ thread_fd[t] = f)

=============================================================================
